------------------------------ MODULE FlashArb ------------------------------
(***************************************************************************)
(* contracts/src/AetherExecutor.sol, the arbitrage: executeArb borrows     *)
(* from Aave, runs the swap steps against external pools and settles.  A   *)
(* transaction is atomic, but a pool acts between the contract's call to   *)
(* it and the return: it may call back, pull what it was approved for, pay *)
(* or fail.  Other transactions run only between arbs.  The caller holds   *)
(* EXECUTOR_ROLE; standing approvals of setApprovals are left out.         *)
(***************************************************************************)
EXTENDS Integers, Sequences

CONSTANTS
    Tokens,
    Requests,        \* [steps, token, amount, minProfitOut, tipBps] of executeArb
    Premiums,        \* what Aave may charge
    Floors,          \* values of minProfitThreshold
    Switched,        \* the protocols the owner turns off and on
    MaxBalance       \* bound of the model

UNISWAP_V3 == 2
Push == {1, 3}       \* UniswapV2, SushiSwap: the input is sent ahead of the call
Pull == {4, 5, 6}    \* Curve, Balancer, Bancor: the input is approved
Protocols == Push \union Pull \union {UNISWAP_V3}

Steps == [protocol : Protocols, tokenIn : Tokens, tokenOut : Tokens,
          amountIn : Nat, minAmountOut : Nat]

ASSUME ArbAssumption ==
    /\ Requests \subseteq [steps : Seq(Steps), token : Tokens, amount : Nat,
                           minProfitOut : Nat, tipBps : Nat]
    /\ Premiums \subseteq Nat /\ Floors \subseteq Nat /\ MaxBalance \in Nat
    /\ Switched \subseteq Protocols

VARIABLES
    paused, protocolEnabled, minProfitThreshold,
    bal,             \* the contract's balance of each token
    phase,           \* "idle", "swap" between steps, "called" inside a pool's call
    tx, i,           \* the arb under way and its next step
    debt,            \* amount + premium
    saved,           \* balances before the transaction
    preBalances,     \* _snapshotBalances, once the loan is in
    outBefore,       \* balanceBefore of the step
    allowance,       \* of the step's tokenIn to the pool or router
    pendingV3,       \* _pendingV3AmountIn, or -1 if _pendingV3Pool is zero
    spent,           \* history: what the step's pool has taken
    paidOut          \* history: owner's share and tip of the last arb

config == <<paused, protocolEnabled, minProfitThreshold>>
swap == <<outBefore, allowance, pendingV3, spent>>
loan == <<tx, debt, saved, preBalances>>
arbVars == <<config, bal, phase, i, loan, swap, paidOut>>

TypeOK ==
    /\ paused \in BOOLEAN /\ protocolEnabled \subseteq Protocols
    /\ minProfitThreshold \in Floors
    /\ bal \in [Tokens -> Nat] /\ phase \in {"idle", "swap", "called"}
    /\ tx \in Requests /\ i \in 1..(Len(tx.steps) + 1)
    /\ (phase = "called" => i <= Len(tx.steps))
    /\ debt \in Nat /\ saved \in [Tokens -> Nat] /\ preBalances \in [Tokens -> Nat]
    /\ outBefore \in Nat /\ allowance \in Nat /\ spent \in Nat
    /\ pendingV3 \in Nat \union {-1}
    /\ paidOut \in [done : BOOLEAN, owner : Nat, tip : Nat]

step == tx.steps[i]

nothingYet == [done |-> FALSE, owner |-> 0, tip |-> 0]

Init ==
    /\ paused = FALSE /\ protocolEnabled = Protocols /\ minProfitThreshold \in Floors
    /\ bal = [t \in Tokens |-> 0] /\ saved = bal /\ preBalances = bal
    /\ phase = "idle" /\ tx \in Requests /\ i = 1 /\ debt = 0
    /\ outBefore = 0 /\ allowance = 0 /\ pendingV3 = -1 /\ spent = 0
    /\ paidOut = nothingYet

-----------------------------------------------------------------------------
(* Between arbs.                                                           *)

setPaused(newPaused) ==
    /\ phase = "idle" /\ paused' = newPaused
    /\ UNCHANGED <<protocolEnabled, minProfitThreshold, bal, phase, i, loan, swap, paidOut>>

setDexEnabled(p, enabled) ==
    /\ phase = "idle"
    /\ protocolEnabled' = IF enabled THEN protocolEnabled \union {p} ELSE protocolEnabled \ {p}
    /\ UNCHANGED <<paused, minProfitThreshold, bal, phase, i, loan, swap, paidOut>>

setMinProfitThreshold(t) ==
    /\ phase = "idle" /\ minProfitThreshold' = t
    /\ UNCHANGED <<paused, protocolEnabled, bal, phase, i, loan, swap, paidOut>>

rescue(t, n) ==
    /\ phase = "idle" /\ n <= bal[t]
    /\ bal' = [bal EXCEPT ![t] = @ - n]
    /\ UNCHANGED <<config, phase, i, loan, swap, paidOut>>

-----------------------------------------------------------------------------
(* executeArb and executeOperation up to the first step.                   *)

\* Mutant: the caller's floor is not compared with the contract's.
floorUnchecked(r) == TRUE

floorMet(r) == r.minProfitOut >= minProfitThreshold

\* The tests of executeArb, _validateStepsBeforeFlashLoan and the 32-token
\* limit of _snapshotBalances.
accepted(r) ==
    /\ ~paused /\ r.amount > 0 /\ r.tipBps <= 10000 /\ floorMet(r)
    /\ \A k \in DOMAIN r.steps : r.steps[k].protocol \in protocolEnabled
    /\ Len(r.steps) * 2 + 1 <= 32

executeArb(r, premium) ==
    /\ phase = "idle" /\ accepted(r)
    /\ bal[r.token] + r.amount <= MaxBalance
    /\ bal' = [bal EXCEPT ![r.token] = @ + r.amount]
    /\ phase' = "swap" /\ tx' = r /\ i' = 1 /\ debt' = r.amount + premium
    /\ saved' = bal /\ preBalances' = bal' /\ paidOut' = nothingYet
    /\ UNCHANGED <<config, swap>>

\* The end of the transaction: its memory is gone.
Ends ==
    /\ phase' = "idle" /\ i' = 1 /\ debt' = 0 /\ outBefore' = 0 /\ spent' = 0
    /\ saved' = [t \in Tokens |-> 0] /\ preBalances' = [t \in Tokens |-> 0]
    /\ UNCHANGED <<config, tx>>

\* Any revert undoes the transaction.
Revert ==
    /\ phase # "idle" /\ Ends
    /\ bal' = saved /\ allowance' = 0 /\ pendingV3' = -1
    /\ UNCHANGED paidOut

-----------------------------------------------------------------------------
(* _executeSwap.                                                           *)

\* _liveAmountIn reverts on an empty balance.
_liveAmountIn(s) == IF bal[s.tokenIn] >= s.amountIn THEN s.amountIn ELSE bal[s.tokenIn]

\* Everything _executeSwap does before it calls the pool.
CallPool ==
    /\ phase = "swap" /\ i <= Len(tx.steps)
    /\ bal[step.tokenIn] > 0 \/ step.amountIn = 0
    /\ LET live == _liveAmountIn(step) IN
       /\ bal' = IF step.protocol \in Push THEN [bal EXCEPT ![step.tokenIn] = @ - live] ELSE bal
       /\ spent' = IF step.protocol \in Push THEN live ELSE 0
       /\ pendingV3' = IF step.protocol = UNISWAP_V3 THEN live ELSE -1
       /\ allowance' = IF step.protocol \in Pull THEN live ELSE 0
    /\ outBefore' = bal[step.tokenOut]
    /\ phase' = "called"
    /\ UNCHANGED <<config, i, loan, paidOut>>

\* A transfer of more than the balance fails.
Take(n) ==
    /\ n <= bal[step.tokenIn]
    /\ bal' = [bal EXCEPT ![step.tokenIn] = @ - n]
    /\ spent' = spent + n

\* Mutant: the amount is left for another callback.
callbackRepeats(owed) ==
    /\ phase = "called" /\ pendingV3 >= 0 /\ owed > 0
    /\ Take(IF owed > pendingV3 THEN pendingV3 ELSE owed)
    /\ UNCHANGED <<config, phase, i, loan, outBefore, allowance, pendingV3, paidOut>>

\* A call from the pool of the step, which may call more than once.
uniswapV3SwapCallback(owed) ==
    /\ phase = "called" /\ pendingV3 >= 0 /\ owed > 0
    /\ Take(IF owed > pendingV3 THEN pendingV3 ELSE owed)
    /\ pendingV3' = 0
    /\ UNCHANGED <<config, phase, i, loan, outBefore, allowance, paidOut>>

\* The router takes what it was approved for, in parts if it likes.
TransferFrom(n) ==
    /\ phase = "called" /\ n <= allowance
    /\ Take(n) /\ allowance' = allowance - n
    /\ UNCHANGED <<config, phase, i, loan, outBefore, pendingV3, paidOut>>

\* A pool pays, or anyone sends tokens to the contract.
Receive(t, n) ==
    /\ bal[t] + n <= MaxBalance
    /\ bal' = [bal EXCEPT ![t] = @ + n]
    /\ UNCHANGED <<config, phase, i, loan, swap, paidOut>>

slotsAfterSwap == -1

\* The call returns; approvals and callback slots are cleared and the output
\* measured.  A failed call or too little output is a Revert.
PoolReturns ==
    /\ phase = "called"
    /\ bal[step.tokenOut] >= outBefore + step.minAmountOut
    /\ phase' = "swap" /\ i' = i + 1
    /\ allowance' = 0 /\ pendingV3' = slotsAfterSwap
    /\ UNCHANGED <<config, bal, loan, outBefore, spent, paidOut>>

-----------------------------------------------------------------------------
(* _verifyBalanceInvariants and _repayAndDistribute.                       *)

Tracked == {tx.token} \union {tx.steps[k].tokenIn : k \in DOMAIN tx.steps}
                      \union {tx.steps[k].tokenOut : k \in DOMAIN tx.steps}

nothingStranded == \A t \in Tracked \ {tx.token} : bal[t] <= preBalances[t]

profit == bal[tx.token] - debt

\* The tip goes to the coinbase as ETH, or as the token if that fails; the rest
\* to the owner; Aave pulls its debt after the callback.
Settle ==
    /\ phase = "swap" /\ i > Len(tx.steps)
    /\ profit >= 0 /\ nothingStranded /\ profit >= tx.minProfitOut
    /\ LET tip == (profit * tx.tipBps) \div 10000 IN
       paidOut' = [done |-> TRUE, owner |-> profit - tip, tip |-> tip]
    /\ bal' = [bal EXCEPT ![tx.token] = 0]
    /\ Ends /\ UNCHANGED <<allowance, pendingV3>>

Amounts == 0..MaxBalance

Next ==
    \/ \E newPaused \in BOOLEAN : setPaused(newPaused)
    \/ \E p \in Switched, enabled \in BOOLEAN : setDexEnabled(p, enabled)
    \/ \E t \in Floors : setMinProfitThreshold(t)
    \/ \E t \in Tokens, n \in Amounts : rescue(t, n) \/ Receive(t, n)
    \/ \E r \in Requests, premium \in Premiums : executeArb(r, premium)
    \/ CallPool \/ PoolReturns \/ Settle \/ Revert
    \/ \E n \in Amounts : uniswapV3SwapCallback(n) \/ TransferFrom(n)

Spec == Init /\ [][Next]_arbVars

-----------------------------------------------------------------------------
\* No pool ever takes more of its step's input than the step plans, whether by
\* transfer, by approval or through any number of V3 callbacks.
StepSpendsAtMost == phase = "called" => spent <= step.amountIn

\* The callback and the approval are open only inside the call of the step that
\* needs them: never between steps, between arbs or during another protocol's.
OpenOnlyInCall ==
    /\ pendingV3 >= 0 => phase = "called" /\ step.protocol = UNISWAP_V3
    /\ allowance > 0 => phase = "called" /\ step.protocol \in Pull

\* An arb that completes pays out at least the floor that the owner set, leaves
\* no intermediate token behind that was not there before, and keeps nothing of
\* the borrowed one.
Settles ==
    [][~paidOut.done /\ paidOut'.done =>
         /\ paidOut'.owner + paidOut'.tip >= minProfitThreshold
         /\ bal'[tx.token] = 0
         /\ \A t \in Tracked \ {tx.token} : bal'[t] <= saved[t]]_arbVars

=============================================================================
