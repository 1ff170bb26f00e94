---------------------------- MODULE ChainProofs -----------------------------
(***************************************************************************)
(* What reaches the chain.  The lock-free nonce counter repeats no nonce   *)
(* but one taken inside a Sync's window, for every interleaving of Next    *)
(* and Sync, any number of bundles, any chain and any other senders.       *)
(* The contract: what a pool can take and what a completed arb leaves      *)
(* behind, for any tokens, requests, premiums and balances; ownership and  *)
(* the router timelock, for any accounts, protocols and routers and any    *)
(* length of the day.                                                      *)
(***************************************************************************)
EXTENDS NonceManager, FlashArb, RouterGovernance, TLAPS

\* How long a solver may take for a leaf.
USE ZenonT(20), SMTT(20)

(* The nonces of the bundles.                                              *)

\* The invariant that makes NeverBehindChain inductive: the nonces taken are
\* ChainStart, ChainStart + 1, ... without gap or repeat, the counter is next,
\* only nonces already taken are in flight, and the node's answer is never
\* ahead of the counter.
NonceInv ==
    /\ NonceTypeOK
    /\ Alone =>
        /\ NeverBehindChain
        /\ \A m \in 1..Len(issued) : issued[m] = ChainStart + m - 1
        /\ current = ChainStart + Len(issued)
        /\ \A n \in inflight : n < current
        /\ onChainNonce <= current
        /\ raced = {}

\* Every reachable state has the types of the atomics.
THEOREM NonceTypeCorrect == NonceSpec => []NonceTypeOK
<1> USE NonceAssumption
<1>1. NonceInit => NonceTypeOK
  BY SMTT(20) DEF NonceInit, NonceTypeOK
<1>2. NonceTypeOK /\ [NonceNext]_nonceVars => NonceTypeOK'
  <2> SUFFICES ASSUME NonceTypeOK, [NonceNext]_nonceVars PROVE NonceTypeOK'
    OBVIOUS
  <2> USE DEF NonceTypeOK, Alone, deployment, builderVars, syncVars, chainVars
  <2>1. CASE NextPending
    BY <2>1, SMTT(20) DEF NextPending
  <2>2. CASE NextCurrent
    <3>1. issued' \in Seq(Nat) /\ current' \in Nat /\ Len(issued) + 1 \in Nat
      BY <2>2, SMTT(20) DEF NextCurrent
    <3>2. raced' \subseteq Nat /\ inflight' \subseteq Nat
      BY <2>2, <3>1 DEF NextCurrent
    <3> QED BY <2>2, <3>1, <3>2 DEF NextCurrent
  <2>3. CASE SyncFetch
    BY <2>3 DEF SyncFetch
  <2>4. CASE SyncLoad
    BY <2>4 DEF SyncLoad
  <2>5. CASE SyncStore
    BY <2>5 DEF SyncStore
  <2>6. CASE SyncPending
    BY <2>6 DEF SyncPending
  <2>7. CASE Mine
    BY <2>7, SMTT(20) DEF Mine
  <2>8. CASE OtherSend
    BY <2>8, SMTT(20) DEF OtherSend
  <2>9. ASSUME NEW n \in inflight, Miss(n) PROVE NonceTypeOK'
    BY <2>9 DEF Miss
  <2>10. CASE UNCHANGED nonceVars
    BY <2>10 DEF nonceVars
  <2> QED BY <2>1, <2>2, <2>3, <2>4, <2>5, <2>6, <2>7, <2>8, <2>9, <2>10 DEF NonceNext
<1> QED BY <1>1, <1>2, PTL DEF NonceSpec

\* NonceInv is inductive.
LEMMA NonceInvariant == NonceSpec => []NonceInv
<1> USE NonceAssumption
<1>1. NonceInit => NonceInv
  BY SMTT(20) DEF NonceInit, NonceInv, NonceTypeOK, NeverBehindChain, Alone
<1>2. NonceInv /\ NonceTypeOK' /\ [NonceNext]_nonceVars => NonceInv'
  <2> SUFFICES ASSUME NonceInv, NonceTypeOK', [NonceNext]_nonceVars, Alone'
               PROVE  NonceInv'
    BY DEF NonceInv
  <2>0. Alone
    <3>1. UNCHANGED <<syncedAtStart, otherSenders>>
      BY DEF NonceNext, nonceVars, deployment, NextPending, NextCurrent, SyncFetch, SyncLoad,
             SyncStore, SyncPending, Mine, OtherSend, Miss
    <3>2. syncedAtStart' = syncedAtStart /\ otherSenders' = otherSenders
      BY <3>1
    <3> QED BY <3>2 DEF Alone
  <2>issued. \A m \in 1..Len(issued) : issued[m] = ChainStart + m - 1
    BY <2>0 DEF NonceInv
  <2> USE <2>0 DEF NonceInv, NonceTypeOK, NeverBehindChain, Alone, deployment, builderVars, syncVars, chainVars
  <2>1. CASE NextPending
    BY <2>1 DEF NextPending
  <2>2. CASE NextCurrent
    <3>1. /\ Len(issued') = Len(issued) + 1
          /\ issued'[Len(issued) + 1] = current
          /\ \A m \in 1..Len(issued) : issued'[m] = issued[m]
      <4>1. issued \in Seq(Nat) /\ current \in Nat /\ issued' = Append(issued, current)
        BY <2>2 DEF NextCurrent
      <4> QED BY <4>1, SMTT(20)
    <3>2. \A m \in 1..Len(issued') : issued'[m] = ChainStart + m - 1
      <4> SUFFICES ASSUME NEW m \in 1..Len(issued') PROVE issued'[m] = ChainStart + m - 1
        OBVIOUS
      <4>0. Len(issued) \in Nat
        BY SMTT(20)
      <4>1. CASE m = Len(issued) + 1
        BY <4>0, <4>1, <3>1, SMTT(20)
      <4>2. CASE m # Len(issued) + 1
        <5>1. m \in 1..Len(issued)
          BY <4>0, <4>2, <3>1, SMTT(20)
        <5>2. issued[m] = ChainStart + m - 1
          BY <5>1, <2>issued
        <5> QED BY <5>1, <5>2, <3>1
      <4> QED BY <4>1, <4>2
    <3>3. /\ current' = current + 1
          /\ inflight' = inflight \union {current}
          /\ UNCHANGED <<pending, syncVars, chainNonce>>
      BY <2>2 DEF NextCurrent
    <3>4. current' = ChainStart + Len(issued') /\ \A n \in inflight' : n < current'
      BY <3>1, <3>3, SMTT(20)
    <3>5. raced' = {}
      BY <2>2 DEF NextCurrent
    <3>6. chainNonce' <= current' /\ onChainNonce' <= current' /\ syncStep' = syncStep
      BY <3>3, SMTT(20)
    <3> QED BY <3>2, <3>4, <3>5, <3>6
  <2>3. CASE SyncFetch
    BY <2>3 DEF SyncFetch
  <2>4. CASE SyncLoad
    BY <2>4, SMTT(20) DEF SyncLoad
  <2>5. CASE SyncStore \/ SyncPending
    BY <2>5 DEF SyncStore, SyncPending
  <2>6. CASE Mine
    BY <2>6, SMTT(20) DEF Mine
  <2>7. CASE OtherSend
    BY <2>7 DEF OtherSend
  <2>8. ASSUME NEW n \in inflight, Miss(n) PROVE NonceInv'
    BY <2>8 DEF Miss
  <2>9. CASE UNCHANGED nonceVars
    BY <2>9 DEF nonceVars
  <2> QED BY <2>1, <2>2, <2>3, <2>4, <2>5, <2>6, <2>7, <2>8, <2>9 DEF NonceNext
<1> QED BY <1>1, <1>2, NonceTypeCorrect, PTL DEF NonceSpec

\* The counter never falls behind the chain, and Sync never rewrites it.
THEOREM AloneNeverBehind == NonceSpec => []NeverBehindChain
<1>1. NonceInv => NeverBehindChain
  BY DEF NonceInv, NeverBehindChain
<1> QED BY <1>1, NonceInvariant, PTL

\* A nonce taken outside a Sync's window is below the counter, and below what Sync
\* has loaded while its window is open: the store to come is above both.
Below == IF syncStep = "loaded" THEN loaded ELSE current
RaceInv ==
    /\ syncStep = "loaded" => loaded < onChainNonce /\ loaded <= current
    /\ \A m \in 1..Len(issued) : m \notin raced => issued[m] < Below
    /\ \A m, j \in 1..Len(issued) : m < j /\ issued[m] = issued[j] => m \in raced

\* RaceInv is inductive.
LEMMA RaceInvariant == NonceSpec => []RaceInv
<1> USE NonceAssumption
<1>1. NonceInit => RaceInv
  BY SMTT(20) DEF NonceInit, RaceInv, Below
<1>2. NonceTypeOK /\ NonceTypeOK' /\ RaceInv /\ [NonceNext]_nonceVars => RaceInv'
  <2> SUFFICES ASSUME NonceTypeOK, NonceTypeOK', RaceInv, [NonceNext]_nonceVars
               PROVE  RaceInv'
    OBVIOUS
  <2>types. /\ current \in Nat /\ loaded \in Nat /\ onChainNonce \in Nat
            /\ issued \in Seq(Nat) /\ Len(issued) \in Nat
            /\ \A m \in 1..Len(issued) : issued[m] \in Nat
    BY SMTT(20) DEF NonceTypeOK
  <2>1. CASE NextPending \/ Mine \/ OtherSend \/ (\E n \in inflight : Miss(n)) \/ UNCHANGED nonceVars
    <3>1. UNCHANGED <<issued, raced, current, syncStep, loaded, onChainNonce>>
      BY <2>1 DEF NextPending, Mine, OtherSend, Miss, nonceVars, builderVars, syncVars
    <3> QED BY <3>1 DEF RaceInv, Below
  <2>2. CASE NextCurrent
    <3>1. /\ issued' = Append(issued, current) /\ current' = current + 1
          /\ raced' = IF syncStep = "loaded" THEN raced \union {Len(issued) + 1} ELSE raced
          /\ syncStep' = syncStep /\ loaded' = loaded /\ onChainNonce' = onChainNonce
      BY <2>2 DEF NextCurrent, syncVars
    <3>2. /\ Len(issued') = Len(issued) + 1
          /\ issued'[Len(issued) + 1] = current
          /\ \A m \in 1..Len(issued) : issued'[m] = issued[m]
      BY <3>1, <2>types, SMTT(20)
    <3>3. \A m \in 1..Len(issued') : m \in 1..Len(issued) \/ m = Len(issued) + 1
      BY <3>2, <2>types, SMTT(20)
    <3>4. Below' \in Nat /\ Below \in Nat /\ Below <= Below' /\ Below <= current
      BY <3>1, <2>types, SMTT(20) DEF Below, RaceInv
    <3>5. syncStep # "loaded" => current < Below'
      BY <3>1, <2>types, SMTT(20) DEF Below
    <3>6. Len(issued) + 1 \notin raced' => syncStep # "loaded"
      BY <3>1
    <3>7. \A m \in 1..Len(issued') : m \notin raced' => issued'[m] < Below'
      <4> SUFFICES ASSUME NEW m \in 1..Len(issued'), m \notin raced'
                   PROVE  issued'[m] < Below'
        OBVIOUS
      <4>1. CASE m = Len(issued) + 1
        BY <4>1, <3>2, <3>5, <3>6
      <4>2. CASE m \in 1..Len(issued)
        <5>1. m \notin raced
          BY <3>1
        <5>2. issued[m] < Below /\ issued[m] \in Nat /\ issued'[m] = issued[m]
          BY <4>2, <5>1, <3>2, <2>types DEF RaceInv
        <5> QED BY <5>2, <3>4, SMTT(20)
      <4> QED BY <4>1, <4>2, <3>3
    <3>8. \A m, j \in 1..Len(issued') : m < j /\ issued'[m] = issued'[j] => m \in raced'
      <4> SUFFICES ASSUME NEW m \in 1..Len(issued'), NEW j \in 1..Len(issued'),
                          m < j, issued'[m] = issued'[j], m \notin raced'
                   PROVE  FALSE
        OBVIOUS
      <4>0. m \in 1..Len(issued) /\ m \notin raced
        BY <3>1, <3>2, <3>3, <2>types, SMTT(20)
      <4>1. issued[m] < Below /\ issued[m] \in Nat /\ issued'[m] = issued[m]
        BY <4>0, <3>2, <2>types DEF RaceInv
      <4>2. CASE j = Len(issued) + 1
        <5>1. issued'[j] = current
          BY <4>2, <3>2
        <5>2. issued[m] = current
          BY <4>1, <5>1
        <5> QED BY <4>1, <5>2, <3>4, <2>types, SMTT(20)
      <4>3. CASE j \in 1..Len(issued)
        BY <4>0, <4>3, <3>2 DEF RaceInv
      <4> QED BY <4>2, <4>3, <3>3
    <3> QED BY <3>1, <3>7, <3>8, <2>types, SMTT(20) DEF RaceInv
  <2>3. CASE SyncFetch \/ SyncLoad \/ SyncStore \/ SyncPending
    <3>1. issued' = issued /\ raced' = raced
      BY <2>3 DEF SyncFetch, SyncLoad, SyncStore, SyncPending, builderVars
    <3>2. Below' \in Nat /\ Below \in Nat /\ Below <= Below'
      BY <2>3, <2>types, SMTT(20) DEF SyncFetch, SyncLoad, SyncStore, SyncPending, Below, RaceInv
    <3>3. syncStep' = "loaded" => loaded' < onChainNonce' /\ loaded' <= current'
      BY <2>3, <2>types, SMTT(20) DEF SyncFetch, SyncLoad, SyncStore, SyncPending
    <3>4. \A m \in 1..Len(issued) : m \notin raced => issued[m] < Below'
      <4> SUFFICES ASSUME NEW m \in 1..Len(issued), m \notin raced PROVE issued[m] < Below'
        OBVIOUS
      <4>1. issued[m] < Below /\ issued[m] \in Nat
        BY <2>types DEF RaceInv
      <4> QED BY <4>1, <3>2, SMTT(20)
    <3> QED BY <3>1, <3>3, <3>4 DEF RaceInv
  <2> QED BY <2>1, <2>2, <2>3 DEF NonceNext
<1> QED BY <1>1, <1>2, NonceTypeCorrect, PTL DEF NonceSpec

\* A nonce is handed out twice only from inside a Sync's window, and never while
\* the executor has the key to itself after a good start.
THEOREM NoReuseOutsideSync == NonceSpec => []NoNonceReuse
<1>1. RaceInv /\ NonceInv => NoNonceReuse
  BY DEF RaceInv, NonceInv, NoNonceReuse
<1> QED BY <1>1, RaceInvariant, NonceInvariant, PTL

\* A completed sync round leaves the counter at or above what the node
\* answered, with other senders and a failed start too.
THEOREM SyncAlwaysCatchesUp == NonceSpec => SyncCatchesUp
<1> DEFINE Stored == syncStep = "stored" => current >= onChainNonce
<1> USE NonceAssumption
<1>1. NonceInit => Stored
  BY DEF NonceInit
<1>2. NonceTypeOK /\ Stored /\ [NonceNext]_nonceVars => Stored'
  BY SMTT(20) DEF NonceTypeOK, NonceNext, nonceVars, Alone, deployment, builderVars, syncVars, chainVars, NextPending, NextCurrent,
         SyncFetch, SyncLoad, SyncStore, SyncPending, Mine, OtherSend, Miss
<1>3. NonceTypeOK /\ Stored /\ [NonceNext]_nonceVars =>
        [syncStep # "idle" /\ syncStep' = "idle" => current' >= onChainNonce]_nonceVars
  BY SMTT(20) DEF NonceTypeOK, NonceNext, nonceVars, Alone, deployment, builderVars, syncVars, chainVars, NextPending, NextCurrent,
         SyncFetch, SyncLoad, SyncStore, SyncPending, Mine, OtherSend, Miss
<1> QED BY <1>1, <1>2, <1>3, NonceTypeCorrect, PTL DEF NonceSpec, SyncCatchesUp

-----------------------------------------------------------------------------
(* The contract.                                                           *)

\* What the pool of a step has taken and may still take is within the plan, and
\* it may take in one way only; outside a call it may take nothing.
Budget ==
    IF phase = "called"
    THEN \/ /\ step.protocol = UNISWAP_V3 /\ allowance = 0
            /\ pendingV3 >= 0 /\ spent + pendingV3 <= step.amountIn
         \/ /\ step.protocol \in Pull /\ pendingV3 = -1
            /\ spent + allowance <= step.amountIn
         \/ /\ step.protocol \in Push /\ pendingV3 = -1 /\ allowance = 0
            /\ spent <= step.amountIn
    ELSE allowance = 0 /\ pendingV3 = -1

\* The request under way passed the tests of executeArb, under the configuration
\* that still stands, and the snapshot differs from the balances before the
\* transaction in the borrowed token only.
UnderWay ==
    phase # "idle" =>
        /\ tx.tipBps <= 10000 /\ tx.minProfitOut >= minProfitThreshold
        /\ \A t \in Tokens \ {tx.token} : preBalances[t] = saved[t]

\* The inductive invariant.
ArbInv == TypeOK /\ Budget /\ UnderWay

-----------------------------------------------------------------------------
\* The types of a request and of its steps.
LEMMA RequestType ==
    ASSUME NEW r \in Requests
    PROVE  /\ r.token \in Tokens /\ r.amount \in Nat /\ r.minProfitOut \in Nat
           /\ r.tipBps \in Nat /\ r.steps \in Seq(Steps) /\ Len(r.steps) \in Nat
           /\ \A k \in 1..Len(r.steps) :
                /\ r.steps[k].protocol \in Protocols
                /\ r.steps[k].tokenIn \in Tokens /\ r.steps[k].tokenOut \in Tokens
                /\ r.steps[k].amountIn \in Nat /\ r.steps[k].minAmountOut \in Nat
<1>1. r \in [steps : Seq(Steps), token : Tokens, amount : Nat, minProfitOut : Nat, tipBps : Nat]
  BY ArbAssumption
<1>2. r.steps \in Seq(Steps) /\ Len(r.steps) \in Nat
  BY <1>1, SMTT(20)
<1>3. \A k \in 1..Len(r.steps) : r.steps[k] \in Steps
  BY <1>2, SMTT(20)
<1> QED BY <1>1, <1>2, <1>3 DEF Steps

\* The step under way, inside a call.
LEMMA StepType ==
    ASSUME TypeOK, i <= Len(tx.steps)
    PROVE  /\ step.protocol \in Protocols /\ step.tokenIn \in Tokens
           /\ step.tokenOut \in Tokens /\ step.amountIn \in Nat
           /\ step.minAmountOut \in Nat
<1>1. tx \in Requests /\ i \in 1..(Len(tx.steps) + 1)
  BY DEF TypeOK
<1>2. Len(tx.steps) \in Nat
  BY <1>1, RequestType
<1>3. i \in 1..Len(tx.steps)
  BY <1>1, <1>2, SMTT(20)
<1> QED BY <1>1, <1>3, RequestType DEF step

\* A tip of at most 10000 basis points is at most the profit.
LEMMA TipWithinProfit ==
    ASSUME NEW x \in Nat, NEW bps \in Nat, bps <= 10000
    PROVE  (x * bps) \div 10000 \in 0..x
<1>1. x * bps \in Nat /\ x * bps <= x * 10000
  BY SMTT(20)
<1>2. ASSUME NEW y \in Nat, y <= x * 10000 PROVE y \div 10000 \in 0..x
  BY <1>2, SMTT(20)
<1> QED BY <1>1, <1>2, SMTT(20)

\* The record of an arb that has paid nothing.
LEMMA NothingYetType == nothingYet \in [done : BOOLEAN, owner : Nat, tip : Nat]
BY DEF nothingYet

\* A deployed contract satisfies the invariant.
LEMMA ArbInitInv == Init => ArbInv
<1> SUFFICES ASSUME Init PROVE ArbInv
  OBVIOUS
<1>1. Len(tx.steps) \in Nat
  BY RequestType DEF Init
<1>2. TypeOK
  <2>1. paidOut \in [done : BOOLEAN, owner : Nat, tip : Nat]
    BY NothingYetType DEF Init
  <2>2. paused \in BOOLEAN
    BY DEF Init
  <2>3. i = 1
    BY DEF Init
  <2>4. i \in 1..(Len(tx.steps) + 1)
    BY <1>1, <2>3, SMTT(20)
  <2> QED BY <2>1, <2>2, <2>4 DEF Init, TypeOK
<1>3. Budget /\ UnderWay
  BY SMTT(20) DEF Init, Budget, UnderWay
<1> QED BY <1>2, <1>3 DEF ArbInv

-----------------------------------------------------------------------------
\* Transactions between arbs: nothing is under way before or after.
LEMMA BetweenArbs ==
    ASSUME ArbInv, phase = "idle", UNCHANGED <<phase, i, loan, swap, paidOut>>,
           bal' \in [Tokens -> Nat], paused' \in BOOLEAN,
           protocolEnabled' \subseteq Protocols, minProfitThreshold' \in Floors
    PROVE  ArbInv'
<1>1. TypeOK'
  BY DEF ArbInv, TypeOK, loan, swap
<1>2. Budget' /\ UnderWay'
  BY SMTT(20) DEF ArbInv, Budget, UnderWay, loan, swap
<1> QED BY <1>1, <1>2 DEF ArbInv

\* The steps inside a call: only balances and the pool's budget change.
LEMMA InsideCall ==
    ASSUME ArbInv, UNCHANGED <<config, phase, i, loan, outBefore, paidOut>>,
           bal' \in [Tokens -> Nat], spent' \in Nat, allowance' \in Nat,
           pendingV3' \in Nat \union {-1}, Budget'
    PROVE  ArbInv'
<1>1. TypeOK'
  BY DEF ArbInv, TypeOK, loan, config
<1>2. UnderWay'
  BY SMTT(20) DEF ArbInv, UnderWay, loan, config
<1> QED BY <1>1, <1>2 DEF ArbInv

\* executeArb accepts only a request within the limits and starts from a clean
\* callback state.
LEMMA ExecuteInv ==
    ASSUME ArbInv, NEW r \in Requests, NEW premium \in Premiums, executeArb(r, premium)
    PROVE  ArbInv'
<1>1. r.token \in Tokens /\ r.amount \in Nat /\ Len(r.steps) \in Nat /\ premium \in Nat
  BY RequestType, ArbAssumption
<1>2. bal' \in [Tokens -> Nat] /\ \A t \in Tokens \ {r.token} : bal'[t] = bal[t]
  BY <1>1, SMTT(20) DEF executeArb, ArbInv, TypeOK
<1>3. TypeOK'
  <2>1. paidOut' \in [done : BOOLEAN, owner : Nat, tip : Nat]
    BY NothingYetType DEF executeArb
  <2>2. tx' = r /\ i' = 1 /\ debt' = r.amount + premium /\ phase' = "swap"
        /\ saved' = bal /\ preBalances' = bal'
    BY DEF executeArb
  <2>3. UNCHANGED <<config, swap>>
    BY DEF executeArb
  <2>4. debt' \in Nat /\ tx' \in Requests /\ i' \in 1..(Len(tx'.steps) + 1)
    BY <1>1, <2>2, SMTT(20)
  <2> QED BY <1>2, <2>1, <2>2, <2>3, <2>4 DEF ArbInv, TypeOK, config, swap
<1>4. Budget'
  BY DEF executeArb, ArbInv, Budget, swap
<1>5. UnderWay'
  BY <1>2, SMTT(20) DEF executeArb, accepted, floorMet, UnderWay, config
<1> QED BY <1>3, <1>4, <1>5 DEF ArbInv

\* CallPool gives the pool no more than the step plans.
LEMMA CallPoolInv == ASSUME ArbInv, CallPool PROVE ArbInv'
<1> DEFINE live == _liveAmountIn(step)
<1>0. TypeOK /\ i <= Len(tx.steps)
  BY DEF ArbInv, CallPool
<1>1. /\ step.protocol \in Protocols /\ step.tokenIn \in Tokens
      /\ step.tokenOut \in Tokens /\ step.amountIn \in Nat
  BY <1>0, StepType
<1>2. bal \in [Tokens -> Nat]
  BY <1>0 DEF TypeOK
<1>3. live \in Nat /\ live <= step.amountIn /\ live <= bal[step.tokenIn]
  BY <1>1, <1>2, SMTT(20) DEF _liveAmountIn
<1>4. step' = step
  BY DEF CallPool, step, loan
<1> HIDE DEF live
<1>5. /\ bal' = IF step.protocol \in Push THEN [bal EXCEPT ![step.tokenIn] = @ - live] ELSE bal
      /\ spent' = IF step.protocol \in Push THEN live ELSE 0
      /\ pendingV3' = IF step.protocol = UNISWAP_V3 THEN live ELSE -1
      /\ allowance' = IF step.protocol \in Pull THEN live ELSE 0
      /\ outBefore' = bal[step.tokenOut]
      /\ phase' = "called" /\ UNCHANGED <<config, i, loan, paidOut>>
  BY DEF CallPool, live
<1>6. bal' \in [Tokens -> Nat]
  BY <1>1, <1>2, <1>3, <1>5, SMTT(20)
<1>7. /\ spent' \in Nat /\ pendingV3' \in Nat \union {-1} /\ allowance' \in Nat
      /\ outBefore' \in Nat
  BY <1>1, <1>2, <1>3, <1>5
<1>8. TypeOK'
  BY <1>0, <1>5, <1>6, <1>7 DEF TypeOK, config, loan
<1>9. Budget'
  BY <1>1, <1>3, <1>4, <1>5, SMTT(20) DEF Budget, Protocols, Push, Pull, UNISWAP_V3
<1>10. UnderWay'
  BY <1>5, SMTT(20) DEF ArbInv, UnderWay, CallPool, config, loan
<1> QED BY <1>8, <1>9, <1>10 DEF ArbInv

\* Taking part of the balance.
LEMMA TakeFacts ==
    ASSUME TypeOK, phase = "called", NEW n \in Nat, Take(n)
    PROVE  bal' \in [Tokens -> Nat] /\ spent' = spent + n /\ spent' \in Nat
<1>1. step.tokenIn \in Tokens
  BY StepType DEF TypeOK
<1>2. bal \in [Tokens -> Nat] /\ spent \in Nat
  BY DEF TypeOK
<1> QED BY <1>1, <1>2, SMTT(20) DEF Take

\* A callback moves from what may be taken to what is taken, once.
LEMMA CallbackInv ==
    ASSUME ArbInv, NEW owed \in Nat, uniswapV3SwapCallback(owed)
    PROVE  ArbInv'
<1> DEFINE n == IF owed > pendingV3 THEN pendingV3 ELSE owed
<1>1. TypeOK /\ phase = "called" /\ pendingV3 >= 0 /\ pendingV3 \in Nat /\ Take(n)
  BY SMTT(20) DEF uniswapV3SwapCallback, ArbInv, TypeOK
<1>2. n \in Nat /\ n <= pendingV3
  BY <1>1, SMTT(20)
<1> HIDE DEF n
<1>3. bal' \in [Tokens -> Nat] /\ spent' = spent + n /\ spent' \in Nat
  BY <1>1, <1>2, TakeFacts
<1>4. step' = step /\ pendingV3' = 0 /\ UNCHANGED <<config, phase, i, loan, outBefore, allowance, paidOut>>
  BY DEF uniswapV3SwapCallback, step, loan
<1>5. step.amountIn \in Nat /\ spent \in Nat /\ allowance \in Nat
  BY <1>1, StepType DEF TypeOK
<1>6. Budget'
  BY <1>1, <1>2, <1>3, <1>4, <1>5, SMTT(20) DEF ArbInv, Budget
<1> QED BY <1>3, <1>4, <1>5, <1>6, InsideCall

\* A pull uses up the approval.
LEMMA TransferFromInv ==
    ASSUME ArbInv, NEW n \in Nat, TransferFrom(n)
    PROVE  ArbInv'
<1>1. TypeOK /\ phase = "called" /\ n <= allowance /\ Take(n) /\ allowance' = allowance - n
  BY DEF TransferFrom, ArbInv
<1>2. bal' \in [Tokens -> Nat] /\ spent' = spent + n /\ spent' \in Nat
  BY <1>1, TakeFacts
<1>3. step' = step /\ UNCHANGED <<config, phase, i, loan, outBefore, pendingV3, paidOut>>
  BY DEF TransferFrom, step, loan
<1>4. /\ step.amountIn \in Nat /\ spent \in Nat /\ allowance \in Nat
      /\ pendingV3 \in Nat \union {-1}
  BY <1>1, StepType DEF TypeOK
<1>5. allowance' \in Nat
  BY <1>1, <1>4, SMTT(20)
<1>6. Budget'
  BY <1>1, <1>2, <1>3, <1>4, SMTT(20) DEF ArbInv, Budget
<1> QED BY <1>2, <1>3, <1>4, <1>5, <1>6, InsideCall

\* Tokens received change no budget.
LEMMA ReceiveInv ==
    ASSUME ArbInv, NEW t \in Tokens, NEW n \in Nat, Receive(t, n)
    PROVE  ArbInv'
<1>1. bal' \in [Tokens -> Nat]
  BY SMTT(20) DEF Receive, ArbInv, TypeOK
<1>2. UNCHANGED <<config, phase, i, loan, swap, paidOut>>
  BY DEF Receive
<1>3. Budget'
  BY <1>2 DEF ArbInv, Budget, swap, step, loan
<1>4. spent' \in Nat /\ allowance' \in Nat /\ pendingV3' \in Nat \union {-1}
  BY <1>2 DEF ArbInv, TypeOK, swap
<1> QED BY <1>1, <1>2, <1>3, <1>4, InsideCall DEF swap

\* The return closes the callback and the approval.
LEMMA PoolReturnsInv == ASSUME ArbInv, PoolReturns PROVE ArbInv'
<1>1. tx \in Requests /\ i \in 1..(Len(tx.steps) + 1) /\ i <= Len(tx.steps)
  BY DEF ArbInv, TypeOK, PoolReturns
<1>2. Len(tx.steps) \in Nat
  BY <1>1, RequestType
<1>3. i + 1 \in 1..(Len(tx.steps) + 1)
  BY <1>1, <1>2, SMTT(20)
<1>4. TypeOK'
  BY <1>3 DEF ArbInv, TypeOK, PoolReturns, slotsAfterSwap, config, loan
<1>5. Budget' /\ UnderWay'
  BY SMTT(20) DEF ArbInv, Budget, UnderWay, PoolReturns, slotsAfterSwap, config, loan
<1> QED BY <1>4, <1>5 DEF ArbInv

\* The end of a transaction, completed or reverted.
LEMMA EndsInv ==
    ASSUME ArbInv, Ends, allowance' = 0, pendingV3' = -1, bal' \in [Tokens -> Nat],
           paidOut' \in [done : BOOLEAN, owner : Nat, tip : Nat]
    PROVE  ArbInv'
<1>1. Len(tx.steps) \in Nat
  BY RequestType DEF ArbInv, TypeOK
<1>2. TypeOK'
  BY <1>1, SMTT(20) DEF ArbInv, TypeOK, Ends, config
<1>3. Budget' /\ UnderWay'
  BY SMTT(20) DEF Ends, Budget, UnderWay
<1> QED BY <1>2, <1>3 DEF ArbInv

\* What Settle pays out: the whole profit, which meets the contract's floor.
LEMMA SettleFacts ==
    ASSUME ArbInv, Settle
    PROVE  /\ paidOut'.owner \in Nat /\ paidOut'.tip \in Nat
           /\ paidOut' \in [done : BOOLEAN, owner : Nat, tip : Nat]
           /\ paidOut'.owner + paidOut'.tip >= minProfitThreshold
<1> DEFINE tip == (profit * tx.tipBps) \div 10000
<1>1. tx \in Requests /\ debt \in Nat /\ bal \in [Tokens -> Nat] /\ minProfitThreshold \in Nat
  BY ArbAssumption DEF ArbInv, TypeOK
<1>2. tx.token \in Tokens /\ tx.tipBps \in Nat /\ tx.minProfitOut \in Nat
  BY <1>1, RequestType
<1>3. profit \in Nat /\ profit >= tx.minProfitOut
  <2>1. profit \in Int
    BY <1>1, <1>2, SMTT(20) DEF profit
  <2> QED BY <2>1, SMTT(20) DEF Settle
<1>4. tx.tipBps <= 10000 /\ tx.minProfitOut >= minProfitThreshold
  BY SMTT(20) DEF ArbInv, UnderWay, Settle
<1>5. tip \in 0..profit
  BY <1>2, <1>3, <1>4, TipWithinProfit, SMTT(20)
<1>6. paidOut' = [done |-> TRUE, owner |-> profit - tip, tip |-> tip]
  BY SMTT(20) DEF Settle
<1> HIDE DEF tip
<1>7. paidOut'.owner = profit - tip /\ paidOut'.tip = tip
  BY <1>6
<1>8. profit - tip \in Nat /\ tip \in Nat /\ (profit - tip) + tip = profit
  BY <1>3, <1>5, SMTT(20)
<1>9. paidOut' \in [done : BOOLEAN, owner : Nat, tip : Nat]
  BY <1>6, <1>8
<1> QED BY <1>1, <1>2, <1>3, <1>4, <1>7, <1>8, <1>9, SMTT(20)

\* Every step keeps the invariant.
LEMMA ArbStepInv == ArbInv /\ [Next]_arbVars => ArbInv'
<1> SUFFICES ASSUME ArbInv, [Next]_arbVars PROVE ArbInv'
  OBVIOUS
<1>0. Amounts \subseteq Nat
  BY ArbAssumption, SMTT(20) DEF Amounts
<1>1. CASE \E newPaused \in BOOLEAN : setPaused(newPaused)
  BY <1>1, BetweenArbs DEF setPaused, ArbInv, TypeOK
<1>2. CASE \E p \in Switched, enabled \in BOOLEAN : setDexEnabled(p, enabled)
  BY <1>2, BetweenArbs, ArbAssumption DEF setDexEnabled, ArbInv, TypeOK
<1>3. CASE \E t \in Floors : setMinProfitThreshold(t)
  BY <1>3, BetweenArbs DEF setMinProfitThreshold, ArbInv, TypeOK
<1>4. ASSUME NEW t \in Tokens, NEW n \in Amounts, rescue(t, n) PROVE ArbInv'
  <2>1. n \in Nat /\ bal \in [Tokens -> Nat]
    BY <1>0 DEF ArbInv, TypeOK
  <2>2. bal' \in [Tokens -> Nat]
    BY <1>4, <2>1, SMTT(20) DEF rescue
  <2> QED BY <1>4, <2>2, BetweenArbs DEF rescue, ArbInv, TypeOK, config
<1>5. ASSUME NEW t \in Tokens, NEW n \in Amounts, Receive(t, n) PROVE ArbInv'
  BY <1>0, <1>5, ReceiveInv
<1>6. CASE \E r \in Requests, premium \in Premiums : executeArb(r, premium)
  BY <1>6, ExecuteInv
<1>7. CASE CallPool
  BY <1>7, CallPoolInv
<1>8. CASE PoolReturns
  BY <1>8, PoolReturnsInv
<1>9. CASE Settle
  <2>1. bal' \in [Tokens -> Nat]
    <3>1. bal \in [Tokens -> Nat]
      BY DEF ArbInv, TypeOK
    <3>2. bal' = [bal EXCEPT ![tx.token] = 0]
      BY <1>9, SMTT(20) DEF Settle
    <3> QED BY <3>1, <3>2
  <2>2. allowance' = 0 /\ pendingV3' = -1
    BY <1>9, SMTT(20) DEF Settle, ArbInv, Budget
  <2> QED BY <1>9, <2>1, <2>2, SettleFacts, EndsInv, SMTT(20) DEF Settle
<1>10. CASE Revert
  BY <1>10, EndsInv DEF Revert, ArbInv, TypeOK
<1>11. ASSUME NEW n \in Amounts, uniswapV3SwapCallback(n) PROVE ArbInv'
  BY <1>0, <1>11, CallbackInv
<1>12. ASSUME NEW n \in Amounts, TransferFrom(n) PROVE ArbInv'
  BY <1>0, <1>12, TransferFromInv
<1>13. CASE UNCHANGED arbVars
  <2>1. UNCHANGED <<config, bal, phase, i, loan, swap, paidOut>>
    BY <1>13 DEF arbVars
  <2>2. TypeOK'
    BY <2>1 DEF ArbInv, TypeOK, config, loan, swap
  <2>3. Budget' /\ UnderWay'
    BY <2>1, SMTT(20) DEF ArbInv, Budget, UnderWay, config, loan, swap, step
  <2> QED BY <2>2, <2>3 DEF ArbInv
<1> QED BY <1>1, <1>2, <1>3, <1>4, <1>5, <1>6, <1>7, <1>8, <1>9, <1>10, <1>11, <1>12, <1>13
        DEF Next

\* ArbInv holds in every reachable state.
LEMMA ArbInvariant == Spec => []ArbInv
BY ArbInitInv, ArbStepInv, PTL DEF Spec

-----------------------------------------------------------------------------
\* A pool takes at most what its step plans, by whatever sequence of callbacks
\* and pulls.
THEOREM SpendTheorem == Spec => []StepSpendsAtMost
<1>1. ArbInv => StepSpendsAtMost
  <2> SUFFICES ASSUME ArbInv, phase = "called" PROVE spent <= step.amountIn
    BY DEF StepSpendsAtMost
  <2>1. spent \in Nat /\ allowance \in Nat /\ pendingV3 \in Int /\ step.amountIn \in Nat
    BY StepType, SMTT(20) DEF ArbInv, TypeOK
  <2> QED BY <2>1, SMTT(20) DEF ArbInv, Budget
<1> QED BY ArbInvariant, <1>1, PTL

\* Callback and approval are open only inside the call that needs them.
THEOREM OpenTheorem == Spec => []OpenOnlyInCall
<1>1. ArbInv => OpenOnlyInCall
  BY SMTT(20) DEF ArbInv, TypeOK, Budget, OpenOnlyInCall
<1> QED BY ArbInvariant, <1>1, PTL

\* A completed arb pays at least the floor, keeps nothing of the borrowed token
\* and strands no intermediate one.
THEOREM SettlesTheorem == Spec => Settles
<1>1. ArbInv /\ [Next]_arbVars =>
        [~paidOut.done /\ paidOut'.done =>
           /\ paidOut'.owner + paidOut'.tip >= minProfitThreshold
           /\ bal'[tx.token] = 0
           /\ \A t \in Tracked \ {tx.token} : bal'[t] <= saved[t]]_arbVars
  <2> SUFFICES ASSUME ArbInv, Next, ~paidOut.done, paidOut'.done
               PROVE  /\ paidOut'.owner + paidOut'.tip >= minProfitThreshold
                      /\ bal'[tx.token] = 0
                      /\ \A t \in Tracked \ {tx.token} : bal'[t] <= saved[t]
    OBVIOUS
  <2>1. Settle
    <3>1. paidOut' # paidOut /\ paidOut' # nothingYet
      BY SMTT(20) DEF nothingYet
    <3> QED BY <3>1 DEF Next, setPaused, setDexEnabled, setMinProfitThreshold, rescue, Receive,
               executeArb, CallPool, PoolReturns, Revert, uniswapV3SwapCallback, TransferFrom
  <2>2. tx \in Requests /\ bal \in [Tokens -> Nat]
    BY DEF ArbInv, TypeOK
  <2>3. tx.token \in Tokens
    BY <2>2, RequestType
  <2>4. bal' = [bal EXCEPT ![tx.token] = 0]
    BY <2>1, SMTT(20) DEF Settle
  <2>5. ASSUME NEW t \in Tracked \ {tx.token} PROVE bal'[t] <= saved[t]
    <3>1. t \in Tokens
      <4>1. tx.steps \in Seq(Steps) /\ DOMAIN tx.steps = 1..Len(tx.steps)
        BY <2>2, RequestType, SMTT(20)
      <4> QED BY <2>2, <2>3, <4>1, RequestType DEF Tracked
    <3>2. phase = "swap" /\ nothingStranded
      BY <2>1, SMTT(20) DEF Settle
    <3>3. bal[t] <= preBalances[t]
      BY <3>2 DEF nothingStranded
    <3>4. UnderWay
      BY DEF ArbInv
    <3>5. preBalances[t] = saved[t]
      BY <3>1, <3>2, <3>4, SMTT(20) DEF UnderWay
    <3> QED BY <2>2, <2>4, <3>1, <3>3, <3>5
  <2> QED BY <2>1, <2>2, <2>3, <2>4, <2>5, SettleFacts
<1> QED BY ArbInvariant, <1>1, PTL DEF Spec, Settles

-----------------------------------------------------------------------------
\* The window of an announced update is fixed when it is announced, so a later
\* change of the duration cannot move it.
WindowFixed ==
    \A p \in Registry : pendingRouterUpdates[p].router # Zero =>
        /\ pendingRouterUpdates[p].executeAfter >= queuedAt[p] + Day
        /\ pendingRouterUpdates[p].expiresAt <= queuedAt[p] + 4 * Day

\* The inductive invariant: a nomination is the owner's, a window is fixed.
GovInv == GovTypeOK /\ NominationIsOwners /\ WindowFixed

\* The constructor establishes the invariant.
LEMMA GovInitInv == GovInit => GovInv
<1> SUFFICES ASSUME GovInit PROVE GovInv
  OBVIOUS
<1>1. GovTypeOK
  BY GovAssumption DEF GovInit, GovTypeOK, Durations, PendingRouterUpdate, noUpdate
<1>2. NominationIsOwners /\ WindowFixed
  BY DEF GovInit, NominationIsOwners, WindowFixed, noUpdate
<1> QED BY <1>1, <1>2 DEF GovInv

\* A step that leaves the registry alone leaves the windows alone.
LEMMA WindowsKept == WindowFixed /\ UNCHANGED govRouters => WindowFixed'
BY DEF WindowFixed, govRouters

\* Every transaction of the owner or an account keeps the type of the state.
LEMMA TypeStep == GovTypeOK /\ [GovNext]_govVars => GovTypeOK'
<1> SUFFICES ASSUME GovTypeOK, [GovNext]_govVars PROVE GovTypeOK'
  OBVIOUS
<1> USE GovAssumption DEF GovTypeOK, govOwnership, govRouters
<1>1. CASE Tick
  BY <1>1, SMTT(20) DEF Tick
<1>2. CASE \E c \in Accounts, a \in Accounts \union {Zero} : transferOwnership(c, a)
  BY <1>2 DEF transferOwnership
<1>3. CASE \E c \in Accounts : acceptOwnership(c)
  BY <1>3 DEF acceptOwnership, _transferOwnership, rolesAfter
<1>4. CASE \E c \in Accounts, r \in Roles, a \in Accounts : grantRole(c, r, a) \/ dropRole(c, r, a)
  BY <1>4 DEF grantRole, dropRole
<1>5. CASE \E c \in Accounts, d \in Durations : setRouterTimelockDuration(c, d)
  BY <1>5 DEF setRouterTimelockDuration
<1>6. ASSUME NEW c \in Accounts, NEW p \in Registry, NEW router \in Routers,
             queueRouterUpdate(c, p, router)
      PROVE  GovTypeOK'
  BY <1>6, SMTT(20) DEF queueRouterUpdate, PendingRouterUpdate, Durations
<1>7. ASSUME NEW c \in Accounts, NEW p \in Registry, executeRouterUpdate(c, p)
      PROVE  GovTypeOK'
  <2>1. pendingRouterUpdates[p].router \in Routers
    BY <1>7 DEF executeRouterUpdate, vacant, PendingRouterUpdate
  <2> QED BY <1>7, <2>1 DEF executeRouterUpdate, PendingRouterUpdate, noUpdate
<1>8. ASSUME NEW c \in Accounts, NEW p \in Registry, cancelRouterUpdate(c, p)
      PROVE  GovTypeOK'
  BY <1>8 DEF cancelRouterUpdate, PendingRouterUpdate, noUpdate
<1>9. CASE UNCHANGED govVars
  BY <1>9 DEF govVars
<1> QED BY <1>1, <1>2, <1>3, <1>4, <1>5, <1>6, <1>7, <1>8, <1>9 DEF GovNext

\* The hand-over consumes the nomination; no other step changes the owner.
LEMMA NominationStep ==
    GovTypeOK /\ NominationIsOwners /\ [GovNext]_govVars => NominationIsOwners'
<1> SUFFICES ASSUME GovTypeOK, NominationIsOwners, [GovNext]_govVars
             PROVE  NominationIsOwners'
  OBVIOUS
<1> USE DEF NominationIsOwners
<1>1. CASE \E c \in Accounts, a \in Accounts \union {Zero} : transferOwnership(c, a)
  BY <1>1 DEF transferOwnership
<1>2. CASE \E c \in Accounts : acceptOwnership(c)
  BY <1>2 DEF acceptOwnership, _transferOwnership
<1>3. CASE UNCHANGED <<owner, pendingOwner, nominatedBy>>
  BY <1>3
<1>4. ~(\E c \in Accounts, a \in Accounts \union {Zero} : transferOwnership(c, a))
      /\ ~(\E c \in Accounts : acceptOwnership(c))
      => UNCHANGED <<owner, pendingOwner, nominatedBy>>
  BY DEF GovNext, Tick, grantRole, dropRole, setRouterTimelockDuration, queueRouterUpdate,
         executeRouterUpdate, cancelRouterUpdate, govVars, govOwnership
<1> QED BY <1>1, <1>2, <1>3, <1>4

\* Only queueRouterUpdate opens a window, and it sets both ends.
LEMMA WindowStep ==
    GovTypeOK /\ WindowFixed /\ [GovNext]_govVars => WindowFixed'
<1> SUFFICES ASSUME GovTypeOK, WindowFixed, [GovNext]_govVars PROVE WindowFixed'
  OBVIOUS
<1>1. ASSUME NEW c \in Accounts, NEW p \in Registry, NEW router \in Routers,
             queueRouterUpdate(c, p, router)
      PROVE  WindowFixed'
  <2>1. now \in Nat /\ Day \in Nat /\ routerTimelockDuration \in Durations
    BY GovAssumption DEF GovTypeOK
  <2>2. now + routerTimelockDuration >= now + Day
        /\ now + routerTimelockDuration * 2 <= now + 4 * Day
    BY <2>1, SMTT(20) DEF Durations
  <2> QED BY <1>1, <2>2 DEF queueRouterUpdate, WindowFixed, GovTypeOK
<1>2. ASSUME NEW c \in Accounts, NEW p \in Registry,
             executeRouterUpdate(c, p) \/ cancelRouterUpdate(c, p)
      PROVE  WindowFixed'
  BY <1>2, SMTT(20) DEF executeRouterUpdate, cancelRouterUpdate, WindowFixed, GovTypeOK, noUpdate
<1>3. CASE UNCHANGED govRouters
  BY <1>3, WindowsKept
<1>4. (\E c \in Accounts, p \in Registry :
         \/ \E router \in Routers : queueRouterUpdate(c, p, router)
         \/ executeRouterUpdate(c, p) \/ cancelRouterUpdate(c, p))
      \/ UNCHANGED govRouters
  BY DEF GovNext, Tick, transferOwnership, acceptOwnership, grantRole, dropRole,
         setRouterTimelockDuration, govVars
<1> QED BY <1>1, <1>2, <1>3, <1>4

\* GovInv holds in every reachable state.
LEMMA GovInvariant == GovSpec => []GovInv
<1>1. GovInv /\ [GovNext]_govVars => GovInv'
  BY TypeStep, NominationStep, WindowStep DEF GovInv
<1> QED BY GovInitInv, <1>1, PTL DEF GovSpec

\* Nobody becomes owner by the word of a former owner, however often
\* transferOwnership and acceptOwnership alternate.
THEOREM NominationTheorem == GovSpec => []NominationIsOwners
<1>1. GovInv => NominationIsOwners
  BY DEF GovInv
<1> QED BY GovInvariant, <1>1, PTL

\* A hand-over follows the owner's nomination and moves the admin role with it.
THEOREM HandOverTheorem == GovSpec => OwnershipHandedOver
<1>1. GovInv /\ [GovNext]_govVars =>
        [owner' # owner =>
           /\ pendingOwner = owner' /\ nominatedBy = owner
           /\ owner \notin hasRole'["ADMIN"] /\ owner' \in hasRole'["ADMIN"]]_govVars
  <2> SUFFICES ASSUME GovInv, GovNext, owner' # owner
               PROVE  /\ pendingOwner = owner' /\ nominatedBy = owner
                      /\ owner \notin hasRole'["ADMIN"] /\ owner' \in hasRole'["ADMIN"]
    OBVIOUS
  <2>1. \E c \in Accounts : acceptOwnership(c)
    BY DEF GovNext, Tick, transferOwnership, grantRole, dropRole, setRouterTimelockDuration,
           queueRouterUpdate, executeRouterUpdate, cancelRouterUpdate, govOwnership
  <2>2. PICK c \in Accounts : acceptOwnership(c)
    BY <2>1
  <2>3. owner' = c /\ pendingOwner = c /\ hasRole' = rolesAfter(c)
    BY <2>2 DEF acceptOwnership, _transferOwnership
  <2>4. nominatedBy = owner
    BY <2>3, GovAssumption DEF GovInv, NominationIsOwners
  <2>5. hasRole'["ADMIN"] = (hasRole["ADMIN"] \ {owner}) \union {c}
    BY <2>3, GovAssumption DEF rolesAfter, GovInv, GovTypeOK
  <2> QED BY <2>3, <2>4, <2>5
<1> QED BY GovInvariant, <1>1, PTL DEF GovSpec, OwnershipHandedOver

\* A router in use changes only to the announced one, one to four days after the
\* announcement: executeRouterUpdate is the only writer, and its window was fixed
\* by queueRouterUpdate.
THEOREM TimelockTheorem == GovSpec => RouterTimelocked
<1>1. GovInv /\ [GovNext]_govVars =>
        [\A p \in Registry : protocolRouter'[p] # protocolRouter[p] =>
           /\ protocolRouter'[p] = pendingRouterUpdates[p].router
           /\ now - queuedAt[p] >= Day /\ now - queuedAt[p] <= 4 * Day]_govVars
  <2> SUFFICES ASSUME GovInv, GovNext, NEW p \in Registry, protocolRouter'[p] # protocolRouter[p]
               PROVE  /\ protocolRouter'[p] = pendingRouterUpdates[p].router
                      /\ now - queuedAt[p] >= Day /\ now - queuedAt[p] <= 4 * Day
    OBVIOUS
  <2>1. \E c \in Accounts, q \in Registry : executeRouterUpdate(c, q)
    BY DEF GovNext, Tick, transferOwnership, acceptOwnership, grantRole, dropRole,
           setRouterTimelockDuration, queueRouterUpdate, cancelRouterUpdate, govRouters
  <2>2. PICK c \in Accounts, q \in Registry : executeRouterUpdate(c, q)
    BY <2>1
  <2>3. p = q
    BY <2>2 DEF executeRouterUpdate, GovInv, GovTypeOK
  <2>4. protocolRouter'[p] = pendingRouterUpdates[p].router
    BY <2>2, <2>3 DEF executeRouterUpdate, GovInv, GovTypeOK
  <2>5. /\ pendingRouterUpdates[p].executeAfter >= queuedAt[p] + Day
        /\ pendingRouterUpdates[p].expiresAt <= queuedAt[p] + 4 * Day
    BY <2>2, <2>3 DEF executeRouterUpdate, vacant, GovInv, WindowFixed
  <2>6. /\ now >= pendingRouterUpdates[p].executeAfter
        /\ now <= pendingRouterUpdates[p].expiresAt
    BY <2>2, <2>3 DEF executeRouterUpdate, ripe
  <2>7. /\ now \in Nat /\ queuedAt[p] \in Nat /\ Day \in Nat
        /\ pendingRouterUpdates[p].executeAfter \in Nat
        /\ pendingRouterUpdates[p].expiresAt \in Nat
    BY GovAssumption DEF GovInv, GovTypeOK, PendingRouterUpdate
  <2>8. \A t, r, d, a, e \in Nat :
            a >= r + d /\ e <= r + 4 * d /\ t >= a /\ t <= e => t - r >= d /\ t - r <= 4 * d
    BY SMTT(20)
  <2> QED BY <2>4, <2>5, <2>6, <2>7, <2>8
<1> QED BY GovInvariant, <1>1, PTL DEF GovSpec, RouterTimelocked
=============================================================================
