------------------------------ MODULE SwapCalls ------------------------------
(***************************************************************************)
(* The calldata of a swap: what the pool adapters (crates/pools/src/       *)
(* swap_encode.rs), the profit scorer and the engine put into the steps of *)
(* executeArb, and what AetherExecutor.sol and the pools make of them.     *)
(* A cycle goes from W to T and back to W; calldata is the record of its   *)
(* arguments.                                                              *)
(***************************************************************************)
EXTENDS PoolMath

CONSTANTS
    Cycles,          \* two hops [addr, pool, t]: a pool and the side (1 or 2) of the token in
    Inputs,          \* amounts borrowed
    SlippageBps      \* slippage_bps of the engine

CallsAssumption ==
    /\ MathAssumption /\ Inputs \subseteq Nat \ {0} /\ SlippageBps \in 0..9999
    /\ \A c \in Cycles : \A k \in DOMAIN c : c[k].t \in {1, 2}

VARIABLES
    pools,           \* address -> pool, as the chain has it
    plan,            \* [builder, cycle, input, steps] of executeArb; steps empty before
    hop,             \* the step the contract is at
    held,            \* what the contract holds of W and T
    outcome,         \* "building", "running", "done", "reverted"
    moved            \* a pool traded with someone else since the plan was made

vars == <<pools, plan, hop, held, outcome, moved>>

tokens(k) == IF k = 1 THEN <<"W", "T">> ELSE <<"T", "W">>

\* ProtocolType, cast to u8.
protocol_u8(kind) ==
    CASE kind = "v2" -> 1 [] kind = "v3" -> 2 [] kind = "sushi" -> 3 [] kind = "curve" -> 4
      [] kind = "balancer" -> 5 [] kind = "bancor" -> 6 [] kind = "balancer_v3" -> 7

Nobody == "zero address"
Executor == "executor"
NoCall == [call |-> "empty"]

-----------------------------------------------------------------------------
(* Calldata.                                                               *)

amounts_out(t, out) == IF t = 1 THEN <<0, out>> ELSE <<out, 0>>

build_univ2_swap_calldata(out, to) == [call |-> "pair.swap", out |-> out, to |-> to]
build_univ3_swap_calldata(t, dx, to) == [call |-> "v3.swap", zeroForOne |-> t = 1, amount |-> dx, to |-> to]

encode_univ2_swap(t, min_out, to) == build_univ2_swap_calldata(amounts_out(t, min_out), to)
encode_univ3_swap(t, dx, to) == build_univ3_swap_calldata(t, dx, to)
encode_curve_exchange(t, dx, min_out) == [call |-> "exchange", i |-> t, dx |-> dx, min |-> min_out]

\* The pool's address is put into the low bytes of the id.
encode_balancer_vault_swap(t, dx, min_out) ==
    [call |-> "vault.swap", id |-> "low", assetIn |-> t, amount |-> dx, limit |-> min_out,
     sender |-> Nobody, to |-> Nobody]
encode_bancor_trade(t, dx, min_out, to) ==
    [call |-> "trade", source |-> t, amount |-> dx, min |-> min_out, to |-> to]

\* The two Balancer versions of encode_swap: one is written like the other.
balancer_encode_swap(t, dx, min_out) == encode_balancer_vault_swap(t, dx, min_out)
balancer_v3_encode_swap(t, dx, min_out) == encode_balancer_vault_swap(t, dx, min_out)

\* encode_swap of the Pool trait.
encode_swap(pool, t, dx, min_out) ==
    CASE pool.kind \in {"v2", "sushi"} -> encode_univ2_swap(t, min_out, Nobody)
      [] pool.kind = "v3" -> encode_univ3_swap(t, dx, Nobody)
      [] pool.kind = "curve" -> encode_curve_exchange(t, dx, min_out)
      [] pool.kind = "balancer" -> balancer_encode_swap(t, dx, min_out)
      [] pool.kind = "balancer_v3" -> balancer_v3_encode_swap(t, dx, min_out)
      [] pool.kind = "bancor" -> encode_bancor_trade(t, dx, min_out, Nobody)

SwapStep(pool, dx, min_out, data) ==
    [protocol |-> protocol_u8(pool.kind), amountIn |-> dx, minAmountOut |-> min_out, data |-> data]

-----------------------------------------------------------------------------
(* The builders: a pair <<step, amount the next hop starts from>>.         *)

NoStep == <<[protocol |-> 0], 0>>

\* A pool of the adapters, quoted by itself.
adapter_step(pool, t, dx) ==
    LET out == get_amount_out(pool, t, dx)
    IN  IF out \in {None, 0} THEN NoStep
        ELSE <<SwapStep(pool, dx, out, encode_swap(pool, t, dx, out)), out>>

\* The reserves of a pool's graph edges: its own, or the virtual ones of a V3 pool.
state_to_graph_reserves(pool) ==
    IF pool.kind = "v3" THEN virtual_reserves(pool.sqrt, pool.liquidity) ELSE pool.bal

\* The rate of the graph edge of a V3 pool: no price impact.
rate_out(pool, t, dx) ==
    LET r == state_to_graph_reserves(pool)
    IN  (dx * r[other(t)] * (10000 - pool.fee_bps)) \div (r[t] * 10000)

\* The scorer, build_steps_from_cycle_sync: exact for V2, by rate for V3.
build_steps_from_cycle_sync(pool, t, dx) ==
    LET out == IF pool.kind = "v3" THEN rate_out(pool, t, dx) ELSE v2_amount_out(pool, t, dx)
        data == IF pool.kind = "v3" THEN build_univ3_swap_calldata(t, dx, Executor)
                ELSE build_univ2_swap_calldata(amounts_out(t, out), Executor)
    IN  IF pool.kind \notin {"v2", "sushi", "v3"} \/ empty(pool) \/ out = 0 THEN NoStep
        ELSE <<SwapStep(pool, dx, 0, data), out>>

\* On the wire of the mempool path the two Balancer versions are one protocol (pipeline.rs keeps
\* them apart).
protocol_to_proto(n) == IF n = protocol_u8("balancer_v3") THEN protocol_u8("balancer") ELSE n

swap_step_to_proto(step) == [step EXCEPT !.protocol = protocol_to_proto(@)]

\* The engine's steps: sized by the reserves of the edge, without calldata.
engine_step(pool, t, dx) ==
    LET r == IF pool.kind = "v3" THEN virtual_reserves(pool.sqrt, pool.liquidity) ELSE pool.bal
        net == after_fee(pool, dx)
        out == (net * r[other(t)]) \div (r[t] + net)
    IN  IF pool.kind \notin {"v2", "sushi", "v3"} \/ empty(pool) THEN NoStep
        ELSE <<swap_step_to_proto(SwapStep(pool, dx, (out * (10000 - SlippageBps)) \div 10000, NoCall)), out>>

built(builder, pool, t, dx) ==
    CASE builder = "adapter" -> adapter_step(pool, t, dx)
      [] builder = "scorer" -> build_steps_from_cycle_sync(pool, t, dx)
      [] builder = "engine" -> engine_step(pool, t, dx)

\* The cycle's plan: no plan when a hop cannot be built.
build_execute_arb_calldata(builder, cycle, input) ==
    LET one == built(builder, cycle[1].pool, cycle[1].t, input)
        two == built(builder, cycle[2].pool, cycle[2].t, one[2])
    IN  IF one = NoStep \/ one[2] = 0 THEN <<>>
        ELSE IF two = NoStep THEN <<>> ELSE <<one[1], two[1]>>

\* Mutant: a pool met twice is quoted as it was before the first hop.
verify_cycle_u256Stale(cycle, input) ==
    LET mid == v2_amount_out(cycle[1].pool, cycle[1].t, input)
    IN  IF \E k \in {1, 2} : cycle[k].pool.kind = "v3" \/ empty(cycle[k].pool) THEN None
        ELSE IF mid = 0 THEN None ELSE v2_amount_out(cycle[2].pool, cycle[2].t, mid)

\* The scorer's exact walk of a V2 cycle: the second hop sees the reserves the
\* first one left.
verify_cycle_u256(cycle, input) ==
    LET a == cycle[1]
        b == cycle[2]
        mid == v2_amount_out(a.pool, a.t, input)
        second == IF b.addr = a.addr THEN settled(a.pool, a.t, input, mid) ELSE b.pool
        gross == v2_amount_out(second, b.t, mid)
    IN  IF a.pool.kind = "v3" \/ b.pool.kind = "v3" \/ empty(a.pool) \/ empty(b.pool) THEN None
        ELSE IF mid = 0 THEN None ELSE IF gross = 0 THEN None ELSE gross

Init ==
    /\ \E c \in Cycles, b \in {"adapter", "scorer", "engine", "walker"}, input \in Inputs :
         /\ pools = [a \in {c[1].addr, c[2].addr} |-> IF a = c[1].addr THEN c[1].pool ELSE c[2].pool]
         /\ plan = [builder |-> b, cycle |-> c, input |-> input, steps |-> <<>>]
    /\ hop = 1 /\ held = [W |-> 0, T |-> 0] /\ outcome = "building" /\ moved = FALSE

\* executeArb: the steps' protocols are checked, then Aave lends.
executeArb ==
    /\ outcome = "building" /\ plan.builder # "walker"
    /\ \E steps \in {build_execute_arb_calldata(plan.builder, plan.cycle, plan.input)} :
         /\ steps # <<>>
         /\ plan' = [plan EXCEPT !.steps = steps]
         /\ outcome' = IF \A k \in DOMAIN steps : steps[k].protocol \in 1..6 THEN "running" ELSE "reverted"
    /\ held' = [held EXCEPT !.W = plan.input]
    /\ UNCHANGED <<pools, hop, moved>>

\* Someone else trades with a pool of the cycle.
Trade ==
    /\ outcome = "running" /\ plan.builder # "walker" /\ ~moved /\ moved' = TRUE
    /\ \E a \in DOMAIN pools, t \in {1, 2} :
         \E dy \in {get_amount_out(pools[a], t, plan.input)} :
            /\ pools[a].kind \in {"v2", "sushi"} /\ dy \notin {None, 0}
            /\ pools' = [pools EXCEPT ![a] = settled(@, t, plan.input, dy)]
    /\ UNCHANGED <<plan, hop, held, outcome>>

-----------------------------------------------------------------------------
(* What a pool does with the call: whether it succeeds, what it takes, what *)
(* it pays and to whom.  `live` is what the contract can pay in.            *)

Failed == [ok |-> FALSE]
Paid(took, pays, to) == [ok |-> TRUE, took |-> took, pays |-> pays, to |-> to]

\* The pair was sent `live` ahead of the call; it pays what is asked on either
\* side while the product of its reserves does not fall.
pair_call(pool, t, live, data) ==
    IF data.out[other(t)] \in 1..v2_amount_out(pool, t, live) /\ data.out[t] = 0
    THEN Paid(live, data.out[other(t)], data.to) ELSE Failed

\* The pool takes exactly the amount specified through the callback.
v3_call(pool, t, live, data) ==
    IF data.zeroForOne = (t = 1) /\ data.amount <= live
    THEN Paid(data.amount, compute_swap_within_tick(pool, t, data.amount), data.to) ELSE Failed

\* The contract patches dx to what it can pay.
curve_call(pool, t, live, data) ==
    LET dy == curve_amount_out(pool, t, live)
    IN  IF data.i = t /\ dy # None /\ dy >= data.min THEN Paid(live, dy, Executor) ELSE Failed

\* The vault looks the pool up by its id, which begins with the address, and
\* requires the sender to be the caller.
vault_call(pool, t, live, data) ==
    IF data.id = "high" /\ data.sender = Executor THEN Paid(live, balancer_amount_out(pool, t, live), data.to)
    ELSE Failed

network_call(pool, t, live, data) ==
    LET dy == bancor_amount_out(pool, t, data.amount)
    IN  IF data.amount <= live /\ dy >= data.min THEN Paid(data.amount, dy, data.to) ELSE Failed

pool_call(pool, t, live, data) ==
    CASE data.call = "empty" -> Failed
      [] data.call = "pair.swap" -> pair_call(pool, t, live, data)
      [] data.call = "v3.swap" -> v3_call(pool, t, live, data)
      [] data.call = "exchange" -> curve_call(pool, t, live, data)
      [] data.call = "vault.swap" -> vault_call(pool, t, live, data)
      [] data.call = "trade" -> network_call(pool, t, live, data)

liveAmountIn(step, token) == IF held[token] >= step.amountIn THEN step.amountIn ELSE held[token]

\* _executeSwap of the current step; the last one ends the arb.
executeSwap ==
    /\ outcome = "running" /\ plan.builder # "walker"
    /\ \E step \in {plan.steps[hop]}, from \in {tokens(hop)[1]}, to \in {tokens(hop)[2]}, h \in {plan.cycle[hop]} :
       \E live \in {liveAmountIn(step, from)} :
       \E r \in {IF live = 0 THEN Failed ELSE pool_call(pools[h.addr], h.t, live, step.data)} :
         LET received == IF r.ok /\ r.to = Executor THEN r.pays ELSE 0
         IN  IF ~r.ok \/ received < step.minAmountOut
             THEN outcome' = "reverted" /\ UNCHANGED <<pools, held, hop>>
             ELSE /\ pools' = IF pools[h.addr].kind = "v3" THEN pools
                              ELSE [pools EXCEPT ![h.addr] = settled(@, h.t, r.took, r.pays)]
                  /\ held' = [held EXCEPT ![from] = @ - r.took, ![to] = @ + received]
                  /\ hop' = hop + 1
                  /\ outcome' = IF hop = 2 THEN "done" ELSE "running"
    /\ UNCHANGED <<plan, moved>>

\* What the pools pay for the cycle when each hop is sized by what the one before
\* it paid: the trade the scorer's walk stands for.
BestSwap ==
    /\ plan.builder = "walker" /\ outcome \in {"building", "running"}
    /\ \E h \in {plan.cycle[hop]} :
       \E live \in {IF hop = 1 THEN plan.input ELSE held.T} :
         /\ pools[h.addr].kind \in {"v2", "sushi"}
         /\ \E dy \in {v2_amount_out(pools[h.addr], h.t, live)} :
              /\ dy > 0
              /\ pools' = [pools EXCEPT ![h.addr] = settled(@, h.t, live, dy)]
              /\ held' = IF hop = 1 THEN [held EXCEPT !.T = dy] ELSE [W |-> dy, T |-> 0]
    /\ hop' = hop + 1 /\ outcome' = IF hop = 2 THEN "done" ELSE "running"
    /\ UNCHANGED <<plan, moved>>

Next == executeArb \/ Trade \/ executeSwap \/ BestSwap
Spec == Init /\ [][Next]_vars

-----------------------------------------------------------------------------
\* A plan the scorer builds from the current pools executes: unless somebody else traded
\* in between, a V3 hop whose output is only estimated feeds another hop, or the cycle
\* meets one pool twice, no step reverts, and the contract ends with what the pools' own
\* arithmetic gives.  And the exact walk the scorer prefers for V2 cycles, a pool met
\* twice included, is what trading hop by hop really pays.
ExactPlansExecute ==
    LET a == plan.cycle[1]
        b == plan.cycle[2]
        mid == v2_amount_out(a.pool, a.t, plan.input)
    IN  /\ plan.builder = "scorer" /\ ~moved /\ a.pool.kind # "v3" /\ a.addr # b.addr =>
             /\ outcome # "reverted"
             /\ outcome = "done" =>
                  /\ held.T = 0
                  /\ held.W = IF b.pool.kind = "v3" THEN compute_swap_within_tick(b.pool, b.t, mid)
                              ELSE v2_amount_out(b.pool, b.t, mid)
        /\ plan.builder = "walker" /\ outcome = "done" =>
             held.W = verify_cycle_u256(plan.cycle, plan.input)

\* The steps the engine publishes carry what the contract sends to the pools: a plan
\* made from the current pools does not fail at a pool nobody else touched.
EngineStepsTrade == plan.builder = "engine" /\ ~moved => outcome # "reverted"

-----------------------------------------------------------------------------
\* A trader who swaps against one pool, a machine of its own: each swap is quoted
\* and settled as the pool's adapter in crates/pools/src quotes and predicts it.

CONSTANTS
    Pools,           \* initial pools: built by the constructors of PoolMath
    Purse,           \* what the trader starts with, of each token
    Amounts,         \* amounts in of a swap
    MaxSwaps         \* bound: swaps of the trader

TradesAssumption == MathAssumption /\ Purse \in Nat /\ Amounts \subseteq Nat /\ MaxSwaps \in Nat

VARIABLES traded, purse, swaps
tradeVars == <<traded, purse, swaps>>

TradeInit == traded \in Pools /\ purse = <<Purse, Purse>> /\ swaps = 0

\* A trader swaps at the quote; the pool moves as its adapter predicts, or, for
\* V2, by the reserves of the Sync event that follows.
Swap(t, dx) ==
    LET dy == get_amount_out(traded, t, dx)
        post == predict_post_state(traded, t, dx)
    IN  /\ swaps < MaxSwaps /\ swaps' = swaps + 1
        /\ dx <= purse[t] /\ dy # None /\ (traded.kind \notin {"v2", "sushi"} => post.known)
        /\ traded' = IF traded.kind \in {"v2", "sushi"}
                       THEN LET after == settled(traded, t, dx, dy).bal
                            IN  update_state(traded, after[1], after[2])
                       ELSE post.pool
        /\ purse' = [purse EXCEPT ![t] = @ - dx, ![other(t)] = @ + dy]

TradeNext == \E t \in {1, 2}, dx \in Amounts : Swap(t, dx)
TradeSpec == TradeInit /\ [][TradeNext]_tradeVars

\* The quotes of the adapters are sound.  No sequence of swaps against one pool, each
\* settled as its adapter predicts, pays: the trader never holds at least what they
\* started with of both tokens and more of one.  And where the quote has no safety
\* margin, get_amount_in asks for enough: put in, it pays at least the amount wanted.
QuotesSound ==
    /\ ~(purse[1] >= Purse /\ purse[2] >= Purse /\ purse # <<Purse, Purse>>)
    /\ traded.kind \in {"v2", "sushi", "curve"} =>
         \A t \in {1, 2}, dy \in Amounts :
            LET dx == get_amount_in(traded, t, dy)
            IN  dx # None => get_amount_out(traded, other(t), dx) >= dy
=============================================================================
