-------------------------- MODULE MempoolPipeline ---------------------------
(***************************************************************************)
(* The mempool decode pipeline, crates/grpc-server/src/mempool_pipeline.rs:*)
(* the task that handles pending transactions, the scan it spawns for each *)
(* decoded swap on the blocking pool, the revm validation behind a shared  *)
(* semaphore, and the engine beside them that registers and removes pools  *)
(* and moves the snapshot and the pool states on.                          *)
(*                                                                         *)
(* The first part is the arithmetic of a backrun: the price graph after    *)
(* the pending swap, the swap steps and the loan of a cycle, and what the  *)
(* revm validation of the arb can report (simulator/src/                   *)
(* mempool_backrun.rs, post_state_replay.rs).  A graph maps each pool to   *)
(* the reserves of its two tokens; rates are in percent.                   *)
(***************************************************************************)
EXTENDS PoolMath, CycleGating, SequencesExt, FiniteSetsExt

CONSTANTS
    Meta,            \* the pools of the model: protocol and two tokens of each
    Chain,           \* per block, the state of each pool
    BNT, ProfitToken,
    InputDefault,    \* input_amount_wei
    MinInput, MaxInput, HopGas, MinProfit, PremiumBps,
    GasWei,          \* gas_used * base_fee of the simulated arb
    Gains,           \* what an arb may leave the searcher, in the profit token
    Holding          \* what the searcher holds of it before

PoolIds == DOMAIN Meta
TokensOf(p) == {Meta[p].token0, Meta[p].token1}
side(p, token) == IF token = Meta[p].token0 THEN 1 ELSE 2

BackrunAssumption ==
    /\ GatingAssumption /\ MathAssumption
    /\ \A p \in PoolIds : Cardinality(TokensOf(p)) = 2
    /\ {MinInput, MaxInput, MinProfit, GasWei, Holding} \subseteq Nat /\ Gains \subseteq Nat

-----------------------------------------------------------------------------
\* Reserves as the graph stores them: those of V3 are virtual.
reserves(state) ==
    IF state.kind = "v3" THEN virtual_reserves(state.sqrt, state.liquidity) ELSE state.bal

\* Reserves given as (in, out) of the swap, as those of the pool's two tokens.
oriented(p, token_in, post) ==
    IF side(p, token_in) = 1 THEN post ELSE <<post[2], post[1]>>

\* unified_to_post_reserves: the predicted pool as (in, out) of the swap.
unified_to_post_reserves(p, token_in, state) == oriented(p, token_in, reserves(state))

\* predict_v2_post_state: constant product on the reserves of the graph; one
\* unit of the output side is always left.
predict_v2_post_state(rin, rout, dx, fee_bps) ==
    LET eff == dx * (10000 - fee_bps)
        dy == (eff * rout) \div (rin * 10000 + eff)
    IN  IF rin <= 0 \/ rout <= 0 \/ dx <= 0 THEN <<0, 0>>
        ELSE <<rin + dx, IF rout - dy > 1 THEN rout - dy ELSE 1>>

\* update_edge_from_reserves in both directions: a no-op for reserves of zero
\* and for a pool that is not in the graph.
update_edges(graph, p, token_in, post) ==
    IF p \notin DOMAIN graph \/ post[1] <= 0 \/ post[2] <= 0 THEN graph
    ELSE [graph EXCEPT ![p] = oriented(p, token_in, post)]

\* The pools between two tokens, and the rate of one in percent, after its fee;
\* that of an edge without reserves is its placeholder of one.
between(graph, from, to) == {p \in DOMAIN graph : TokensOf(p) = {from, to}}
rateOf(graph, p, from) ==
    LET i == side(p, from)
    IN  IF graph[p][i] = 0 THEN 100
        ELSE (graph[p][other(i)] * (10000 - Meta[p].fee_bps)) \div (graph[p][i] * 100)

\* The parallel edges of a hop in the order of the graph.
hop(graph, from, to) ==
    LET order == SetToSeq(between(graph, from, to))
    IN  [k \in DOMAIN order |->
           [pool |-> order[k], protocol |-> Meta[order[k]].protocol, filtered |-> FALSE,
            reserve_in |-> graph[order[k]][side(order[k], from)],
            weight |-> 0 - rateOf(graph, order[k], from)]]

\* The rate of a path on its best edges, per mille.
rate(graph, path) ==
    FoldLeft(LAMBDA acc, i :
               (acc * Max({rateOf(graph, p, path[i]) : p \in between(graph, path[i], path[i + 1])})) \div 100,
             1000, [i \in 1..Len(path) - 1 |-> i])

paths(graph) ==
    LET tokens == UNION {TokensOf(p) : p \in DOMAIN graph}
    IN  {c \in UNION {[1..n + 1 -> tokens] : n \in {2, 3}} :
            /\ c[1] = c[Len(c)]
            /\ \A i, j \in 1..Len(c) - 1 : c[i] = c[j] => i = j
            /\ \A i \in 1..Len(c) - 1 : between(graph, c[i], c[i + 1]) # {}}

profitable(graph) == {c \in paths(graph) : rate(graph, c) > 1000}

\* Some paths as the gates see them, best first.
scored(graph, found) ==
    LET cycleOf(path) ==
          [path |-> path, pf |-> (rate(graph, path) - 1000) \div 10, profitable |-> TRUE,
           hops |-> [i \in 1..Len(path) - 1 |-> hop(graph, path[i], path[i + 1])]]
    IN  SetToSortSeq({cycleOf(path) : path \in found}, LAMBDA a, b : a.pf > b.pf)

-----------------------------------------------------------------------------
\* cycle_to_swap_steps: on each hop the edge with the best rate in the graph it
\* is given; <<>> when a hop has none.
cycle_to_swap_steps(graph, path) ==
    LET hops == [i \in 1..Len(path) - 1 |-> hop(graph, path[i], path[i + 1])]
    IN  IF \E i \in DOMAIN hops : hops[i] = <<>> THEN <<>>
        ELSE [i \in DOMAIN hops |->
                [pool |-> hops[i][select_best_edge_for_hop(hops[i])].pool,
                 token_in |-> path[i], token_out |-> path[i + 1]]]

\* victim_post_reserves: the victim's pool as the arb will find it; V2 only.
victim_post_reserves(state, p, victim) ==
    IF state.kind = "v2" /\ p = victim.pool /\ victim.post[1] > 0 /\ victim.post[2] > 0
    THEN LET r == oriented(p, victim.token_in, victim.post) IN update_state(state, r[1], r[2])
    ELSE state

\* The exact quote of the pool, whatever its protocol.
poolstate_quote(state, token, dx) == get_amount_out(state, token, dx)

someOut(dy) == IF dy = 0 THEN None ELSE dy

\* The amounts along the steps; a hop that cannot quote ends in None.
run_chain(steps, states, victim, input) ==
    FoldLeft(LAMBDA acc, step :
               Append(acc, IF Last(acc) = None THEN None
                           ELSE someOut(poolstate_quote(
                                  victim_post_reserves(states[step.pool], step.pool, victim),
                                  side(step.pool, step.token_in), Last(acc)))),
             <<input>>, steps)

net_profit(steps, amounts) ==
    Last(amounts) - amounts[1] - Len(steps) * HopGas - (amounts[1] * PremiumBps) \div 10000

\* The range of the optimizer: half the first reserve of a V2 pool at most.
input_range(steps, states, victim) ==
    LET first == victim_post_reserves(states[steps[1].pool], steps[1].pool, victim)
        depth == first.bal[side(steps[1].pool, steps[1].token_in)] \div 2
        cap == IF first.kind = "v2" /\ depth < MaxInput THEN depth ELSE MaxInput
    IN  IF MinInput < cap THEN MinInput..cap ELSE {MinInput}

Fallback == [kind |-> "fallback", loan |-> InputDefault, expected |-> 0]
BelowMinProfit == [kind |-> "below", loan |-> 0, expected |-> 0]

\* optimize_cycle_input: what the search may settle on.
optimize_cycle_input(steps, states, victim) ==
    IF \E i \in DOMAIN steps : steps[i].pool \notin DOMAIN states THEN {Fallback}
    ELSE {LET net == net_profit(steps, amounts)
          IN  IF Last(amounts) = None \/ net <= 0 \/ net < MinProfit THEN BelowMinProfit
              ELSE [kind |-> "sized", loan |-> amounts[1], expected |-> net]
          : amounts \in {run_chain(steps, states, victim, input) :
                          input \in input_range(steps, states, victim)}}

-----------------------------------------------------------------------------
Rejected(reason) == [accepted |-> FALSE, reject |-> reason, gross |-> 0, gain |-> 0]

\* The block of the fork, the token measured, and whether the victim is replayed
\* or its effect written over the storage.
ValidatorParams(block, overrides) ==
    [block_number |-> block, profit_token |-> ProfitToken, skip_victim_with_overrides |-> overrides]

\* A slot the simulation did not touch reads as before.
read_post_balance(touched, value, fallback) == IF touched THEN value ELSE fallback

\* The arb succeeded and left the searcher gain more.  A balance that could not
\* be read before counts as zero.
measured(gain, read) ==
    LET pre == IF read THEN Holding ELSE 0
        post == read_post_balance(gain # 0, Holding + gain, pre)
    IN  IF post - pre <= GasWei THEN Rejected("negative_after_gas")
        ELSE [accepted |-> TRUE, reject |-> "none", gross |-> post - pre, gain |-> gain]

\* classify_transact_err: an error of the transport, which may be tried again, or another.
transactErrors == {"rpc_transport", "sim_error"}

\* How the replay of the victim may end the simulation.
victimRejects(skip_victim) ==
    IF skip_victim THEN {} ELSE {"victim_reverted", "victim_halted"} \cup transactErrors

\* How the arb may end it before its gain is measured.
arbRejects == {"arb_reverted", "arb_halted"} \cup transactErrors

\* validate_backrun: the victim, unless its effect is written over the storage,
\* then the arb, whose gain shows only when the loan is in the profit token.
validate_backrun(params, loan_token) ==
    {Rejected(r) : r \in victimRejects(params.skip_victim_with_overrides) \cup arbRejects}
    \cup {measured(gain, read) :
            gain \in IF loan_token = params.profit_token THEN Gains ELSE {0}, read \in BOOLEAN}

\* The views of the post-state replays: price and liquidity of a V3 pool, the
\* balances of the two coins of a Curve pool, of the tokens of a Balancer pool
\* in its vault.
replay_v3(pool, t, dx) == [pool EXCEPT !.sqrt = v3_new_sqrt(pool, t, dx)]
replay_curve(pool, t, dx) == settled(pool, t, dx, curve_amount_out(pool, t, dx))
replay_balancer(pool, t, dx) == settled(pool, t, dx, balancer_amount_out(pool, t, dx))

\* A replay: the victim on a fork of the latest block, then the views; NoPost for
\* every error of either.
replay_post_state(p, token_in, dx, head) ==
    LET pool == Chain[head][p] t == side(p, token_in)
        read(q) == {NoPost, [known |-> TRUE, sure |-> TRUE, pool |-> q]}
    IN  CASE pool.kind = "v3"       -> read(replay_v3(pool, t, dx))
          [] pool.kind = "curve"    -> read(replay_curve(pool, t, dx))
          [] pool.kind = "balancer" -> read(replay_balancer(pool, t, dx))

-----------------------------------------------------------------------------
CONSTANTS
    Events,          \* pending transactions: to, decoded, swaps and value of each
    Settings,        \* of a process: whether there is a validator (backrun), and
                     \* replay, provider, skip_victim, fork_latest
    Permits,         \* of sim_semaphore
    MaxRetries,      \* AETHER_MEMPOOL_SIM_RETRIES
    Pointers,        \* addresses an Arc of the registry may have
    FirstRegistry,   \* pools registered at the start
    Churn,           \* pools that come and go
    MaxEvents, MaxTasks, MaxHead, MaxChanges    \* bounds of the model

PipelineAssumption ==
    /\ BackrunAssumption /\ FirstRegistry \subseteq PoolIds
    /\ Permits \in Nat \ {0} /\ MaxRetries \in Nat /\ Cardinality(Pointers) > 1
    /\ \A b \in 0..MaxHead : DOMAIN Chain[b] = PoolIds

VARIABLES
    cfg, head,
    snap,            \* the snapshot: its block and graph
    registry, ptr,   \* pool_registry and the address of its Arc
    cache,           \* pair_index_cache: that address when built, and the pools indexed
    pool_states,     \* per cached pool, its state when last read
    known,           \* token_index
    changes, listening, handled, lagged,
    counts,          \* pending_dex_tx: swaps decoded, transactions that could not be
    task,            \* the scans, in the order they were spawned
    permits, published

pipeline == <<listening, handled, lagged, counts, task, permits, published>>
engine == <<head, snap, registry, ptr, pool_states, known, changes>>
vars == <<cfg, engine, cache, pipeline>>

\* The edges of a graph: the pools whose protocol is integrated, with no
\* reserves until their state has been read.
graphAt(pools, block, read) ==
    [p \in {q \in pools : Meta[q].protocol \in {"v2", "sushi", "v3"}} |->
       IF p \in read THEN reserves(Chain[block][p]) ELSE <<0, 0>>]
working == DOMAIN snap.graph \cup registry
tokensOf(pools) == UNION {TokensOf(p) : p \in pools}

\* What the process makes of its context.  Without the sender nothing uses the validator.
with_post_state_replay(ctx, enabled) == [ctx EXCEPT !.replay = enabled]
with_arb_publisher(ctx) == [ctx EXCEPT !.publisher = TRUE]
with_backrun_validator(ctx, s) ==
    [ctx EXCEPT !.backrun = TRUE, !.provider = s.provider, !.skip_victim = s.skip_victim,
                !.fork_latest = s.fork_latest]
SimContext(s) ==
    LET plain == [publisher |-> FALSE, backrun |-> FALSE, replay |-> FALSE, provider |-> FALSE,
                  skip_victim |-> FALSE, fork_latest |-> FALSE]
        sending == with_arb_publisher(plain)
        validating == IF s.backrun THEN with_backrun_validator(sending, s) ELSE sending
    IN  with_post_state_replay(validating, s.replay)

Init ==
    /\ cfg \in {SimContext(s) : s \in Settings} /\ head = 0 /\ registry = FirstRegistry /\ ptr = CHOOSE addr \in Pointers : TRUE
    /\ snap = [block |-> 0, graph |-> graphAt(FirstRegistry, 0, FirstRegistry)]
    /\ cache = [ptr |-> "none", pools |-> {}]
    /\ pool_states = [p \in FirstRegistry |-> Chain[0][p]] /\ known = tokensOf(FirstRegistry)
    /\ changes = 0 /\ listening = TRUE /\ handled = 0 /\ lagged = 0
    /\ counts = [decoded |-> 0, failed |-> 0]
    /\ task = <<>> /\ permits = Permits /\ published = {}

-----------------------------------------------------------------------------
\* A block: the engine publishes the snapshot of its graph some time after.
NewBlock ==
    /\ head < MaxHead /\ head' = head + 1
    /\ UNCHANGED <<cfg, snap, registry, ptr, cache, pool_states, known, changes, pipeline>>

PublishSnapshot ==
    /\ snap # [block |-> head, graph |-> graphAt(working, head, DOMAIN pool_states)]
    /\ snap' = [block |-> head, graph |-> graphAt(working, head, DOMAIN pool_states)]
    /\ UNCHANGED <<cfg, head, registry, ptr, cache, pool_states, known, changes, pipeline>>

\* The states the predictors read are refreshed apart from the graph.
RefreshState(p) ==
    /\ p \in registry /\ (p \in DOMAIN pool_states => pool_states[p] # Chain[head][p])
    /\ pool_states' = [q \in DOMAIN pool_states \cup {p} |-> IF q = p THEN Chain[head][p] ELSE pool_states[q]]
    /\ UNCHANGED <<cfg, head, snap, registry, ptr, cache, known, changes, pipeline>>

\* register_pool: a copy of the registry under a new Arc; its edges are published
\* with the next snapshot and its state is read later.
RegisterPool(p, addr) ==
    /\ changes < MaxChanges /\ changes' = changes + 1
    /\ p \in Churn \ registry /\ registry' = registry \cup {p}
    /\ addr # ptr /\ ptr' = addr /\ known' = known \cup TokensOf(p)
    /\ UNCHANGED <<cfg, head, snap, cache, pool_states, pipeline>>

\* remove_pool: the registry first, then the edges of the snapshot and the state.
RemovePool(p, addr) ==
    /\ changes < MaxChanges /\ changes' = changes + 1
    /\ p \in Churn \cap registry /\ registry' = registry \ {p}
    /\ addr # ptr /\ ptr' = addr
    /\ UNCHANGED <<cfg, head, snap, cache, pool_states, known, pipeline>>

RemoveEdges(p) ==
    /\ p \in (DOMAIN snap.graph \cup DOMAIN pool_states) \ registry
    /\ snap' = [block |-> head, graph |-> graphAt(working \ {p}, head, DOMAIN pool_states)]
    /\ pool_states' = Restrict(pool_states, DOMAIN pool_states \ {p})
    /\ UNCHANGED <<cfg, head, registry, ptr, cache, known, changes, pipeline>>

-----------------------------------------------------------------------------
\* The pair index a lookup uses: the cached one when it was built for an Arc at
\* the same address.
index == IF cache.ptr = ptr THEN cache.pools ELSE registry

\* What lookup_pool leaves in the cache.
lookedUp == cache' = [ptr |-> ptr, pools |-> index]

canonical_pair(a, b) == {a, b}

build_pair_index(pools) ==
    LET key(p) == <<canonical_pair(Meta[p].token0, Meta[p].token1), Meta[p].protocol>>
    IN  [k \in {key(p) : p \in pools} |-> {p \in pools : key(p) = k}]

\* lookup_pool: any pool of the pair and protocol, the map having no order.
lookup_pool(a, b, protocol) ==
    LET found == build_pair_index(index) key == <<canonical_pair(a, b), protocol>>
    IN  IF key \in DOMAIN found THEN found[key] ELSE {}

\* A 1inch swap has no protocol of its own.
decoder_protocol_to_type(p) == IF p = "1inch" THEN "none" ELSE p

besidesBNT(swap) == BNT \notin {swap.token_in, swap.token_out}
multihop(swap) == swap.protocol = "bancor" /\ besidesBNT(swap)

\* pre_sim_filter: swaps of no protocol pass, a Bancor swap needs its pool or both legs.
pre_sim_filter(swap) ==
    /\ swap.token_in # swap.token_out /\ swap.amount_in > 0
    /\ \/ decoder_protocol_to_type(swap.protocol) = "none"
       \/ /\ multihop(swap)
          /\ lookup_pool(swap.token_in, BNT, "bancor") # {}
          /\ lookup_pool(swap.token_out, BNT, "bancor") # {}
       \/ ~multihop(swap) /\ lookup_pool(swap.token_in, swap.token_out, swap.protocol) # {}

looksUp(swap) == swap.token_in # swap.token_out /\ swap.amount_in > 0 /\ decoder_protocol_to_type(swap.protocol) # "none"

\* The value of the transaction is the input of a first swap that names none.
backfill(ev) ==
    [i \in DOMAIN ev.swaps |->
       IF i = 1 /\ ev.value > 0 /\ ev.swaps[1].amount_in = 0
       THEN [ev.swaps[1] EXCEPT !.amount_in = ev.value] ELSE ev.swaps[i]]

NoVictim == [pool |-> "none", token_in |-> "none", post |-> <<0, 0>>]
NewTask(swap) ==
    [pc |-> "resolve", swap |-> swap, victim |-> NoVictim, from |-> "none", block |-> 0,
     graph |-> <<>>, over |-> <<>>, path |-> <<>>, steps |-> <<>>, loan |-> 0, expected |-> 0,
     attempt |-> 0, rows |-> 0, outcome |-> "none"]

\* The counts of a transaction without a recipient stay as they are.
emit_decoded(n) == counts' = [counts EXCEPT !.decoded = @ + n]
emit_failure == counts' = [counts EXCEPT !.failed = @ + 1]

\* handle_event: nothing to decode, nothing decoded, or a scan for every swap
\* the filter lets through.
handle_event(ev) ==
    LET swaps == IF ev.to /\ ev.decoded THEN backfill(ev) ELSE <<>>
        passed == SelectSeq(swaps, pre_sim_filter)
    IN  /\ listening /\ handled < MaxEvents /\ handled' = handled + 1
        /\ Len(task) + Len(passed) <= MaxTasks
        /\ IF ev.to /\ ~ev.decoded THEN emit_failure ELSE emit_decoded(Len(swaps))
        /\ IF \E i \in DOMAIN swaps : looksUp(swaps[i]) THEN lookedUp ELSE cache' = cache
        /\ task' = task \o [i \in DOMAIN passed |-> NewTask(passed[i])]
        /\ UNCHANGED <<cfg, engine, listening, lagged, permits, published>>

\* The receiver fell behind the broadcast: its event is counted and lost.
Lagged ==
    /\ listening /\ handled < MaxEvents /\ handled' = handled + 1 /\ lagged' = lagged + 1
    /\ UNCHANGED <<cfg, engine, cache, listening, counts, task, permits, published>>

\* Shutdown, or every sender of the broadcast gone: the loop ends, and the scans
\* it has spawned run on.
Stop ==
    /\ listening /\ listening' = FALSE
    /\ UNCHANGED <<cfg, engine, cache, handled, lagged, counts, task, permits, published>>

-----------------------------------------------------------------------------
\* The rest is try_post_state_scan, on a thread of the blocking pool.
step(i, t) == task' = [task EXCEPT ![i] = t]
end(t, outcome) ==
    [NewTask(t.swap) EXCEPT !.pc = "done", !.outcome = outcome, !.rows = t.rows]
others == <<cfg, engine, listening, handled, lagged, counts, published>>

\* resolve_swap_pool, and the tokens of the pool in the index.  A pair that is
\* gone, or a Bancor swap with no pool of its own pair, ends the scan uncounted.
\* The edge that moves starts at the token the pool sells for (from); a 1inch swap
\* takes it from its direction flag, and its victim keeps the token of the call.
Resolve(i) ==
    LET t == task[i] s == t.swap
        found(p, in, out) ==
            IF Meta[p].protocol = "bancor" /\ besidesBNT(s) THEN [t EXCEPT !.pc = "multihop"]
            ELSE IF in \notin known THEN end(t, "token_in_unknown")
            ELSE IF out \notin known THEN end(t, "token_out_unknown")
            ELSE [t EXCEPT !.pc = "predict", !.from = in,
                           !.victim = [pool |-> p, token_in |-> s.token_in, post |-> <<0, 0>>]]
    IN  /\ t.pc = "resolve"
        /\ IF s.protocol = "1inch"
           THEN /\ cache' = cache
                /\ IF s.pool = "none" THEN step(i, end(t, "unresolved_executor"))
                   ELSE IF s.pool \notin registry THEN step(i, end(t, "pool_not_registered"))
                   ELSE step(i, IF s.zero_for_one THEN found(s.pool, Meta[s.pool].token0, Meta[s.pool].token1)
                                ELSE found(s.pool, Meta[s.pool].token1, Meta[s.pool].token0))
           ELSE /\ lookedUp
                /\ LET pools == lookup_pool(s.token_in, s.token_out, s.protocol)
                   IN  IF pools = {} THEN step(i, end(t, "silent"))
                       ELSE \E p \in pools : step(i, found(p, s.token_in, s.token_out))
        /\ UNCHANGED <<others, permits>>

\* The graph of the snapshot with the pool moved by the swap.
scanning(t, post) ==
    [t EXCEPT !.pc = "scan", !.victim.post = post,
              !.over = update_edges(t.graph, t.victim.pool, t.from, post)]

\* What a predicted or replayed pool makes of the scan.
adopt(t, q) ==
    IF ~q.known THEN end(t, "predictor_low_confidence")
    ELSE LET post == unified_to_post_reserves(t.victim.pool, t.victim.token_in, q.pool)
         IN  IF post[1] <= 0 \/ post[2] <= 0 THEN end(t, "post_state_invalid") ELSE scanning(t, post)

\* The prediction from the pool state; there is none for V2, so 1inch swaps of V2
\* pools end here, and none for a token that is not of the pool.
predicted(p, token_in, dx) ==
    IF token_in \in TokensOf(p) THEN predict_post_state(pool_states[p], side(p, token_in), dx) ELSE NoPost

\* try_post_state_replay may run: it is switched on, there is a provider, a
\* permit, and a reader for the protocol.
replays(p, q) ==
    /\ q.known /\ ~q.sure /\ cfg.replay /\ cfg.backrun /\ cfg.provider /\ permits > 0
    /\ Meta[p].protocol \in {"v3", "curve", "balancer"}

\* The reserves after the swap: V2 from the graph of the snapshot, the others
\* from the pool state, through a replay when the prediction is not sure.
Predict(i) ==
    LET p == task[i].victim.pool in == side(p, task[i].from)
        t == [task[i] EXCEPT !.block = snap.block, !.graph = snap.graph]
        dx == t.swap.amount_in
    IN  /\ t.pc = "predict"
        /\ \/ /\ p \notin DOMAIN snap.graph
              /\ step(i, end(t, "graph_edge_missing")) /\ permits' = permits
           \/ /\ p \in DOMAIN snap.graph /\ 0 \in Range(snap.graph[p])
              /\ step(i, end(t, "reserves_zero")) /\ permits' = permits
           \/ /\ p \in DOMAIN snap.graph /\ 0 \notin Range(snap.graph[p])
              /\ IF t.swap.protocol \in {"v2", "sushi"}
                 THEN LET r == snap.graph[p]
                      IN  /\ step(i, scanning(t, predict_v2_post_state(r[in], r[other(in)], dx, Meta[p].fee_bps)))
                          /\ permits' = permits
                 ELSE IF p \notin DOMAIN pool_states
                 THEN step(i, end(t, "pool_state_missing")) /\ permits' = permits
                 ELSE \E q \in {predicted(p, t.victim.token_in, dx)} :
                          IF replays(p, q)
                          THEN step(i, [t EXCEPT !.pc = "replay"]) /\ permits' = permits - 1
                          ELSE /\ step(i, adopt(t, trusted(q, NoPost)))
                               /\ permits' = permits
        /\ UNCHANGED <<others, cache>>

\* The mutation of Replay: the permit is dropped at the end of the scan, if then.
ReplayKeepsPermit(i) ==
    LET t == task[i]
    IN  /\ t.pc = "replay" /\ permits' = permits
        /\ \E q \in replay_post_state(t.victim.pool, t.victim.token_in, t.swap.amount_in, head) :
              step(i, adopt(t, q))
        /\ UNCHANGED <<others, cache>>

\* The end of the replay, on a fork of the latest block; its permit goes with it.
Replay(i) ==
    LET t == task[i]
    IN  /\ t.pc = "replay" /\ permits' = permits + 1
        /\ \E q \in replay_post_state(t.victim.pool, t.victim.token_in, t.swap.amount_in, head) :
              step(i, adopt(t, q))
        /\ UNCHANGED <<others, cache>>

\* Both edges of both legs; the second leg's input is BNT.
legsMoved(graph, a, token_in, b, postA, postB) ==
    update_edges(update_edges(graph, a, token_in, postA), b, BNT, <<postB[2], postB[1]>>)

\* try_post_state_scan_bancor_multihop up to its scan: both legs through BNT.
Multihop(i) ==
    LET t == [task[i] EXCEPT !.block = snap.block, !.graph = snap.graph] s == t.swap
        leg(token) == lookup_pool(token, BNT, "bancor")
        moved(a, b, posts) ==
          IF ~posts[1].known THEN end(t, "bancor_multihop_low_confidence")
          ELSE IF {a, b} \ DOMAIN snap.graph # {} THEN end(t, "graph_edge_missing")
          ELSE IF \E k \in 1..2 : 0 \in Range(posts[k].pool.bal) THEN end(t, "post_state_invalid")
          ELSE [t EXCEPT !.pc = "scan",
                  !.over = legsMoved(snap.graph, a, s.token_in, b, posts[1].pool.bal, posts[2].pool.bal)]
    IN  /\ t.pc = "multihop"
        /\ IF {s.token_in, s.token_out, BNT} \subseteq known THEN lookedUp ELSE cache' = cache
        /\ IF s.token_in \notin known THEN step(i, end(t, "token_in_unknown"))
           ELSE IF s.token_out \notin known THEN step(i, end(t, "token_out_unknown"))
           ELSE IF BNT \notin known THEN step(i, end(t, "token_in_unknown"))
           ELSE IF leg(s.token_in) = {} \/ leg(s.token_out) = {}
           THEN step(i, end(t, "bancor_second_pool_not_found"))
           ELSE \E a \in leg(s.token_in), b \in leg(s.token_out) :
                  step(i, IF {a, b} \ DOMAIN pool_states # {} THEN end(t, "pool_state_missing")
                          ELSE moved(a, b, predict_post_state_multihop(pool_states[a], s.amount_in, pool_states[b])))
        /\ UNCHANGED <<others, permits>>

-----------------------------------------------------------------------------
\* A prediction row is written whatever the scan finds, one for either leg of a
\* multi-hop swap.
siblingRows == 2
twoLegs(t) == t.victim = NoVictim
rows(t) == IF twoLegs(t) THEN siblingRows ELSE 1

\* The validator, when there is one, gets the best cycle the gates let through.
handOver(t, batch) ==
    LET pass == {k \in DOMAIN batch : gate_pre_sim(batch[k], batch) = "pass"}
    IN  IF ~cfg.publisher \/ ~cfg.backrun \/ pass = {} THEN end(t, "candidate")
        ELSE [t EXCEPT !.pc = "acquire", !.path = batch[Min(pass)].path]

\* The same after a swap of two legs, which has no one pool to write over.
handOverMultihop(t, batch) == handOver([t EXCEPT !.victim = NoVictim], batch)

\* The scan of the moved graph; what the detector reports is a choice among the
\* profitable cycles.
Scan(i) ==
    LET t == [task[i] EXCEPT !.rows = rows(task[i])]
    IN  /\ t.pc = "scan"
        /\ \E found \in {f \in SUBSET profitable(t.over) : Cardinality(f) <= 2} :
           \E batch \in {scored(t.over, found)} :
             step(i, IF found = {} THEN end(t, "no_profitable_cycle")
                     ELSE IF twoLegs(t) THEN handOverMultihop(t, batch) ELSE handOver(t, batch))
        /\ UNCHANGED <<others, cache, permits>>

-----------------------------------------------------------------------------
\* The victim's effect is written over the storage instead of replayed: asked
\* for, and a swap of one V2 pool.
overridden(t) ==
    /\ cfg.skip_victim /\ t.swap.protocol \in {"v2", "sushi"} /\ ~t.swap.path_extra
    /\ t.victim.post[1] > 0 /\ t.victim.post[2] > 0

\* run_backrun_validation takes a permit or drops the attempt.
Acquire(i) ==
    LET t == task[i]
    IN  /\ t.pc = "acquire"
        /\ IF permits = 0 THEN step(i, end(t, "sim_concurrency_saturated")) /\ permits' = permits
           ELSE step(i, [t EXCEPT !.pc = "size"]) /\ permits' = permits - 1
        /\ UNCHANGED <<others, cache>>

\* Under the permit, up to the fork: the steps from the graph of the snapshot,
\* the loan from the pool states of now.
Size(i) ==
    LET t == task[i]
        drop(reason) == step(i, end(t, reason)) /\ permits' = permits + 1
    IN  /\ t.pc = "size"
        /\ \E steps \in {cycle_to_swap_steps(t.graph, t.path)} :
           IF ~cfg.provider THEN drop("provider_unavailable")
           ELSE IF steps = <<>> THEN drop("cycle_unbuildable")
           ELSE \E sizing \in optimize_cycle_input(steps, pool_states, t.victim) :
                  IF sizing.kind = "below" THEN drop("below_min_profit_optimized")
                  ELSE /\ permits' = permits
                       /\ step(i, [t EXCEPT !.pc = "simulate", !.steps = steps,
                                             !.loan = sizing.loan, !.expected = sizing.expected])
        /\ UNCHANGED <<others, cache>>

\* The block the simulation forks.
forkBlock(t) == IF cfg.fork_latest THEN head ELSE t.block

\* A transport error is tried again on a fresh fork, MaxRetries times.
retried(t, r) == r.reject = "rpc_transport" /\ t.attempt < MaxRetries

\* One attempt: no fork, a retry, a rejection (a slow one relabelled), an
\* estimate the simulation contradicts, or the arb for the executor.
Simulate(i) ==
    LET t == task[i]
        arb(r) ==
          [task |-> i, block |-> t.block, target_block |-> t.block + 1, fork |-> forkBlock(t),
           steps |-> t.steps, flashloan_amount |-> t.loan, expected |-> t.expected,
           replayed |-> ~overridden(t), profit |-> r.gross]
        over(t1) == step(i, t1) /\ permits' = permits + 1
    IN  /\ t.pc = "simulate"
        /\ \/ over(end(t, "fork_construction_failed")) /\ published' = published
           \/ \E r \in validate_backrun(ValidatorParams(forkBlock(t), overridden(t)), t.steps[1].token_in) :
                IF retried(t, r)
                THEN /\ step(i, [t EXCEPT !.attempt = @ + 1])
                     /\ UNCHANGED <<permits, published>>
                ELSE IF ~r.accepted
                THEN /\ \E reason \in {r.reject} \cup
                            (IF r.reject \in {"rpc_transport", "sim_error"} THEN {"sim_timeout"} ELSE {}) :
                          over(end(t, reason))
                     /\ published' = published
                ELSE IF ~gate_post_sim(t.expected, r.gross)
                THEN over(end(t, "revm_contradicts")) /\ published' = published
                ELSE over(end(t, "published")) /\ published' = published \cup {arb(r)}
        /\ UNCHANGED <<cfg, engine, cache, listening, handled, lagged, counts>>

-----------------------------------------------------------------------------
Running(i) ==
    \/ Resolve(i) \/ Predict(i) \/ Replay(i) \/ Multihop(i) \/ Scan(i)
    \/ Acquire(i) \/ Size(i) \/ Simulate(i)

Next ==
    \/ NewBlock \/ PublishSnapshot
    \/ \E p \in PoolIds : RefreshState(p) \/ RemoveEdges(p)
    \/ \E p \in PoolIds, addr \in Pointers : RegisterPool(p, addr) \/ RemovePool(p, addr)
    \/ \E ev \in Events : handle_event(ev)
    \/ Lagged \/ Stop
    \/ \E i \in DOMAIN task : Running(i)

Spec == Init /\ [][Next]_vars

-----------------------------------------------------------------------------
\* What the executor is sent was simulated as it says: on the block the cycle
\* was found on unless the configuration forks the head, one block before its
\* target, after the victim or over its written effect, with a loan the
\* optimizer stood behind, or the default one when it had nothing to size with.
PublishedSound ==
    \A a \in published :
        /\ a.target_block = a.block + 1 /\ (cfg.fork_latest \/ a.fork = a.block)
        /\ a.replayed \/ cfg.skip_victim
        /\ a.expected = 0 \/ a.expected >= MinProfit
        /\ a.expected = 0 => a.flashloan_amount = InputDefault
        /\ a.profit > GasWei

\* The permits of the simulations are all there but the ones that a running
\* replay, sizing or simulation holds, whatever way its predecessors ended: replays and
\* validations share one semaphore (sim_semaphore), and a permit lost would
\* leave the validator saturated for good.
PermitsReturned ==
    permits + Cardinality({i \in DOMAIN task : task[i].pc \in {"replay", "size", "simulate"}}) = Permits

=============================================================================
