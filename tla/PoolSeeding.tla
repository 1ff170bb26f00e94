---------------------------- MODULE PoolSeeding ----------------------------
(***************************************************************************)
(* What a pool's edge in the price graph says: register_pool, the phases   *)
(* of fetch_initial_reserves_filtered (decimals, identity, reserves, and   *)
(* their application) and handle_pool_update of                            *)
(* crates/grpc-server/src/engine.rs, over crates/state/src/price_graph.rs. *)
(* PriceEngine has the races on the shared maps; here what a task does     *)
(* between two awaits is one step and the data is kept: protocols, token   *)
(* decimals, the two token orders, reserves and V3 liquidity.  Three tasks *)
(* register, update and remove pools while one refresh runs: the event     *)
(* loop, the sync of the hot cache and reload_config.  The two directed    *)
(* edges of a pool change together and are one edge; a rate is kept as the *)
(* raw ratio and the decimals it was scaled by.                            *)
(***************************************************************************)
EXTENDS Integers, Sequences, FiniteSets, SequencesExt

CONSTANTS
    Pools, protocol,       \* the pools and what each of them is
    declared, actual,      \* its two tokens, in the configuration and on chain
    Configured,            \* the pools of the configuration file
    Decimals, Static,      \* decimals on chain, and in the curated table
    Weth, Floor,           \* min_liquidity_weth, in whole WETH
    First,                 \* what the pools hold at first
    Values,                \* what a pool may hold: <<r0, r1>>, for V3 <<price, liquidity>>
    MaxTrades, MaxSeeds    \* bounds of the model

Family == {"UniswapV2", "SushiSwap"}
Pairs == Family \union {"UniswapV3"}
Protocols == Pairs \union {"Curve", "BalancerV2", "Bancor"}

SeedingAssumption ==
    /\ protocol \in [Pools -> Protocols]
    /\ Configured \subseteq Pools /\ First \in [Pools -> Values]
    /\ DOMAIN Static \subseteq DOMAIN Decimals
    /\ Floor \in Nat /\ MaxTrades \in Nat /\ MaxSeeds \in Nat

VARIABLES
    registry,      \* pool_registry
    decimals,      \* PriceGraph.token_decimals
    edges,         \* PriceGraph: <<pool, protocol>> |-> its edge
    pool_states,   \* the cache of the mempool predictor
    chain,         \* what the pools hold
    phase,         \* where fetch_initial_reserves_filtered is
    collected,     \* the metadata it works on
    quarantined,   \* what its identity check found
    answers,       \* its ReserveResults
    task,          \* where each task is
    astray,        \* history: pools two tasks had in hand at once
    trades, seeds

vars == <<registry, decimals, edges, pool_states, chain, phase, collected, quarantined,
          answers, task, astray, trades, seeds>>
graph == <<decimals, edges>>
fetch == <<phase, collected, quarantined, answers, seeds>>

Empty == [x \in {} |-> x]
Over(f, g) == [x \in DOMAIN f \union DOMAIN g |-> IF x \in DOMAIN g THEN g[x] ELSE f[x]]
One(x, y) == [z \in {x} |-> y]

-----------------------------------------------------------------------------
(* The price graph.                                                        *)

\* An edge without depth is outside the reach of the sizing and of the gates.
NoDepth == <<0, 0>>

\* add_edge: the rate is taken as it is, without the decimals; the depth and the
\* filter of an edge that exists stay.
add_edge(g, e, rate) ==
    Over(g, One(e, [rate |-> rate, scale |-> <<0, 0>>,
                    depth |-> IF e \in DOMAIN g THEN g[e].depth ELSE NoDepth,
                    filtered |-> e \in DOMAIN g /\ g[e].filtered]))

\* A token whose decimals are not in the table counts 18.
DefaultDecimals == 18
token_decimals(d, t) == IF t \in DOMAIN d THEN d[t] ELSE DefaultDecimals

\* The floor: the WETH side of a pool that is not V3, in whole units.
floored(d, e, tokens, r) ==
    /\ e[2] # "UniswapV3" /\ Floor > 0
    /\ \E i \in 1..2 : /\ tokens[i] = Weth
                       /\ \A j \in 1..(i - 1) : tokens[j] # Weth
                       /\ r[i] < Floor * 10 ^ token_decimals(d, Weth)

\* The ratio is scaled by the decimals of both tokens; without the edge, or
\* with an empty side, nothing happens.
update_edge_from_reserves(g, d, e, tokens, r) ==
    IF e \notin DOMAIN g \/ r[1] = 0 \/ r[2] = 0 THEN g
    ELSE Over(g, One(e, [rate |-> r, depth |-> r, filtered |-> floored(d, e, tokens, r),
                         scale |-> <<token_decimals(d, tokens[1]),
                                     token_decimals(d, tokens[2])>>]))

set_edge_filtered(g, e) == IF e \in DOMAIN g THEN Over(g, One(e, [g[e] EXCEPT !.filtered = TRUE])) ELSE g

\* The edges of the identifier, address and protocol.
remove_pool_edges(g, id) == [e \in DOMAIN g \ {id} |-> g[e]]

-----------------------------------------------------------------------------
(* Registration.                                                           *)

metadata(p, kind) == [tokens |-> declared[p], protocol |-> kind, id |-> <<p, kind>>]

\* The curated table; registration takes 18 for a token it does not have.
known_token_decimals(t) == IF t \in DOMAIN Static THEN Static[t] ELSE DefaultDecimals

\* Every registration writes the decimals of both tokens anew, from the curated
\* table, or 18.
seed_decimals(d, p) ==
    Over(d, [t \in {declared[p][1], declared[p][2]} |-> known_token_decimals(t)])

\* Placeholders (rate 1.0) for the protocols the graph integrates.
placeholder(g, p, kind) == IF kind \in Pairs THEN add_edge(g, <<p, kind>>, <<1, 1>>) ELSE g

Tasks == {"loop", "sync", "reload"}
Idle == [at |-> "idle"]

\* A pool stands registered as m, and no task is in the middle of it.
settled(p, m) ==
    /\ p \in DOMAIN registry /\ registry[p] = m
    /\ \A t \in Tasks : task[t].at = "update" \/ task[t] = Idle \/ task[t].pool # p

\* register_pool: the registry, and behind the await of the lock the graph.
register_pool(t, p, kind) ==
    /\ task[t] = Idle /\ task' = [task EXCEPT ![t] = [at |-> "register", pool |-> p, kind |-> kind]]
    /\ registry' = Over(registry, One(p, metadata(p, kind)))
    /\ astray' = IF \/ p \in DOMAIN registry /\ registry[p].protocol # kind
                    \/ \E x \in Tasks : task[x].at \in {"unlink", "forget"} /\ task[x].pool = p
                 THEN astray \union {p} ELSE astray
    /\ UNCHANGED <<graph, pool_states, chain, fetch>>

link_pool(t) ==
    /\ task[t].at = "register" /\ task' = [task EXCEPT ![t] = Idle]
    /\ decimals' = seed_decimals(decimals, task[t].pool)
    /\ edges' = placeholder(edges, task[t].pool, task[t].kind)
    /\ UNCHANGED <<registry, pool_states, chain, fetch, astray, trades>>

\* The configured pools are registered before anything else runs.
Init ==
    /\ registry = [p \in Configured |-> metadata(p, protocol[p])]
    /\ decimals = [t \in UNION {{declared[p][1], declared[p][2]} : p \in Configured} |->
                     known_token_decimals(t)]
    /\ edges = [e \in {<<p, protocol[p]>> : p \in {q \in Configured : protocol[q] \in Pairs}} |->
                  [rate |-> <<1, 1>>, scale |-> <<0, 0>>, depth |-> NoDepth, filtered |-> FALSE]]
    /\ pool_states = Empty
    /\ chain = First
    /\ phase = "idle" /\ collected = Empty /\ quarantined = {} /\ answers = Empty
    /\ task = [t \in Tasks |-> Idle] /\ astray = {} /\ trades = 0 /\ seeds = 0

-----------------------------------------------------------------------------
(* fetch_initial_reserves_filtered.                                        *)

Collect ==
    /\ phase = "idle" /\ seeds < MaxSeeds /\ registry # Empty
    /\ collected' = registry /\ seeds' = seeds + 1 /\ phase' = "decimals"
    /\ UNCHANGED <<registry, graph, pool_states, chain, quarantined, answers, task, astray, trades>>

\* One call per distinct token; what the node does not answer keeps its value.
fetch_and_apply_token_decimals ==
    /\ phase = "decimals"
    /\ \E ok \in SUBSET UNION {{collected[p].tokens[1], collected[p].tokens[2]} : p \in DOMAIN collected} :
         decimals' = Over(decimals, [t \in ok |-> Decimals[t]])
    /\ phase' = "identity"
    /\ UNCHANGED <<registry, edges, pool_states, chain, collected, quarantined, answers, task, astray,
                   trades, seeds>>

token_identity_matches(tokens, found) == tokens[1] = found[1] /\ tokens[2] = found[2]

\* Both accessors: nothing unless the node answers.
call_token_accessor(p, ok) == IF p \in ok THEN {actual[p]} ELSE {}

\* Only pairs are asked for token0() and token1(); a pool that does not answer
\* both is not quarantined.
fetch_token_identity_quarantine ==
    /\ phase = "identity"
    /\ \E ok \in SUBSET DOMAIN collected :
         quarantined' = {p \in DOMAIN collected :
                           /\ collected[p].protocol \in Pairs
                           /\ \E found \in call_token_accessor(p, ok) :
                                ~token_identity_matches(collected[p].tokens, found)}
    /\ phase' = "reserves"
    /\ UNCHANGED <<registry, graph, pool_states, chain, collected, answers, task, astray, trades, seeds>>

Skipped == <<-1, -1>>

\* getReserves answers whole or not at all.
fetch_v2(p) == {Skipped, chain[p]}

\* slot0, then liquidity(): without the second the liquidity counts as zero.
fetch_v3(p) == {Skipped, <<chain[p][1], 0>>, chain[p]}

\* A() and both balances; getPoolId, getPoolTokens and the weights: one call that
\* fails skips the pool.
fetch_curve(p) == {Skipped, chain[p]}
fetch_balancer(p) == {Skipped, chain[p]}

fetched(p, kind) ==
    CASE kind \in Family -> fetch_v2(p)
      [] kind = "UniswapV3" -> fetch_v3(p)
      [] kind = "Curve" -> fetch_curve(p)
      [] kind = "BalancerV2" -> fetch_balancer(p)
      [] OTHER -> {Skipped}

\* One task per pool behind the boot semaphore; all are joined.
FetchReserves ==
    /\ phase = "reserves"
    /\ \E a \in [DOMAIN collected -> {Skipped} \union Values \union {<<v[1], 0>> : v \in Values}] :
         /\ \A p \in DOMAIN collected : a[p] \in fetched(p, collected[p].protocol)
         /\ answers' = a
    /\ phase' = "apply"
    /\ UNCHANGED <<registry, graph, pool_states, chain, collected, quarantined, task, astray, trades, seeds>>

\* The spot price at once, the depth where there is liquidity.
price_v3(g, d, e, tokens, v) ==
    IF v[1] = 0 THEN g
    ELSE LET spot == add_edge(g, e, <<1, v[1]>>)
         IN  IF v[2] = 0 THEN spot
             ELSE update_edge_from_reserves(spot, d, e, tokens, <<v[2], v[1] * v[2]>>)

\* What the edge becomes under the answer v.
applied(g, d, p, meta, v) ==
    CASE v = Skipped -> set_edge_filtered(g, meta.id)
      [] v # Skipped /\ p \in quarantined -> g
      [] v # Skipped /\ p \notin quarantined /\ meta.protocol \in Family ->
           update_edge_from_reserves(g, d, meta.id, meta.tokens, v)
      [] v # Skipped /\ p \notin quarantined /\ meta.protocol = "UniswapV3" ->
           price_v3(g, d, meta.id, meta.tokens, v)
      [] OTHER -> g

\* A predictor state; a pair is a SushiSwap one or else a UniswapV2 one.
build_v2_pool_state(kind, v) ==
    [protocol |-> IF kind = "SushiSwap" THEN kind ELSE "UniswapV2", state |-> v]

pool_state(kind, v) ==
    IF kind \in Family THEN build_v2_pool_state(kind, v) ELSE [protocol |-> kind, state |-> v]

\* Mutant: only the edge of a quarantined pool is left alone.
stored_states_unchecked(a) ==
    LET live == {p \in DOMAIN a : /\ a[p] # Skipped
                                  /\ collected[p].protocol \in Pairs => a[p][1] > 0
                                  /\ collected[p].protocol \in Family => a[p][2] > 0}
    IN  Over(pool_states, [p \in live |-> pool_state(collected[p].protocol, a[p])])

\* The predictor's states: of every pool that answered, quarantined pairs and
\* empty ones excepted.  Curve and Balancer states have no edge.
stored_states(a) ==
    LET live == {p \in DOMAIN a : /\ a[p] # Skipped /\ p \notin quarantined
                                  /\ collected[p].protocol \in Pairs => a[p][1] > 0
                                  /\ collected[p].protocol \in Family => a[p][2] > 0}
    IN  Over(pool_states, [p \in live |-> pool_state(collected[p].protocol, a[p])])

\* All answers under one graph lock.  The pools' edges are distinct, so their
\* order does not matter.
Apply ==
    /\ phase = "apply"
    /\ LET after(p) == applied(edges, decimals, p, collected[p], answers[p])
           mine == {collected[p].id : p \in DOMAIN collected}
       IN  edges' = [e \in DOMAIN edges \union (mine \cap UNION {DOMAIN after(p) : p \in DOMAIN collected}) |->
                       IF e \in mine THEN after(e[1])[e] ELSE edges[e]]
    /\ pool_states' = stored_states(answers)
    /\ astray' = astray \union {p \in DOMAIN collected : ~settled(p, collected[p])}
    /\ phase' = "idle" /\ collected' = Empty /\ answers' = Empty
    /\ UNCHANGED <<registry, decimals, chain, quarantined, task, trades, seeds>>

-----------------------------------------------------------------------------
(* handle_pool_update: a trade, and its event as far as the await of the    *)
(* graph's lock; then what it does under the lock, with the metadata it has. *)

Budget == trades < MaxTrades /\ trades' = trades + 1

ReserveUpdate(p, m, v) ==
    /\ protocol[p] \in Family
    /\ edges' = update_edge_from_reserves(edges, decimals, m.id, m.tokens, v)
    /\ pool_states' = IF m.protocol \in Family
                      THEN Over(pool_states, One(p, build_v2_pool_state(m.protocol, v)))
                      ELSE pool_states

V3Update(p, m, v) ==
    /\ protocol[p] = "UniswapV3"
    /\ edges' = price_v3(edges, decimals, m.id, m.tokens, v)
    /\ pool_states' = Over(pool_states, One(p, [protocol |-> "UniswapV3", state |-> v]))

\* Without metadata, with an empty side or without a price nothing follows.
live(p, v) == p \in DOMAIN registry /\ v[1] > 0 /\ (protocol[p] \in Family => v[2] > 0)

handle_pool_update ==
    /\ Budget /\ task["loop"] = Idle
    /\ \E p \in {q \in Pools : protocol[q] \in Pairs}, v \in Values :
         /\ v # chain[p]
         /\ chain' = [chain EXCEPT ![p] = v]
         /\ task' = IF live(p, v)
                    THEN [task EXCEPT !["loop"] = [at |-> "update", pool |-> p, meta |-> registry[p], v |-> v]]
                    ELSE task
    /\ UNCHANGED <<registry, graph, pool_states, fetch, astray>>

apply_pool_update ==
    /\ task["loop"].at = "update"
    /\ LET u == task["loop"]
       IN  /\ ReserveUpdate(u.pool, u.meta, u.v) \/ V3Update(u.pool, u.meta, u.v)
           /\ astray' = IF settled(u.pool, u.meta) THEN astray ELSE astray \union {u.pool}
    /\ task' = [task EXCEPT !["loop"] = Idle]
    /\ UNCHANGED <<registry, decimals, chain, fetch, trades>>

\* A pair is created: registered as UniswapV2 with 30 bps, whatever it is and
\* whether it is registered already, and never asked for its decimals.
PoolCreated ==
    /\ Budget
    /\ \E p \in {q \in Pools : protocol[q] \in Family} : register_pool("loop", p, "UniswapV2")

\* The sync of the hot cache adds what is not registered.
HotCacheAdds ==
    /\ Budget
    /\ \E p \in Pools \ DOMAIN registry : register_pool("sync", p, protocol[p])

\* reload_config registers the pools of the file again.
reload_config ==
    /\ Budget
    /\ \E p \in Configured : register_pool("reload", p, protocol[p])

\* The hot cache drops a pool: the registry, then the graph under its lock, then the
\* predictor's state.
remove_pool ==
    /\ Budget /\ task["sync"] = Idle
    /\ \E p \in DOMAIN registry :
         /\ registry' = [q \in DOMAIN registry \ {p} |-> registry[q]]
         /\ task' = [task EXCEPT !["sync"] = [at |-> "unlink", pool |-> p, id |-> registry[p].id]]
    /\ UNCHANGED <<graph, pool_states, chain, fetch, astray>>

unlink_pool ==
    /\ task["sync"].at = "unlink" /\ task' = [task EXCEPT !["sync"].at = "forget"]
    /\ edges' = remove_pool_edges(edges, task["sync"].id)
    /\ UNCHANGED <<registry, decimals, pool_states, chain, fetch, astray, trades>>

forget_pool ==
    /\ task["sync"].at = "forget" /\ task' = [task EXCEPT !["sync"] = Idle]
    /\ pool_states' = [q \in DOMAIN pool_states \ {task["sync"].pool} |-> pool_states[q]]
    /\ UNCHANGED <<registry, graph, chain, fetch, astray, trades>>

Next ==
    \/ Collect \/ fetch_and_apply_token_decimals \/ fetch_token_identity_quarantine
    \/ FetchReserves \/ Apply
    \/ handle_pool_update \/ apply_pool_update \/ PoolCreated \/ HotCacheAdds \/ reload_config
    \/ remove_pool \/ unlink_pool \/ forget_pool \/ (\E t \in Tasks : link_pool(t))

Spec == Init /\ [][Next]_vars

-----------------------------------------------------------------------------
depth(id) == IF id \in DOMAIN edges THEN edges[id].depth ELSE NoDepth

\* The detector and the mempool predictor see one market (engine.rs:1984-1985, "stays
\* in lockstep with the detector"): a pool of the V2 family has a predictor state
\* exactly when its edge carries reserves, and they are the same reserves.  They part
\* only at a pool that was registered as another protocol or in the middle of its
\* removal, or written by a refresh or an event whose metadata was no longer, or
\* not yet, what the registry and the graph had.
Lockstep ==
    \A p \in DOMAIN registry \ astray : registry[p].protocol \in Family =>
        IF p \in DOMAIN pool_states THEN pool_states[p].state = depth(registry[p].id)
                                    ELSE depth(registry[p].id) = NoDepth

-----------------------------------------------------------------------------
\* The registry of pools by pair of tokens, crates/pools/src/registry.rs, a machine
\* of its own: a map of pools, the pair index over it and the monitoring tiers.  A
\* pool is replaced when its identifier is registered again, and its tokens may
\* then be others.

CONSTANTS
    Ids,               \* PoolIds
    TokenLists,        \* the lists of tokens a pool may have
    MaxCalls           \* bound of the model

RegistryAssumption ==
    /\ \A l \in TokenLists : IsInjective(l)
    /\ MaxCalls \in Nat

VARIABLES
    pools,             \* registered identifier |-> tokens
    pair_index,        \* pair of tokens |-> identifiers, in order of registration
    tiers,             \* identifier |-> tier
    calls              \* bounded count of the calls

registryVars == <<pools, pair_index, tiers, calls>>

Tiers == {"hot", "warm", "cold"}
Tokens == UNION {Range(l) : l \in TokenLists}
TokenPairs == {p \in Tokens \X Tokens : p[1] # p[2]}

RegistryInit ==
    /\ pools = <<>> /\ tiers = <<>> /\ calls = 0
    /\ pair_index = [p \in TokenPairs |-> <<>>]

put(f, k, v) == [x \in DOMAIN f \union {k} |-> IF x = k THEN v ELSE f[x]]
drop(f, k) == [x \in DOMAIN f \ {k} |-> f[x]]
pairsOf(tokens) == {p \in TokenPairs : p[1] \in Range(tokens) /\ p[2] \in Range(tokens)}

\* All pairs of the pool in both orders.
register(id, tokens, tier) ==
    /\ pair_index' = [p \in TokenPairs |-> IF p \in pairsOf(tokens) THEN Append(pair_index[p], id)
                                      ELSE pair_index[p]]
    /\ tiers' = put(tiers, id, tier)
    /\ pools' = put(pools, id, tokens)

\* The pairs of the tokens the pool has now.
remove(id) ==
    /\ tiers' = drop(tiers, id) /\ pools' = drop(pools, id)
    /\ pair_index' = [p \in TokenPairs |->
         IF id \in DOMAIN pools /\ p \in pairsOf(pools[id])
           THEN SelectSeq(pair_index[p], LAMBDA x : x # id) ELSE pair_index[p]]

\* The answers: an identifier whose pool is gone is passed over.
pools_for_pair(a, b) == SelectSeq(pair_index[<<a, b>>], LAMBDA id : id \in DOMAIN pools)

Call == calls < MaxCalls /\ calls' = calls + 1
RegisterPool == Call /\ \E id \in Ids, l \in TokenLists, t \in Tiers : register(id, l, t)
RemovePool == Call /\ \E id \in Ids : remove(id)

RegistryNext == RegisterPool \/ RemovePool

RegistrySpec == RegistryInit /\ [][RegistryNext]_registryVars

-----------------------------------------------------------------------------
\* Whatever is registered, replaced and removed, every registered pool is found
\* under each pair of its tokens in both orders, it has a tier, and the two
\* orders of a pair give the same pools (register, remove).
PairsFound ==
    /\ \A id \in DOMAIN pools : \A p \in pairsOf(pools[id]) : id \in Range(pools_for_pair(p[1], p[2]))
    /\ DOMAIN tiers = DOMAIN pools
    /\ \A p \in TokenPairs : pools_for_pair(p[1], p[2]) = pools_for_pair(p[2], p[1])
=============================================================================
