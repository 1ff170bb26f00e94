---------------------------- MODULE PriceEngine ----------------------------
(***************************************************************************)
(* The shared state of AetherEngine (crates/grpc-server/src/engine.rs over *)
(* crates/state) and the tasks that touch it: main's bootstrap, the event  *)
(* loop, the hot-cache sync loop, the ReloadConfig RPC and the periodic    *)
(* reserve refresh.  token_index and pool_registry are ArcSwaps, changed   *)
(* by load, clone, modify, store; the working graph is behind a mutex.     *)
(* The two directed edges of a pool always change together and are one     *)
(* edge here.  Reserves are numbered by how often they changed on chain.   *)
(* A node and a bytecode cache are configured.                             *)
(***************************************************************************)
EXTENDS Integers, Sequences

CONSTANTS
    Pools, Tokens, token0, token1,   \* the tokens of each pool
    V3,              \* the UniswapV3 pools; the others are of the V2 family
    Static,          \* the pools of pools.toml
    Thin,            \* reserves below the WETH floor (V2) or without liquidity (V3)
    Void,            \* no price: a reserve of zero (V2) or a price of zero (V3)
    QueueCap,        \* CHANNEL_CAPACITY
    InitialVertices, \* the size the graph starts with
    Workloads        \* bounds of the model: whether the event loop registers alone,
                     \* and how many trades, hot-cache refreshes and other jobs come

ASSUME EngineAssumption ==
    /\ token0 \in [Pools -> Tokens] /\ token1 \in [Pools -> Tokens]
    /\ V3 \subseteq Pools /\ Static \subseteq Pools /\ 0 \in Void
    /\ QueueCap \in Nat \ {0} /\ InitialVertices \in Nat
    /\ Workloads \subseteq [alone : BOOLEAN, trades : Nat, syncs : Nat, jobs : Nat]

VARIABLES
    alone,           \* discovery is disabled and no ReloadConfig comes
    token_index,     \* TokenIndex.idx_to_addr
    registry,        \* pool_registry: pool |-> its PoolMetadata
    graph,           \* working_graph: edge |-> its PriceEdge and dirty flag
    vertices,        \* working_graph.num_vertices
    snapshot,        \* the published graph
    pool_states,     \* the cache the mempool predictor reads
    hot,             \* HotCache.pools
    created, chain,  \* on chain: the pools that exist and their reserves
    events,          \* the broadcast channel of pool updates
    pc,              \* where each task is
    pool, v3,        \* the pool it registers or removes, and as which protocol
    index, reg,      \* its clones of token_index and pool_registry
    rm, add, want,   \* its pools still to remove, to register, to fetch
    metas, answer,   \* its fetch: metadata, and what the node answered
    held,            \* the event loop's update in hand
    cloned,          \* the event loop's detection graph
    trades, syncs, jobs,   \* how many are still to come
    seen, outside,   \* history: edge |-> what the detector last scanned; the edges
                     \* whose flag was cleared while the hot set left them out
    missed           \* history: the pools with an update lost or overwritten, and no
                     \* current one priced since

shared == <<token_index, registry, graph, vertices, snapshot, pool_states, hot>>
world == <<created, chain, events>>
tasks == <<pc, pool, v3, index, reg, rm, add, want, metas, answer, held, cloned>>
counts == <<trades, syncs, jobs>>
history == <<seen, outside, missed>>
vars == <<alone, shared, world, tasks, counts, history>>

Tasks == {"boot", "loop", "sync", "reload", "refresh"}
Empty == [x \in {} |-> x]

\* f with g on top.
Over(f, g) == [x \in DOMAIN f \union DOMAIN g |-> IF x \in DOMAIN g THEN g[x] ELSE f[x]]
One(x, y) == [z \in {x} |-> y]
Only(f, S) == [x \in DOMAIN f \cap S |-> f[x]]

-----------------------------------------------------------------------------
(* crates/state: the price graph and the token index.                      *)

Edge(p, meta) == [pool |-> p, v3 |-> meta.v3, i0 |-> meta.i0, i1 |-> meta.i1]

\* An edge as an operation leaves it: every write raises the dirty flag.
Written(rate, reserves, filtered) ==
    [rate |-> rate, reserves |-> reserves, filtered |-> filtered, dirty |-> TRUE]

\* add_edge keeps the reserves and the filter of an edge that exists.  Rate 0
\* stands for the placeholder 1.0.
add_edge(g, e, rate) ==
    Over(g, One(e, IF e \in DOMAIN g THEN Written(rate, g[e].reserves, g[e].filtered)
                                     ELSE Written(rate, 0, FALSE)))

\* Mutant: the dirty flag is only raised when an edge is added.
UpdateUnflagged(g, e, v) ==
    IF e \in DOMAIN g
    THEN Over(g, One(e, [g[e] EXCEPT !.rate = v, !.reserves = v,
                                     !.filtered = ~e.v3 /\ v \in Thin]))
    ELSE g

\* A no-op without the edge.
update_edge_from_reserves(g, e, v) ==
    IF e \in DOMAIN g THEN Over(g, One(e, Written(v, v, ~e.v3 /\ v \in Thin))) ELSE g

set_edge_filtered(g, e) ==
    IF e \in DOMAIN g THEN Over(g, One(e, Written(g[e].rate, g[e].reserves, TRUE))) ELSE g

remove_pool_edges(g, p, isV3) == Only(g, {e \in DOMAIN g : ~(e.pool = p /\ e.v3 = isV3)})

\* An edge without its dirty flag, and the graph without the flags.
Content(edge) == [rate |-> edge.rate, reserves |-> edge.reserves, filtered |-> edge.filtered]
Contents(g) == [e \in DOMAIN g |-> Content(g[e])]

clear_dirty(g) ==
    [e \in DOMAIN g |-> [rate |-> g[e].rate, reserves |-> g[e].reserves,
                         filtered |-> g[e].filtered, dirty |-> FALSE]]

clone_retaining_pools(g) ==
    IF hot = {} THEN g ELSE Only(g, {e \in DOMAIN g : e.pool \in hot})

Has(s, x) == \E i \in 1..Len(s) : s[i] = x
get_or_insert(s, x) == IF Has(s, x) THEN s ELSE Append(s, x)
get_index(s, x) == CHOOSE i \in 1..Len(s) : s[i] = x

\* Mutant: without liquidity the spot price is skipped too.
PriceV3Liquid(g, e, v) ==
    IF v \in Thin THEN g ELSE update_edge_from_reserves(add_edge(g, e, v), e, v)

\* A V3 event or answer: the spot price, and the depth where there is liquidity.
price_v3(g, e, v) ==
    LET spot == add_edge(g, e, v)
    IN  IF v \in Thin THEN spot ELSE update_edge_from_reserves(spot, e, v)

\* What an event or an answer carries prices an edge: neither reserve is zero, or
\* the price is not.
Priced(v) == v \in Nat \ Void

InBounds(meta) == meta.i0 <= vertices /\ meta.i1 <= vertices

-----------------------------------------------------------------------------
(* Registering and removing pools: register_pool and remove_pool, by task t. *)

Booted == pc["boot"] = "idle"
Goto(t, label) == pc' = [pc EXCEPT ![t] = label]

\* What a task leaves behind when its job ends.
Finish(t) ==
    /\ Goto(t, "idle")
    /\ pool' = [pool EXCEPT ![t] = {}] /\ v3' = [v3 EXCEPT ![t] = FALSE]
    /\ index' = [index EXCEPT ![t] = <<>>] /\ reg' = [reg EXCEPT ![t] = Empty]

locals == <<pool, v3, index, reg>>
plan == <<rm, add, want>>
fetch == <<metas, answer>>

LoadIndex(t) ==
    /\ pc[t] = "load_index"
    /\ index' = [index EXCEPT ![t] = token_index]
    /\ Goto(t, "store_index")
    /\ UNCHANGED <<alone, shared, world, pool, v3, reg, plan, fetch, held, cloned, counts, history>>

\* The clone with the pool's tokens, stored over whatever is there by now.
StoreIndex(t) ==
    \E p \in pool[t] :
      /\ pc[t] = "store_index"
      /\ token_index' = get_or_insert(get_or_insert(index[t], token0[p]), token1[p])
      /\ index' = [index EXCEPT ![t] = token_index']
      /\ Goto(t, "load_registry")
      /\ UNCHANGED <<alone, registry, graph, vertices, snapshot, pool_states, hot, world,
                     pool, v3, reg, plan, fetch, held, cloned, counts, history>>

LoadRegistry(t) ==
    /\ pc[t] \in {"load_registry", "load_removed", "load_warmed"}
    /\ reg' = [reg EXCEPT ![t] = registry]
    /\ Goto(t, CASE pc[t] = "load_registry" -> "store_registry"
                 [] pc[t] = "load_removed"  -> "store_removed"
                 [] pc[t] = "load_warmed"   -> "store_warmed")
    /\ UNCHANGED <<alone, shared, world, pool, v3, index, plan, fetch, held, cloned, counts, history>>

\* The metadata register_pool builds from its own clone of the index.
Metadata(t, p) ==
    [i0 |-> get_index(index[t], token0[p]), i1 |-> get_index(index[t], token1[p]),
     v3 |-> v3[t], warmed |-> FALSE]

StoreRegistry(t) ==
    \E p \in pool[t] :
      /\ pc[t] = "store_registry"
      /\ registry' = Over(reg[t], One(p, Metadata(t, p)))
      /\ Goto(t, "add_edges")
      /\ UNCHANGED <<alone, token_index, graph, vertices, snapshot, pool_states, hot, world,
                     locals, plan, fetch, held, cloned, counts, history>>

\* Mutant: the graph is not resized for the pool's new tokens.
AddEdgesUnsized(t) ==
    \E p \in pool[t] :
      /\ pc[t] = "add_edges"
      /\ vertices' = vertices
      /\ graph' = add_edge(graph, Edge(p, Metadata(t, p)), 0)
      /\ IF t = "loop" THEN Finish(t)
         ELSE /\ Goto(t, IF t = "sync" THEN "load_warmed" ELSE "next")
              /\ UNCHANGED locals
      /\ UNCHANGED <<alone, token_index, registry, snapshot, pool_states, hot, world,
                     plan, fetch, held, cloned, counts, history>>

\* Under the graph lock: resize, then the placeholder edges.
AddEdges(t) ==
    \E p \in pool[t] :
      /\ pc[t] = "add_edges"
      /\ vertices' = IF Len(index[t]) > vertices THEN Len(index[t]) ELSE vertices
      /\ graph' = add_edge(graph, Edge(p, Metadata(t, p)), 0)
      /\ IF t = "loop" THEN Finish(t)
         ELSE /\ Goto(t, IF t = "sync" THEN "load_warmed" ELSE "next")
              /\ UNCHANGED locals
      /\ UNCHANGED <<alone, token_index, registry, snapshot, pool_states, hot, world,
                     plan, fetch, held, cloned, counts, history>>

mark_pool_bytecode_warmed(t) ==
    \E p \in pool[t] :
      /\ pc[t] = "store_warmed"
      /\ registry' = IF p \in DOMAIN reg[t]
                     THEN [reg[t] EXCEPT ![p].warmed = TRUE] ELSE registry
      /\ Goto(t, "next")
      /\ UNCHANGED <<alone, token_index, graph, vertices, snapshot, pool_states, hot, world,
                     locals, plan, fetch, held, cloned, counts, history>>

\* sync_hot_cache_pools first removes what left the hot set ...
RemoveNext(t) ==
    /\ pc[t] = "remove"
    /\ \/ /\ rm = {} /\ Goto(t, "next") /\ UNCHANGED <<rm, pool, v3>>
       \/ \E p \in rm :
            /\ rm' = rm \ {p}
            /\ IF p \in DOMAIN registry
               THEN /\ pool' = [pool EXCEPT ![t] = {p}]
                    /\ v3' = [v3 EXCEPT ![t] = registry[p].v3]
                    /\ Goto(t, "load_removed")
               ELSE UNCHANGED <<pc, pool, v3>>
    /\ UNCHANGED <<alone, shared, world, index, reg, add, want, fetch, held, cloned, counts, history>>

StoreRemoved(t) ==
    \E p \in pool[t] :
      /\ pc[t] = "store_removed"
      /\ registry' = Only(reg[t], Pools \ {p})
      /\ Goto(t, "unlink")
      /\ UNCHANGED <<alone, token_index, graph, vertices, snapshot, pool_states, hot, world,
                     locals, plan, fetch, held, cloned, counts, history>>

\* Under the graph lock: the edges go, and the whole graph is published.
Unlink(t) ==
    \E p \in pool[t] :
      /\ pc[t] = "unlink"
      /\ graph' = remove_pool_edges(graph, p, v3[t])
      /\ snapshot' = Contents(graph')
      /\ Goto(t, "forget")
      /\ UNCHANGED <<alone, token_index, registry, vertices, pool_states, hot, world,
                     locals, plan, fetch, held, cloned, counts, history>>

Forget(t) ==
    \E p \in pool[t] :
      /\ pc[t] = "forget"
      /\ pool_states' = Only(pool_states, Pools \ {p})
      /\ Goto(t, "remove")
      /\ UNCHANGED <<alone, token_index, registry, graph, vertices, snapshot, hot, world,
                     locals, plan, fetch, held, cloned, counts, history>>

\* ... then, like bootstrap_pools, registers the pools that are not there yet.
RegisterNext(t) ==
    /\ pc[t] = "next"
    /\ \/ /\ add[t] = {} /\ Goto(t, "collect") /\ UNCHANGED <<add, pool, v3>>
       \/ \E p \in add[t] :
            /\ add' = [add EXCEPT ![t] = @ \ {p}]
            /\ IF p \in DOMAIN registry THEN UNCHANGED <<pc, pool, v3>>
               ELSE /\ pool' = [pool EXCEPT ![t] = {p}]
                    /\ v3' = [v3 EXCEPT ![t] = p \in V3]
                    /\ Goto(t, "load_index")
    /\ UNCHANGED <<alone, shared, world, index, reg, rm, want, fetch, held, cloned, counts, history>>

-----------------------------------------------------------------------------
(* fetch_initial_reserves_filtered: collect, ask the node, seed.           *)

Skipped == -1       \* the call failed or did not decode
Quarantined == -2   \* the contract's tokens are not the configured ones

Collect(t) ==
    /\ pc[t] = "collect"
    /\ LET mine == IF t = "sync" THEN Only(registry, want) ELSE registry
       IN  IF mine = Empty THEN Finish(t) /\ UNCHANGED metas
           ELSE /\ metas' = [metas EXCEPT ![t] = mine]
                /\ Goto(t, "rpc") /\ UNCHANGED locals
    /\ want' = IF t = "sync" THEN {} ELSE want
    /\ UNCHANGED <<alone, shared, world, rm, add, answer, held, cloned, counts, history>>

\* A call of the wrong protocol fails; the others may.
Answers(p, meta) ==
    IF meta.v3 = (p \in V3) THEN {chain[p], Skipped, Quarantined} ELSE {Skipped}

Ask(t) ==
    /\ pc[t] = "rpc"
    /\ \E a \in [DOMAIN metas[t] -> UNION {Answers(p, metas[t][p]) : p \in DOMAIN metas[t]}] :
         /\ \A p \in DOMAIN metas[t] : a[p] \in Answers(p, metas[t][p])
         /\ answer' = [answer EXCEPT ![t] = a]
    /\ Goto(t, "seed")
    /\ UNCHANGED <<alone, shared, world, locals, plan, metas, held, cloned, counts, history>>

\* The graph after the answer a about the pool of edge e.
Seeded(g, e, a) ==
    CASE a = Skipped -> set_edge_filtered(g, e)
      [] a # Skipped /\ ~Priced(a) -> g
      [] OTHER -> IF e.v3 THEN price_v3(g, e, a) ELSE update_edge_from_reserves(g, e, a)

\* An answer older than what the pool holds now is only repaired by an update
\* still on its way.
Overtaken(t, S) ==
    {p \in S : /\ Priced(answer[t][p]) /\ answer[t][p] < chain[p]
               /\ ~\E i \in 1..Len(events) : events[i].pool = p
               /\ ~\E h \in held : h.pool = p}

\* The answers about S are applied in one critical section.
SeedAll(t, S) ==
    LET m == metas[t]
        edges == {Edge(p, m[p]) : p \in S}
        after(e) == Seeded(graph, e, answer[t][e.pool])
        priced == {p \in S : Priced(answer[t][p])}
    IN  /\ graph' = [e \in DOMAIN graph \union UNION {DOMAIN after(e) : e \in edges} |->
                        IF e \in edges THEN after(e)[e] ELSE graph[e]]
        /\ pool_states' = Over(pool_states, [p \in priced |-> answer[t][p]])
        /\ missed' = missed \union Overtaken(t, S)
                            \union (IF t = "boot" THEN S \ priced ELSE {})

\* Seeding ends with a publication.  An index beyond the graph's vertices
\* panics on the way, and the task dies: some pools are seeded, nothing is
\* published.  A request of its own dies alone.
Seed(t) ==
    /\ pc[t] = "seed"
    /\ LET good == {p \in DOMAIN metas[t] : InBounds(metas[t][p])}
       IN  IF good = DOMAIN metas[t]
           THEN SeedAll(t, good) /\ snapshot' = Contents(graph') /\ Finish(t)
           ELSE /\ \E S \in SUBSET good : SeedAll(t, S)
                /\ Goto(t, IF t = "reload" THEN "idle" ELSE "panicked")
                /\ UNCHANGED <<snapshot, locals>>
    /\ metas' = [metas EXCEPT ![t] = Empty] /\ answer' = [answer EXCEPT ![t] = Empty]
    /\ UNCHANGED <<alone, token_index, registry, vertices, hot, world, plan, held, cloned,
                   counts, seen, outside>>

-----------------------------------------------------------------------------
(* The event loop.                                                         *)

\* handle_pool_update up to the graph lock.
TakeEvent ==
    /\ Booted /\ pc["loop"] = "idle" /\ events # <<>>
    /\ events' = Tail(events)
    /\ LET e == Head(events)
       IN  CASE e.created ->
                  /\ pool' = [pool EXCEPT !["loop"] = {e.pool}]
                  /\ Goto("loop", "load_index")     \* as UniswapV2, whatever it is
                  /\ UNCHANGED <<held, v3>>
             [] ~e.created /\ e.pool \in DOMAIN registry ->
                  /\ held' = {[pool |-> e.pool, meta |-> registry[e.pool], value |-> e.value]}
                  /\ Goto("loop", "price")
                  /\ UNCHANGED <<pool, v3>>
             [] OTHER -> UNCHANGED <<held, pc, pool, v3>>
    /\ UNCHANGED <<alone, shared, created, chain, index, reg, plan, fetch, cloned, counts, history>>

\* The update itself, under the graph lock: the event's kind is the pool's own,
\* the edge is the metadata's.  One that carries no price changes nothing.
Price ==
    \E h \in held :
      /\ pc["loop"] = "price"
      /\ LET e == Edge(h.pool, h.meta)
         IN  IF ~Priced(h.value) THEN Goto("loop", "idle") /\ UNCHANGED <<graph, pool_states>>
             ELSE IF InBounds(h.meta)
             THEN /\ graph' = IF h.pool \in V3 THEN price_v3(graph, e, h.value)
                              ELSE update_edge_from_reserves(graph, e, h.value)
                  /\ pool_states' = IF h.pool \notin V3 /\ h.meta.v3 THEN pool_states
                                    ELSE Over(pool_states, One(h.pool, h.value))
                  /\ Goto("loop", "idle")
             ELSE Goto("loop", "panicked") /\ UNCHANGED <<graph, pool_states>>
      /\ held' = {}
      /\ missed' = IF h.value = chain[h.pool] THEN missed \ {h.pool} ELSE missed
      /\ UNCHANGED <<alone, token_index, registry, vertices, snapshot, hot, world, locals,
                     plan, fetch, cloned, counts, seen, outside>>

\* handle_new_block and the start of run_detection_cycle: clone, keep the hot
\* pools, clear the dirty flags, in one critical section.  The detector scans
\* from the dirty edges of the clone, or all of it when there is none.
StartDetection ==
    /\ Booted /\ pc["loop"] = "idle"
    /\ LET clone == clone_retaining_pools(graph)
           dirty == {e \in DOMAIN clone : clone[e].dirty}
           scan == IF dirty = {} THEN DOMAIN clone ELSE dirty
       IN  /\ cloned' = Contents(clone)
           /\ seen' = Only(Over(seen, Only(Contents(clone), scan)), DOMAIN graph)
           /\ outside' = (outside \union {e \in DOMAIN graph : graph[e].dirty}) \ scan
    /\ graph' = clear_dirty(graph)
    /\ Goto("loop", "publish")
    /\ UNCHANGED <<alone, token_index, registry, vertices, snapshot, pool_states, hot, world,
                   locals, plan, fetch, held, counts, missed>>

\* The clone is published after the scan, without the graph lock.
Publish ==
    /\ pc["loop"] = "publish"
    /\ snapshot' = cloned /\ cloned' = Empty
    /\ Goto("loop", "idle")
    /\ UNCHANGED <<alone, token_index, registry, graph, vertices, pool_states, hot, world,
                   locals, plan, fetch, held, counts, history>>

-----------------------------------------------------------------------------
(* Jobs of the other tasks, and the chain.                                 *)

\* refresh_once and the start of sync_hot_cache_pools: the hot set is replaced
\* first.  The bytecode of some of the added pools is prewarmed; the others are
\* neither registered nor fetched.
RefreshHotCache ==
    /\ Booted /\ ~alone /\ pc["sync"] = "idle" /\ syncs > 0
    /\ \E top \in SUBSET created \ {hot} :
         /\ hot' = top
         /\ rm' = hot \ top
         /\ \E warmed \in SUBSET (top \ hot) :
              want' = warmed /\ add' = [add EXCEPT !["sync"] = warmed]
    /\ syncs' = syncs - 1
    /\ Goto("sync", "remove")
    /\ UNCHANGED <<alone, token_index, registry, graph, vertices, snapshot, pool_states, world,
                   locals, fetch, held, cloned, trades, jobs, history>>

\* ReloadConfig: bootstrap_pools on a file, then fetch_initial_reserves.
ReloadConfig ==
    /\ Booted /\ ~alone /\ pc["reload"] = "idle" /\ jobs > 0
    /\ \E file \in SUBSET created : add' = [add EXCEPT !["reload"] = file]
    /\ jobs' = jobs - 1
    /\ Goto("reload", "next")
    /\ UNCHANGED <<alone, shared, world, locals, rm, want, fetch, held, cloned, trades, syncs, history>>

RefreshPoolStates ==
    /\ Booted /\ pc["refresh"] = "idle" /\ jobs > 0
    /\ jobs' = jobs - 1
    /\ Goto("refresh", "collect")
    /\ UNCHANGED <<alone, shared, world, locals, plan, fetch, held, cloned, trades, syncs, history>>

\* dispatch_pool_update: nobody listens before the event loop runs, and a full
\* channel drops its oldest event.
Dispatch(e) ==
    LET queue == Append(events, e)
        full == Len(queue) > QueueCap
    IN  IF ~Booted THEN missed' = missed \union {e.pool} /\ UNCHANGED events
        ELSE /\ events' = IF full THEN Tail(queue) ELSE queue
             /\ missed' = IF full THEN missed \union {Head(queue).pool} ELSE missed

\* A trade or a change of liquidity, with its Sync or Swap log.
Trade(p) ==
    /\ p \in created /\ trades > 0
    /\ chain' = [chain EXCEPT ![p] = @ + 1]
    /\ trades' = trades - 1
    /\ Dispatch([pool |-> p, created |-> FALSE, value |-> chain[p] + 1])
    /\ UNCHANGED <<alone, shared, created, tasks, syncs, jobs, seen, outside>>

Create(p) ==
    /\ p \notin created
    /\ created' = created \union {p}
    /\ Dispatch([pool |-> p, created |-> TRUE, value |-> 0])
    /\ UNCHANGED <<alone, shared, chain, tasks, counts, seen, outside>>

\* main registers the pools of pools.toml and fetches their reserves before it
\* starts anything else.
EngineInit ==
    /\ \E w \in Workloads :
         alone = w.alone /\ trades = w.trades /\ syncs = w.syncs /\ jobs = w.jobs
    /\ token_index = <<>> /\ registry = Empty /\ graph = Empty /\ vertices = InitialVertices
    /\ snapshot = Empty /\ pool_states = Empty /\ hot = {}
    /\ created = Static /\ chain = [p \in Pools |-> IF p \in Static THEN 1 ELSE 0]
    /\ events = <<>>
    /\ pc = [t \in Tasks |-> IF t = "boot" THEN "next" ELSE "idle"]
    /\ pool = [t \in Tasks |-> {}] /\ v3 = [t \in Tasks |-> FALSE]
    /\ index = [t \in Tasks |-> <<>>] /\ reg = [t \in Tasks |-> Empty]
    /\ rm = {} /\ add = [t \in Tasks |-> IF t = "boot" THEN Static ELSE {}] /\ want = {}
    /\ metas = [t \in Tasks |-> Empty] /\ answer = [t \in Tasks |-> Empty]
    /\ held = {} /\ cloned = Empty
    /\ seen = Empty /\ outside = {} /\ missed = {}

Registering(t) ==
    \/ LoadIndex(t) \/ StoreIndex(t) \/ LoadRegistry(t) \/ StoreRegistry(t) \/ AddEdges(t)

Step(t) ==
    \/ Registering(t) \/ mark_pool_bytecode_warmed(t)
    \/ RemoveNext(t) \/ StoreRemoved(t) \/ Unlink(t) \/ Forget(t)
    \/ RegisterNext(t) \/ Collect(t) \/ Ask(t) \/ Seed(t)

EngineNext ==
    \/ \E t \in Tasks : Step(t)
    \/ TakeEvent \/ Price \/ StartDetection \/ Publish
    \/ RefreshHotCache \/ ReloadConfig \/ RefreshPoolStates
    \/ \E p \in Pools : Trade(p) \/ Create(p)

EngineSpec == EngineInit /\ [][EngineNext]_vars

\* main boots, the event loop runs on, blocks keep coming, and select! picks
\* among the ready channels at random, so a waiting event is taken in the end
\* although blocks compete with it.  Only PricesCatchUp uses it, which is about
\* the engine alone.
EngineFairness ==
    /\ WF_vars(alone /\ Step("boot"))
    /\ WF_vars(alone /\ (Step("loop") \/ Price \/ StartDetection \/ Publish))
    /\ SF_vars(alone /\ TakeEvent)

FairEngineSpec == EngineSpec /\ EngineFairness

-----------------------------------------------------------------------------
(***************************************************************************)
(* Properties.                                                             *)
(***************************************************************************)
EdgeId == [pool : Pools, v3 : BOOLEAN, i0 : Nat \ {0}, i1 : Nat \ {0}]
EdgeContent == [rate : Nat, reserves : Nat, filtered : BOOLEAN]
PriceEdge == [rate : Nat, reserves : Nat, filtered : BOOLEAN, dirty : BOOLEAN]
PoolMetadata == [i0 : Nat \ {0}, i1 : Nat \ {0}, v3 : BOOLEAN, warmed : BOOLEAN]
PoolEvent == [pool : Pools, created : BOOLEAN, value : Nat]

\* f is a function from a part of S to T.
Partial(f, S, T) == /\ f = [x \in DOMAIN f |-> f[x]]
                    /\ DOMAIN f \subseteq S /\ \A x \in DOMAIN f : f[x] \in T

\* The types of the engine's shared state and of its tasks' local copies.
EngineTypeOK ==
    /\ alone \in BOOLEAN /\ token_index \in Seq(Tokens) /\ vertices \in Nat
    /\ Partial(registry, Pools, PoolMetadata)
    /\ Partial(graph, EdgeId, PriceEdge)
    /\ Partial(snapshot, EdgeId, EdgeContent) /\ Partial(cloned, EdgeId, EdgeContent)
    /\ Partial(seen, EdgeId, EdgeContent) /\ outside \subseteq EdgeId
    /\ Partial(pool_states, Pools, Nat)
    /\ {hot, created, rm, want, missed} \subseteq SUBSET Pools
    /\ chain \in [Pools -> Nat] /\ events \in Seq(PoolEvent) /\ {trades, syncs, jobs} \subseteq Nat
    /\ pool \in [Tasks -> SUBSET Pools] /\ add \in [Tasks -> SUBSET Pools]
    /\ v3 \in [Tasks -> BOOLEAN] /\ index \in [Tasks -> Seq(Tokens)]
    /\ \A t \in Tasks : /\ Partial(reg[t], Pools, PoolMetadata)
                        /\ Partial(metas[t], Pools, PoolMetadata)
                        /\ Partial(answer[t], Pools, Nat \union {Skipped, Quarantined})
    /\ held \subseteq [pool : Pools, meta : PoolMetadata, value : Nat]

\* No price change escapes the detector: an edge whose dirty flag is down has
\* the very content the detector last scanned, however events, fetches,
\* registrations and removals fall around the clone-and-clear of
\* run_detection_cycle.  The exception is an edge whose flag was cleared while
\* its pool was outside the hot set, which needs a hot cache.
ScannedOrDirty ==
    /\ \A e \in DOMAIN graph :
         graph[e].dirty \/ e \in outside
            \/ (e \in DOMAIN seen /\ seen[e] = Content(graph[e]))
    /\ alone => outside = {}

\* A registered pool's vertex indices name its own tokens in token_index, which
\* is how a cycle over the graph becomes the hops of a trade.
IndexAgrees ==
    \A p \in DOMAIN registry :
      /\ registry[p].i0 <= Len(token_index) /\ token_index[registry[p].i0] = token0[p]
      /\ registry[p].i1 <= Len(token_index) /\ token_index[registry[p].i1] = token1[p]

\* register_pool is safe where its comment's premise holds, that only the event
\* loop (and main before it) calls it: the indices agree, every edge of the
\* graph is that of a registered pool, and no index beyond the graph ever kills
\* the event loop.  Whoever calls it, the state keeps its types.
RegistrationSafe ==
    /\ EngineTypeOK
    /\ alone => /\ IndexAgrees
                /\ \A e \in DOMAIN graph :
                     e.pool \in DOMAIN registry /\ e = Edge(e.pool, registry[e.pool])
                /\ pc["loop"] # "panicked"

\* Without a hot cache the published graph keeps catching up with the chain:
\* again and again every registered pool has its current price in the
\* snapshot, but for pools whose first fetch failed or one of whose updates was
\* lost (sent before the loop listened, dropped by the full channel) or
\* overwritten by an older answer, until their next update; a pool that holds
\* nothing to price keeps what it had.
PricesCatchUp ==
    alone => []<>(\A p \in DOMAIN registry \ missed :
                    LET e == Edge(p, registry[p])
                    IN  Priced(chain[p]) => e \in DOMAIN snapshot /\ snapshot[e].rate = chain[p])

-----------------------------------------------------------------------------
(* The instance of the runs: a configured V2 pool and a V3 pool that share *)
(* a token.                                                                *)

mcToken0 == [p \in Pools |-> IF p = "static" THEN "weth" ELSE "dai"]
mcToken1 == [p \in Pools |-> IF p = "static" THEN "usdc" ELSE "weth"]

Work(a, t, s, j) == [alone |-> a, trades |-> t, syncs |-> s, jobs |-> j]
mcWorkloads == {Work(TRUE, 2, 0, 1),
                Work(FALSE, 1, 1, 0), Work(FALSE, 1, 0, 1), Work(FALSE, 0, 2, 0)}
=============================================================================
