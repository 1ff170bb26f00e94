------------------------- MODULE PriceEngineProofs -------------------------
(***************************************************************************)
(* For any pools, tokens, tasks' interleaving and answers of the node: no  *)
(* change of an edge escapes the detector, the engine's state keeps its    *)
(* types, and registration is safe where only main and then the event loop *)
(* register pools.                                                         *)
(***************************************************************************)
EXTENDS PriceEngine, TLAPS

\* How long a solver may take for a leaf.
USE ZenonT(20), SMTT(20)

\* Every edge of h is dirty or was in g as it is.
Flagged(g, h) == \A e \in DOMAIN h : h[e].dirty = TRUE \/ (e \in DOMAIN g /\ h[e] = g[e])

\* The edge is up for the next scan, or was scanned as it is, or was cleared
\* outside the hot set.
Accounted(edge, e) ==
    edge.dirty = TRUE \/ e \in outside \/ (e \in DOMAIN seen /\ seen[e] = Content(edge))

\* The inductive invariant: ScannedOrDirty, and that the hot set stays empty
\* without discovery.
ScanInv ==
    /\ \A e \in DOMAIN graph : Accounted(graph[e], e)
    /\ alone => outside = {} /\ hot = {}

-----------------------------------------------------------------------------
(* What the operations of the price graph do to the flags.                 *)

\* Over with a written edge.
LEMMA WrittenFlags ==
    ASSUME NEW g, NEW e, NEW rate, NEW reserves, NEW filtered
    PROVE  Flagged(g, Over(g, One(e, Written(rate, reserves, filtered))))
  BY DEF Flagged, Over, One, Written

\* Over adds the one edge it writes.
LEMMA OverDomain == \A g, e, x : DOMAIN Over(g, One(e, x)) = DOMAIN g \union {e}
  BY DEF Over, One

\* Nothing written, nothing to flag.
LEMMA SameFlags == \A g : Flagged(g, g)
  BY DEF Flagged

\* add_edge (price_graph.rs) raises the flag of the edge it writes and leaves the
\* others alone.
LEMMA AddEdgeFlags ==
    ASSUME NEW g, NEW e, NEW rate
    PROVE  Flagged(g, add_edge(g, e, rate))
  BY WrittenFlags DEF add_edge

\* update_edge_from_reserves raises the flag of an edge it finds.
LEMMA UpdateFlags ==
    ASSUME NEW g, NEW e, NEW v
    PROVE  Flagged(g, update_edge_from_reserves(g, e, v))
  BY WrittenFlags, SameFlags DEF update_edge_from_reserves

\* set_edge_filtered raises the flag too.
LEMMA FilterFlags ==
    ASSUME NEW g, NEW e
    PROVE  Flagged(g, set_edge_filtered(g, e))
  BY WrittenFlags, SameFlags DEF set_edge_filtered

\* remove_pool_edges carries the flags of the surviving edges over.
LEMMA RemoveFlags ==
    ASSUME NEW g, NEW p, NEW isV3
    PROVE Flagged(g, remove_pool_edges(g, p, isV3))
  BY DEF Flagged, remove_pool_edges, Only

\* Both steps of a V3 update raise the flag.
LEMMA PriceV3Flags ==
    ASSUME NEW g, NEW e, NEW v
    PROVE  Flagged(g, price_v3(g, e, v))
<1> DEFINE spot == add_edge(g, e, v)
<1>1. Flagged(g, spot)
  BY AddEdgeFlags
<1>2. Flagged(spot, update_edge_from_reserves(spot, e, v))
  BY <1>1, UpdateFlags
<1>3. price_v3(g, e, v) = IF v \in Thin THEN spot ELSE update_edge_from_reserves(spot, e, v)
  BY DEF price_v3
<1> HIDE DEF spot
<1>4. Flagged(g, update_edge_from_reserves(spot, e, v))
  BY <1>1, <1>2 DEF Flagged
<1> QED
  BY <1>1, <1>2, <1>3, <1>4

\* An update adds no edge.
LEMMA KeepDomain ==
    ASSUME NEW g, NEW e
    PROVE  /\ \A v : DOMAIN update_edge_from_reserves(g, e, v) = DOMAIN g
           /\ DOMAIN set_edge_filtered(g, e) = DOMAIN g
<1>1. CASE e \in DOMAIN g
  <2>1. DOMAIN g \union {e} = DOMAIN g
    BY <1>1
  <2> QED
    BY <1>1, <2>1, OverDomain DEF update_edge_from_reserves, set_edge_filtered
<1>2. CASE e \notin DOMAIN g
  BY <1>2 DEF update_edge_from_reserves, set_edge_filtered
<1> QED
  BY <1>1, <1>2

\* Whatever the node answered for a pool, the change it makes is flagged and
\* adds no other edge.
LEMMA SeededFlags ==
    ASSUME NEW g, NEW e, NEW a
    PROVE  /\ Flagged(g, Seeded(g, e, a))
           /\ DOMAIN Seeded(g, e, a) \subseteq DOMAIN g \union {e}
           /\ DOMAIN g \subseteq DOMAIN Seeded(g, e, a)
<1>1. CASE a = Skipped
  <2>1. Seeded(g, e, a) = set_edge_filtered(g, e)
    BY <1>1 DEF Seeded
  <2>2. DOMAIN set_edge_filtered(g, e) = DOMAIN g
    BY KeepDomain
  <2> QED
    BY <2>1, <2>2, FilterFlags
<1>2. CASE a # Skipped /\ ~Priced(a)
  <2>1. Seeded(g, e, a) = g
    BY <1>2 DEF Seeded
  <2> QED
    BY <2>1, SameFlags
<1>3. CASE a # Skipped /\ Priced(a)
  <2>1. Seeded(g, e, a) = IF e.v3 THEN price_v3(g, e, a) ELSE update_edge_from_reserves(g, e, a)
    BY <1>3 DEF Seeded
  <2>2. DOMAIN add_edge(g, e, a) = DOMAIN g \union {e}
    BY OverDomain DEF add_edge
  <2>3. DOMAIN update_edge_from_reserves(add_edge(g, e, a), e, a) = DOMAIN add_edge(g, e, a)
    BY KeepDomain
  <2>4. DOMAIN price_v3(g, e, a) = DOMAIN g \union {e}
    BY <2>2, <2>3 DEF price_v3
  <2>5. DOMAIN update_edge_from_reserves(g, e, a) = DOMAIN g
    BY KeepDomain
  <2> QED
    BY <2>1, <2>4, <2>5, PriceV3Flags, UpdateFlags
<1> QED
  BY <1>1, <1>2, <1>3

-----------------------------------------------------------------------------
(* ScanInv is inductive.                                                   *)

\* A step that changes the graph only through flagged writes keeps every edge
\* accounted for.
LEMMA FlaggedKeeps ==
    ASSUME ScanInv, Flagged(graph, graph'), UNCHANGED <<alone, hot, seen, outside>>
    PROVE  ScanInv'
<1>1. \A e \in DOMAIN graph' : Accounted(graph[e], e)' \/ graph'[e].dirty = TRUE
  BY DEF ScanInv, Flagged, Accounted
<1>2. \A e \in DOMAIN graph' : Accounted(graph[e], e)'
  BY <1>1 DEF Accounted
<1> QED
  BY <1>2 DEF ScanInv

\* Before anything is registered there is nothing to scan.
LEMMA ScanInit == EngineInit => ScanInv
  BY DEF EngineInit, ScanInv, Empty

\* Seeding the answers about any part of the pools is a flagged write.
LEMMA SeedAllFlags ==
    ASSUME NEW t, NEW S, SeedAll(t, S)
    PROVE  Flagged(graph, graph')
<1> DEFINE edges == {Edge(p, metas[t][p]) : p \in S}
           after(e) == Seeded(graph, e, answer[t][e.pool])
<1>1. graph' = [e \in DOMAIN graph \union UNION {DOMAIN after(e) : e \in edges} |->
                   IF e \in edges THEN after(e)[e] ELSE graph[e]]
  BY DEF SeedAll
<1>2. \A e : /\ Flagged(graph, after(e))
             /\ DOMAIN after(e) \subseteq DOMAIN graph \union {e}
             /\ DOMAIN graph \subseteq DOMAIN after(e)
  BY SeededFlags
<1> HIDE DEF edges, after
<1> SUFFICES ASSUME NEW e \in DOMAIN graph'
             PROVE  graph'[e].dirty = TRUE \/ (e \in DOMAIN graph /\ graph'[e] = graph[e])
  BY DEF Flagged
<1>3. CASE e \in edges
  <2>1. e \in DOMAIN after(e)
    BY <1>1, <1>2, SMTT(20)
  <2>2. graph'[e] = after(e)[e]
    BY <1>1, <1>3
  <2> QED
    BY <1>2, <2>1, <2>2 DEF Flagged
<1>4. CASE e \notin edges
  <2>1. e \in DOMAIN graph
    BY <1>1, <1>2, <1>4
  <2> QED
    BY <1>1, <1>4, <2>1
<1> QED
  BY <1>3, <1>4

\* The clone, the filter and the clearing of the flags, in one critical section.
LEMMA DetectionKeeps == ScanInv /\ StartDetection => ScanInv'
<1> SUFFICES ASSUME ScanInv, StartDetection PROVE ScanInv'
  OBVIOUS
<1> DEFINE clone == clone_retaining_pools(graph)
           dirty == {e \in DOMAIN clone : clone[e].dirty}
           scan == IF dirty = {} THEN DOMAIN clone ELSE dirty
<1>1. /\ seen' = Only(Over(seen, Only(Contents(clone), scan)), DOMAIN graph)
      /\ outside' = (outside \union {e \in DOMAIN graph : graph[e].dirty}) \ scan
      /\ graph' = clear_dirty(graph)
      /\ UNCHANGED <<alone, hot>>
  BY DEF StartDetection
<1>2. /\ DOMAIN clone \subseteq DOMAIN graph
      /\ \A e \in DOMAIN clone : clone[e] = graph[e]
      /\ hot = {} => clone = graph
  BY DEF clone_retaining_pools, Only
<1>3. scan \subseteq DOMAIN clone
  OBVIOUS
<1>4. hot = {} => {e \in DOMAIN graph : graph[e].dirty} \subseteq scan
  BY <1>2
<1> HIDE DEF clone, dirty, scan
<1>5. ASSUME NEW e \in DOMAIN graph'
      PROVE  Accounted(graph[e], e)'
  <2>1. e \in DOMAIN graph /\ Content(graph'[e]) = Content(graph[e])
    BY <1>1 DEF clear_dirty, Content
  <2>2. CASE e \in scan
    <3>1. Contents(clone)[e] = Content(graph[e])
      BY <1>2, <1>3, <2>2 DEF Contents
    <3>2. e \in DOMAIN Only(Contents(clone), scan)
          /\ Only(Contents(clone), scan)[e] = Content(graph[e])
      BY <1>3, <2>2, <3>1 DEF Only, Contents
    <3>3. e \in DOMAIN seen' /\ seen'[e] = Content(graph[e])
      BY <1>1, <2>1, <3>2 DEF Only, Over
    <3> QED
      BY <2>1, <3>3 DEF Accounted
  <2>3. CASE e \notin scan /\ (e \in outside \/ graph[e].dirty)
    BY <1>1, <2>1, <2>3 DEF Accounted
  <2>4. CASE e \notin scan /\ e \notin outside /\ ~graph[e].dirty
    <3>1. e \in DOMAIN seen /\ seen[e] = Content(graph[e])
      BY <2>1, <2>4 DEF ScanInv, Accounted
    <3>2. e \in DOMAIN seen' /\ seen'[e] = seen[e]
      BY <1>1, <2>1, <2>4, <3>1 DEF Only, Over
    <3> QED
      BY <2>1, <3>1, <3>2 DEF Accounted
  <2> QED
    BY <2>2, <2>3, <2>4
<1>6. alone' => outside' = {} /\ hot' = {}
  BY <1>1, <1>4 DEF ScanInv
<1> QED
  BY <1>5, <1>6 DEF ScanInv

\* Every step keeps ScanInv.
LEMMA ScanNext == ScanInv /\ [EngineNext]_vars => ScanInv'
<1> SUFFICES ASSUME ScanInv, [EngineNext]_vars PROVE ScanInv'
  OBVIOUS
<1> DEFINE Same == UNCHANGED <<alone, hot, seen, outside>>
<1>1. ASSUME NEW t \in Tasks, Step(t) PROVE ScanInv'
  <2>1. CASE LoadIndex(t) \/ StoreIndex(t) \/ LoadRegistry(t) \/ StoreRegistry(t)
    <3>1. UNCHANGED <<graph, alone, hot, seen, outside>>
      BY <2>1 DEF LoadIndex, StoreIndex, LoadRegistry, StoreRegistry, shared, history
    <3> QED
      BY <3>1, SameFlags, FlaggedKeeps
  <2>2. CASE AddEdges(t)
    <3>1. PICK p \in pool[t] : graph' = add_edge(graph, Edge(p, Metadata(t, p)), 0)
      BY <2>2 DEF AddEdges
    <3>2. Same
      BY <2>2 DEF AddEdges, history
    <3> QED
      BY <3>1, <3>2, AddEdgeFlags, FlaggedKeeps
  <2>3. CASE mark_pool_bytecode_warmed(t) \/ RemoveNext(t) \/ StoreRemoved(t) \/ Forget(t)
    <3>1. UNCHANGED <<graph, alone, hot, seen, outside>>
      BY <2>3 DEF mark_pool_bytecode_warmed, RemoveNext, StoreRemoved, Forget, shared, history
    <3> QED
      BY <3>1, SameFlags, FlaggedKeeps
  <2>4. CASE Unlink(t)
    <3>1. PICK p \in pool[t] : graph' = remove_pool_edges(graph, p, v3[t])
      BY <2>4 DEF Unlink
    <3>2. Same
      BY <2>4 DEF Unlink, history
    <3> QED
      BY <3>1, <3>2, RemoveFlags, FlaggedKeeps
  <2>5. CASE RegisterNext(t) \/ Collect(t) \/ Ask(t)
    <3>1. UNCHANGED <<graph, alone, hot, seen, outside>>
      BY <2>5 DEF RegisterNext, Collect, Ask, shared, history
    <3> QED
      BY <3>1, SameFlags, FlaggedKeeps
  <2>6. CASE Seed(t)
    <3>1. PICK S : SeedAll(t, S)
      BY <2>6 DEF Seed
    <3>2. Same
      BY <2>6 DEF Seed
    <3> QED
      BY <3>1, <3>2, SeedAllFlags, FlaggedKeeps
  <2> QED
    BY <1>1, <2>1, <2>2, <2>3, <2>4, <2>5, <2>6 DEF Step, Registering
<1>2. CASE TakeEvent \/ Publish \/ ReloadConfig \/ RefreshPoolStates
  <2>1. UNCHANGED <<graph, alone, hot, seen, outside>>
    BY <1>2 DEF TakeEvent, Publish, ReloadConfig, RefreshPoolStates, shared, history
  <2> QED
    BY <2>1, SameFlags, FlaggedKeeps
<1>3. CASE Price
  <2>1. Same
    BY <1>3 DEF Price
  <2>2. PICK h \in held :
          LET e == Edge(h.pool, h.meta)
          IN  \/ graph' = price_v3(graph, e, h.value)
              \/ graph' = update_edge_from_reserves(graph, e, h.value)
              \/ graph' = graph
    BY <1>3 DEF Price
  <2>3. Flagged(graph, graph')
    BY <2>2, PriceV3Flags, UpdateFlags, SameFlags
  <2> QED
    BY <2>1, <2>3, FlaggedKeeps
<1>4. CASE StartDetection
  BY <1>4, DetectionKeeps
<1>5. CASE RefreshHotCache
  <2>1. ~alone /\ UNCHANGED <<graph, alone, seen, outside>>
    BY <1>5 DEF RefreshHotCache, history
  <2> QED
    BY <2>1 DEF ScanInv, Accounted
<1>6. ASSUME NEW p \in Pools, Trade(p) \/ Create(p) PROVE ScanInv'
  <2>1. UNCHANGED <<graph, alone, hot, seen, outside>>
    BY <1>6 DEF Trade, Create, shared
  <2> QED
    BY <2>1, SameFlags, FlaggedKeeps
<1>7. CASE UNCHANGED vars
  <2>1. UNCHANGED <<graph, alone, hot, seen, outside>>
    BY <1>7 DEF vars, shared, history
  <2> QED
    BY <2>1, SameFlags, FlaggedKeeps
<1> QED
  BY <1>1, <1>2, <1>3, <1>4, <1>5, <1>6, <1>7 DEF EngineNext

\* No price change escapes the detector (engine.rs, run_detection_cycle): for
\* any pools, answers of the node and interleaving of the engine's tasks, an
\* edge that is not dirty was scanned as it is, or was cleared outside the hot
\* set, which never happens without discovery.
THEOREM NoEscape == EngineSpec => []ScannedOrDirty
<1>1. ScanInv => ScannedOrDirty
  BY DEF ScanInv, ScannedOrDirty, Accounted
<1> QED
  BY <1>1, ScanInit, ScanNext, PTL DEF EngineSpec

-----------------------------------------------------------------------------
(* Types, and registration where only main and then the event loop do it.  *)

Labels ==
    {"idle", "panicked", "load_index", "store_index", "load_registry", "store_registry",
     "add_edges", "load_warmed", "store_warmed", "remove", "load_removed", "store_removed",
     "unlink", "forget", "next", "collect", "rpc", "seed", "price", "publish"}

\* Where register_pool has stored its index and the graph has not grown yet, and
\* where it has not stored the pool yet.
Growing == {"load_registry", "store_registry", "add_edges"}
Unstored == {"load_index", "store_index", "load_registry", "store_registry"}

\* A task that builds metadata has the pool's tokens in its index, it is about one
\* pool at a time, and when about to seed it has an answer for each of its pools.
TaskInv(t) ==
    /\ pc[t] \in Growing =>
         \A p \in pool[t] : Has(index[t], token0[p]) /\ Has(index[t], token1[p])
    /\ \A p, q \in pool[t] : p = q
    /\ pc[t] = "seed" => DOMAIN answer[t] = DOMAIN metas[t]

\* The types, strengthened by what makes the metadata and the seeding well defined.
TypeInv ==
    /\ EngineTypeOK
    /\ pc \in [Tasks -> Labels]
    /\ DOMAIN reg = Tasks /\ DOMAIN metas = Tasks /\ DOMAIN answer = Tasks
    /\ \A t \in Tasks : TaskInv(t)

\* Which tasks run without discovery and ReloadConfig, and what each can be doing.
\* Nothing else starts before main has booted, and main registers what exists.
TasksAlone ==
    /\ pc["sync"] = "idle" /\ pc["reload"] = "idle"
    /\ pc["boot"] \in Unstored \union {"add_edges", "next", "collect", "rpc", "seed", "idle", "panicked"}
    /\ pc["loop"] \in Unstored \union {"add_edges", "price", "publish", "idle"}
    /\ pc["refresh"] \in {"collect", "rpc", "seed", "idle", "panicked"}
    /\ pc["boot"] # "idle" => pc["loop"] = "idle" /\ pc["refresh"] = "idle" /\ events = <<>>
    /\ add["boot"] \subseteq created

\* The copies of the task that registers are the shared values, and its pool is
\* registered by nobody else.
CopyAgrees(t) ==
    /\ pc[t] \in Growing \union {"store_index"} => index[t] = token_index
    /\ pc[t] = "store_registry" => reg[t] = registry
    /\ pc[t] \in Unstored => pool[t] \subseteq created \ DOMAIN registry
    /\ pc[t] = "add_edges" =>
         \A p \in pool[t] : p \in DOMAIN registry /\ registry[p] = Metadata(t, p)

\* The graph has room for every token while no registration is under way.
GraphCovers ==
    pc["boot"] \notin Growing /\ pc["loop"] \notin Growing => Len(token_index) <= vertices

\* What a task remembers of the registry is still there, and an update in hand is
\* for vertices of the graph.
RegistryKept ==
    /\ DOMAIN registry \subseteq created
    /\ \A t \in Tasks : \A p \in DOMAIN metas[t] :
         p \in DOMAIN registry /\ metas[t][p] = registry[p]
    /\ \A h \in held : /\ h.pool \in DOMAIN registry /\ h.meta = registry[h.pool]
                       /\ InBounds(h.meta)

\* Every edge is that of a registered pool.
EdgesRegistered ==
    \A e \in DOMAIN graph : e.pool \in DOMAIN registry /\ e = Edge(e.pool, registry[e.pool])

\* The pools whose creation is in the queue are in F, each once.
Once(queue, F) ==
    /\ \A i \in 1..Len(queue) : queue[i].created = TRUE => queue[i].pool \in F
    /\ \A i, j \in 1..Len(queue) :
         queue[i].created = TRUE /\ queue[j].created = TRUE /\ i # j
            => queue[i].pool # queue[j].pool

\* The pools that exist and that nobody has registered or is registering.
Free == (created \ DOMAIN registry) \ (IF pc["loop"] \in Unstored THEN pool["loop"] ELSE {})

\* The inductive invariant behind RegistrationSafe.
AloneInv ==
    /\ TasksAlone /\ CopyAgrees("boot") /\ CopyAgrees("loop") /\ GraphCovers
    /\ RegistryKept /\ IndexAgrees /\ EdgesRegistered /\ Once(events, Free)

-----------------------------------------------------------------------------
(* The operators keep the types.                                           *)

\* A partial function with one argument more, or with another on top.
LEMMA PartialOver ==
    ASSUME NEW S, NEW T, NEW f, NEW g, Partial(f, S, T), Partial(g, S, T)
    PROVE  Partial(Over(f, g), S, T)
  BY DEF Partial, Over

\* With one entry written.
LEMMA PartialOne ==
    ASSUME NEW S, NEW T, NEW f, NEW x \in S, NEW y \in T, Partial(f, S, T)
    PROVE  Partial(Over(f, One(x, y)), S, T)
<1>1. Partial(One(x, y), S, T)
  BY DEF Partial, One
<1> QED
  BY <1>1, PartialOver

\* A restriction of a partial function is one.
LEMMA PartialOnly ==
    ASSUME NEW S, NEW T, NEW f, NEW U, Partial(f, S, T)
    PROVE  Partial(Only(f, U), S, T)
  BY DEF Partial, Only

\* So is the empty one.
LEMMA PartialEmpty == \A S, T : Partial(Empty, S, T)
  BY DEF Partial, Empty

\* The records of the model have their types.
LEMMA WrittenType ==
    ASSUME NEW rate \in Nat, NEW reserves \in Nat, NEW filtered \in BOOLEAN
    PROVE  Written(rate, reserves, filtered) \in PriceEdge
  BY DEF Written, PriceEdge

\* The edge of a pool's metadata.
LEMMA EdgeType ==
    ASSUME NEW p \in Pools, NEW meta \in PoolMetadata
    PROVE  Edge(p, meta) \in EdgeId
  BY DEF Edge, PoolMetadata, EdgeId

\* A price graph is a partial function from edges to their content and flag.
IsGraph(g) == Partial(g, EdgeId, PriceEdge)

\* add_edge, update_edge_from_reserves and set_edge_filtered write edges.
LEMMA AddEdgeType ==
    ASSUME NEW g, NEW e \in EdgeId, NEW rate \in Nat, IsGraph(g)
    PROVE  IsGraph(add_edge(g, e, rate))
<1>1. CASE e \in DOMAIN g
  <2>1. g[e].reserves \in Nat /\ g[e].filtered \in BOOLEAN
    BY <1>1 DEF IsGraph, Partial, PriceEdge
  <2>2. Written(rate, g[e].reserves, g[e].filtered) \in PriceEdge
    BY <2>1, WrittenType
  <2> QED
    BY <1>1, <2>2, PartialOne DEF add_edge, IsGraph
<1>2. CASE e \notin DOMAIN g
  <2>1. Written(rate, 0, FALSE) \in PriceEdge
    BY WrittenType
  <2> QED
    BY <1>2, <2>1, PartialOne DEF add_edge, IsGraph
<1> QED
  BY <1>1, <1>2

\* update_edge_from_reserves keeps it, whether or not it finds the edge.
LEMMA UpdateType ==
    ASSUME NEW g, NEW e \in EdgeId, NEW v \in Nat, IsGraph(g)
    PROVE  IsGraph(update_edge_from_reserves(g, e, v))
<1>1. (~e.v3 /\ v \in Thin) \in BOOLEAN
  OBVIOUS
<1>2. Written(v, v, ~e.v3 /\ v \in Thin) \in PriceEdge
  BY <1>1, WrittenType
<1> QED
  BY <1>2, PartialOne DEF update_edge_from_reserves, IsGraph

\* So does set_edge_filtered.
LEMMA FilterType ==
    ASSUME NEW g, NEW e \in EdgeId, IsGraph(g)
    PROVE  IsGraph(set_edge_filtered(g, e))
<1>1. CASE e \in DOMAIN g
  <2>1. g[e].rate \in Nat /\ g[e].reserves \in Nat
    BY <1>1 DEF IsGraph, Partial, PriceEdge
  <2>2. Written(g[e].rate, g[e].reserves, TRUE) \in PriceEdge
    BY <2>1, WrittenType
  <2> QED
    BY <1>1, <2>2, PartialOne DEF set_edge_filtered, IsGraph
<1>2. CASE e \notin DOMAIN g
  BY <1>2 DEF set_edge_filtered
<1> QED
  BY <1>1, <1>2

\* So does a V3 event's pair of writes.
LEMMA PriceV3Type ==
    ASSUME NEW g, NEW e \in EdgeId, NEW v \in Nat, IsGraph(g)
    PROVE  IsGraph(price_v3(g, e, v))
<1>1. IsGraph(add_edge(g, e, v))
  BY AddEdgeType
<1>2. IsGraph(update_edge_from_reserves(add_edge(g, e, v), e, v))
  BY <1>1, UpdateType
<1> QED
  BY <1>1, <1>2 DEF price_v3

\* Whatever the node answers.
LEMMA SeededType ==
    ASSUME NEW g, NEW e \in EdgeId, NEW a \in Nat \union {Skipped, Quarantined}, IsGraph(g)
    PROVE  IsGraph(Seeded(g, e, a))
<1>1. CASE a = Skipped
  BY <1>1, FilterType DEF Seeded
<1>2. CASE a # Skipped /\ ~Priced(a)
  BY <1>2 DEF Seeded
<1>3. CASE a # Skipped /\ Priced(a)
  <2>1. a \in Nat
    BY <1>3 DEF Priced
  <2>2. Seeded(g, e, a) = IF e.v3 THEN price_v3(g, e, a) ELSE update_edge_from_reserves(g, e, a)
    BY <1>3 DEF Seeded
  <2> QED
    BY <2>1, <2>2, PriceV3Type, UpdateType
<1> QED
  BY <1>1, <1>2, <1>3

\* The graph without its flags, and with its flags down.
LEMMA ContentsType ==
    ASSUME NEW g, IsGraph(g)
    PROVE  Partial(Contents(g), EdgeId, EdgeContent) /\ IsGraph(clear_dirty(g))
<1>1. \A e \in DOMAIN g : /\ g[e].rate \in Nat /\ g[e].reserves \in Nat
                          /\ g[e].filtered \in BOOLEAN
  BY DEF IsGraph, Partial, PriceEdge
<1>2. \A e \in DOMAIN g : Content(g[e]) \in EdgeContent
  BY <1>1 DEF Content, EdgeContent
<1>3. Partial(Contents(g), EdgeId, EdgeContent)
  BY <1>2 DEF Contents, IsGraph, Partial
<1>4. \A e \in DOMAIN g : [rate |-> g[e].rate, reserves |-> g[e].reserves,
                           filtered |-> g[e].filtered, dirty |-> FALSE] \in PriceEdge
  BY <1>1 DEF PriceEdge
<1>5. IsGraph(clear_dirty(g))
  BY <1>4 DEF clear_dirty, IsGraph, Partial
<1> QED
  BY <1>3, <1>5

-----------------------------------------------------------------------------
(* The token index only grows.                                             *)

\* get_or_insert keeps what is there and has the token afterwards.
LEMMA InsertKeeps ==
    ASSUME NEW s \in Seq(Tokens), NEW x \in Tokens
    PROVE  LET r == get_or_insert(s, x)
           IN  /\ r \in Seq(Tokens) /\ Has(r, x) /\ Len(s) <= Len(r)
               /\ \A i \in 1..Len(s) : r[i] = s[i]
<1>1. CASE Has(s, x)
  BY <1>1, SMTT(20) DEF get_or_insert
<1>2. CASE ~Has(s, x)
  <2> DEFINE r == Append(s, x)
  <2>1. r \in Seq(Tokens) /\ Len(r) = Len(s) + 1 /\ r[Len(r)] = x /\ Len(s) \in Nat
        /\ \A i \in 1..Len(s) : r[i] = s[i]
    BY SMTT(20)
  <2> HIDE DEF r
  <2>2. Has(r, x)
    BY <2>1, SMTT(20) DEF Has
  <2> QED
    BY <1>2, <2>1, <2>2, SMTT(20) DEF get_or_insert, r
<1> QED
  BY <1>1, <1>2

\* A token stays where it is.
LEMMA HasKept ==
    ASSUME NEW s \in Seq(Tokens), NEW r \in Seq(Tokens), NEW x,
           Len(s) <= Len(r), \A i \in 1..Len(s) : r[i] = s[i], Has(s, x)
    PROVE  Has(r, x)
  BY SMTT(20) DEF Has

\* The two insertions of register_pool.
WithTokens(s, p) == get_or_insert(get_or_insert(s, token0[p]), token1[p])

\* Afterwards the index has both tokens, and what it had is where it was.
LEMMA WithTokensKeeps ==
    ASSUME NEW s \in Seq(Tokens), NEW p \in Pools
    PROVE  LET r == WithTokens(s, p)
           IN  /\ r \in Seq(Tokens) /\ Has(r, token0[p]) /\ Has(r, token1[p])
               /\ Len(s) <= Len(r) /\ \A i \in 1..Len(s) : r[i] = s[i]
<1> DEFINE m == get_or_insert(s, token0[p])
           r == get_or_insert(m, token1[p])
<1>1. token0[p] \in Tokens /\ token1[p] \in Tokens
  BY EngineAssumption
<1>2. /\ m \in Seq(Tokens) /\ Has(m, token0[p]) /\ Len(s) <= Len(m)
      /\ \A i \in 1..Len(s) : m[i] = s[i]
  BY <1>1, InsertKeeps
<1>3. r = WithTokens(s, p)
  BY DEF WithTokens
<1> HIDE DEF m
<1>4. /\ r \in Seq(Tokens) /\ Has(r, token1[p]) /\ Len(m) <= Len(r)
      /\ \A i \in 1..Len(m) : r[i] = m[i]
  BY <1>1, <1>2, InsertKeeps
<1> HIDE DEF r
<1>5. Has(r, token0[p])
  BY <1>2, <1>4, HasKept
<1>6. Len(s) \in Nat /\ Len(m) \in Nat /\ Len(r) \in Nat
  BY <1>2, <1>4, SMTT(20)
<1> QED
  BY <1>2, <1>3, <1>4, <1>5, <1>6, SMTT(20)

\* get_index finds a token that is there.
LEMMA IndexFound ==
    ASSUME NEW s, NEW x, Has(s, x)
    PROVE  get_index(s, x) \in 1..Len(s) /\ s[get_index(s, x)] = x
  BY DEF Has, get_index

-----------------------------------------------------------------------------
(* TypeInv is inductive.                                                   *)

\* The metadata of a task that has the pool's tokens.
LEMMA MetadataType ==
    ASSUME TypeInv, NEW t \in Tasks, pc[t] \in Growing, NEW p \in pool[t]
    PROVE  /\ p \in Pools /\ Metadata(t, p) \in PoolMetadata
           /\ Metadata(t, p).i0 <= Len(index[t]) /\ index[t][Metadata(t, p).i0] = token0[p]
           /\ Metadata(t, p).i1 <= Len(index[t]) /\ index[t][Metadata(t, p).i1] = token1[p]
<1>1. index[t] \in Seq(Tokens) /\ v3[t] \in BOOLEAN /\ p \in Pools
  BY DEF TypeInv, EngineTypeOK
<1>2. Has(index[t], token0[p]) /\ Has(index[t], token1[p])
  BY DEF TypeInv, TaskInv
<1>3. /\ get_index(index[t], token0[p]) \in 1..Len(index[t])
      /\ index[t][get_index(index[t], token0[p])] = token0[p]
      /\ get_index(index[t], token1[p]) \in 1..Len(index[t])
      /\ index[t][get_index(index[t], token1[p])] = token1[p]
  BY <1>2, IndexFound
<1>4. Len(index[t]) \in Nat
  BY <1>1, SMTT(20)
<1> QED
  BY <1>1, <1>3, <1>4, SMTT(20) DEF Metadata, PoolMetadata

\* Before anything is registered.
LEMMA TypeInit == EngineInit => TypeInv
<1> SUFFICES ASSUME EngineInit PROVE TypeInv
  OBVIOUS
<1>1. pc \in [Tasks -> Labels] /\ \A t \in Tasks : pc[t] \notin Growing /\ pc[t] # "seed"
  BY DEF EngineInit, Tasks, Labels, Growing
<1>2. PICK w \in Workloads : alone = w.alone /\ trades = w.trades /\ syncs = w.syncs /\ jobs = w.jobs
  BY DEF EngineInit
<1>3. alone \in BOOLEAN /\ trades \in Nat /\ syncs \in Nat /\ jobs \in Nat
  BY <1>2, EngineAssumption
<1>4. /\ token_index \in Seq(Tokens) /\ vertices \in Nat /\ events \in Seq(PoolEvent)
      /\ chain \in [Pools -> Nat] /\ {hot, created, rm, want, missed} \subseteq SUBSET Pools
      /\ pool \in [Tasks -> SUBSET Pools] /\ add \in [Tasks -> SUBSET Pools]
      /\ v3 \in [Tasks -> BOOLEAN] /\ index \in [Tasks -> Seq(Tokens)]
  BY EngineAssumption, SMTT(20) DEF EngineInit
<1>5. \A t \in Tasks : reg[t] = Empty /\ metas[t] = Empty /\ answer[t] = Empty /\ pool[t] = {}
  BY DEF EngineInit
<1>6. \A t \in Tasks : TaskInv(t)
  BY <1>1, <1>5 DEF TaskInv
<1> QED
  BY <1>1, <1>3, <1>4, <1>5, <1>6, PartialEmpty DEF EngineInit, TypeInv, EngineTypeOK

\* The others are not touched by a step of task t.
Others(t) ==
    \A s \in Tasks \ {t} : /\ pool'[s] = pool[s] /\ index'[s] = index[s]
                           /\ metas'[s] = metas[s] /\ answer'[s] = answer[s]

\* A step of task t to label l.
LEMMA TypeStep ==
    ASSUME TypeInv, NEW t \in Tasks, NEW l \in Labels, pc' = [pc EXCEPT ![t] = l],
           EngineTypeOK', DOMAIN reg' = Tasks, DOMAIN metas' = Tasks, DOMAIN answer' = Tasks,
           Others(t), TaskInv(t)'
    PROVE  TypeInv'
<1>1. ASSUME NEW s \in Tasks \ {t}
      PROVE  TaskInv(s)'
  <2>1. TaskInv(s) /\ pc'[s] = pc[s]
    BY DEF TypeInv
  <2>2. /\ pool'[s] = pool[s] /\ index'[s] = index[s]
        /\ metas'[s] = metas[s] /\ answer'[s] = answer[s]
    BY DEF Others
  <2> QED
    BY <2>1, <2>2 DEF TaskInv
<1>2. pc' \in [Tasks -> Labels]
  BY DEF TypeInv
<1> QED
  BY <1>1, <1>2 DEF TypeInv

\* A step that moves no task.
LEMMA TypeStay ==
    ASSUME TypeInv, EngineTypeOK', UNCHANGED <<pc, pool, index, reg, metas, answer>>
    PROVE  TypeInv'
<1>1. \A s \in Tasks : TaskInv(s)'
  BY DEF TypeInv, TaskInv
<1> QED
  BY <1>1 DEF TypeInv

\* The end of a job.
LEMMA FinishKeeps ==
    ASSUME TypeInv, NEW t \in Tasks, Finish(t)
    PROVE  /\ pool' \in [Tasks -> SUBSET Pools] /\ v3' \in [Tasks -> BOOLEAN]
           /\ index' \in [Tasks -> Seq(Tokens)]
           /\ DOMAIN reg' = Tasks /\ \A s \in Tasks : Partial(reg'[s], Pools, PoolMetadata)
           /\ pool'[t] = {} /\ pc' = [pc EXCEPT ![t] = "idle"] /\ pc'[t] = "idle"
           /\ \A s \in Tasks \ {t} : pool'[s] = pool[s] /\ index'[s] = index[s]
<1>1. <<>> \in Seq(Tokens) /\ Partial(Empty, Pools, PoolMetadata)
  BY PartialEmpty, SMTT(20)
<1> QED
  BY <1>1 DEF Finish, Goto, TypeInv, EngineTypeOK

\* register_pool by any task.
LEMMA TypeRegistering ==
    ASSUME TypeInv, NEW t \in Tasks, Registering(t)
    PROVE  TypeInv'
<1>0. /\ EngineTypeOK /\ TaskInv(t) /\ pc[t] \in Labels
      /\ DOMAIN reg = Tasks /\ DOMAIN metas = Tasks /\ DOMAIN answer = Tasks
  BY DEF TypeInv
<1>1. CASE LoadIndex(t)
  <2>1. EngineTypeOK'
    BY <1>0, <1>1 DEF LoadIndex, shared, world, counts, history, plan, fetch, EngineTypeOK
  <2>2. Others(t) /\ TaskInv(t)'
    BY <1>0, <1>1 DEF LoadIndex, Goto, fetch, Others, TaskInv, Growing, EngineTypeOK, TypeInv
  <2> QED
    BY <1>0, <1>1, <2>1, <2>2, TypeStep DEF LoadIndex, Goto, fetch, Labels
<1>2. CASE StoreIndex(t)
  <2>1. PICK p \in pool[t] : token_index' = WithTokens(index[t], p)
                             /\ index' = [index EXCEPT ![t] = token_index']
    BY <1>2 DEF StoreIndex, WithTokens
  <2>2. p \in Pools /\ index[t] \in Seq(Tokens) /\ \A q \in pool[t] : q = p
    BY <1>0 DEF EngineTypeOK, TaskInv
  <2>3. token_index' \in Seq(Tokens) /\ Has(token_index', token0[p]) /\ Has(token_index', token1[p])
    BY <2>1, <2>2, WithTokensKeeps
  <2>4. EngineTypeOK'
    BY <1>0, <1>2, <2>1, <2>3 DEF StoreIndex, world, counts, history, plan, fetch, EngineTypeOK
  <2>5. Others(t)
    BY <1>0, <1>2, <2>1 DEF StoreIndex, fetch, Others, EngineTypeOK
  <2>6. index'[t] = token_index' /\ pool' = pool /\ pc'[t] = "load_registry"
    BY <1>0, <1>2, <2>1 DEF StoreIndex, Goto, EngineTypeOK, TypeInv
  <2>7. TaskInv(t)'
    BY <2>2, <2>3, <2>6 DEF TaskInv
  <2> QED
    BY <1>0, <1>2, <2>4, <2>5, <2>7, TypeStep DEF StoreIndex, Goto, fetch, Labels
<1>3. CASE LoadRegistry(t)
  <2>1. EngineTypeOK'
    BY <1>0, <1>3 DEF LoadRegistry, shared, world, counts, history, plan, fetch, EngineTypeOK
  <2>2. PICK l \in Labels : pc' = [pc EXCEPT ![t] = l] /\ l # "seed"
                            /\ (l \in Growing => pc[t] \in Growing)
    BY <1>3 DEF LoadRegistry, Goto, Labels, Growing
  <2>3. Others(t) /\ TaskInv(t)'
    BY <1>0, <1>3, <2>2 DEF LoadRegistry, fetch, Others, TaskInv, TypeInv
  <2> QED
    BY <1>0, <1>3, <2>1, <2>2, <2>3, TypeStep DEF LoadRegistry, fetch
<1>4. CASE StoreRegistry(t)
  <2>1. PICK p \in pool[t] : registry' = Over(reg[t], One(p, Metadata(t, p)))
    BY <1>4 DEF StoreRegistry
  <2>2. p \in Pools /\ Metadata(t, p) \in PoolMetadata
    BY <1>4, MetadataType DEF StoreRegistry, Growing
  <2>3. Partial(registry', Pools, PoolMetadata)
    BY <1>0, <2>1, <2>2, PartialOne DEF EngineTypeOK
  <2>4. EngineTypeOK'
    BY <1>0, <1>4, <2>3 DEF StoreRegistry, locals, world, counts, history, plan, fetch, EngineTypeOK
  <2>5. Others(t) /\ TaskInv(t)'
    BY <1>0, <1>4 DEF StoreRegistry, Goto, locals, fetch, Others, TaskInv, TypeInv, Growing
  <2> QED
    BY <1>0, <1>4, <2>4, <2>5, TypeStep DEF StoreRegistry, Goto, locals, fetch, Labels
<1>5. CASE AddEdges(t)
  <2>1. PICK p \in pool[t] :
           /\ vertices' = IF Len(index[t]) > vertices THEN Len(index[t]) ELSE vertices
           /\ graph' = add_edge(graph, Edge(p, Metadata(t, p)), 0)
    BY <1>5 DEF AddEdges
  <2>2. p \in Pools /\ Metadata(t, p) \in PoolMetadata
    BY <1>5, MetadataType DEF AddEdges, Growing
  <2>3. IsGraph(graph')
    BY <1>0, <2>1, <2>2, EdgeType, AddEdgeType DEF EngineTypeOK, IsGraph
  <2>4. vertices' \in Nat
    BY <1>0, <2>1, SMTT(20) DEF EngineTypeOK
  <2>6. CASE t = "loop"
    <3>1. Finish(t)
      BY <1>5, <2>6 DEF AddEdges
    <3>2. EngineTypeOK'
      BY <1>0, <1>5, <2>3, <2>4, <3>1, FinishKeeps
      DEF AddEdges, world, counts, history, plan, fetch, IsGraph, EngineTypeOK
    <3>3. Others(t) /\ TaskInv(t)'
      BY <1>5, <3>1, FinishKeeps DEF AddEdges, fetch, Others, TaskInv, Growing
    <3> QED
      BY <1>0, <1>5, <3>1, <3>2, <3>3, FinishKeeps, TypeStep DEF AddEdges, fetch, Labels
  <2>7. CASE t # "loop"
    <3>1. EngineTypeOK'
      BY <1>0, <1>5, <2>3, <2>4, <2>7
      DEF AddEdges, locals, world, counts, history, plan, fetch, IsGraph, EngineTypeOK
    <3>2. PICK l \in {"load_warmed", "next"} : pc' = [pc EXCEPT ![t] = l]
      BY <1>5, <2>7 DEF AddEdges, Goto
    <3>3. Others(t) /\ TaskInv(t)'
      BY <1>0, <1>5, <2>7, <3>2 DEF AddEdges, locals, fetch, Others, TaskInv, TypeInv, Growing
    <3>4. l \in Labels
      BY DEF Labels
    <3> QED
      BY <1>0, <1>5, <2>7, <3>1, <3>2, <3>3, <3>4, TypeStep DEF AddEdges, locals, fetch
  <2> QED
    BY <2>6, <2>7
<1> QED
  BY <1>1, <1>2, <1>3, <1>4, <1>5 DEF Registering

\* Removing pools, the rest of the hot-cache sync, and the fetch of the reserves.
LEMMA TypeOthers ==
    ASSUME TypeInv, NEW t \in Tasks, Step(t), ~Registering(t), ~Seed(t)
    PROVE  TypeInv'
<1>0. /\ EngineTypeOK /\ TaskInv(t) /\ pc[t] \in Labels
      /\ DOMAIN reg = Tasks /\ DOMAIN metas = Tasks /\ DOMAIN answer = Tasks
  BY DEF TypeInv
<1>1. CASE mark_pool_bytecode_warmed(t)
  <2>1. Partial(registry', Pools, PoolMetadata)
    <3>1. PICK p \in pool[t] : registry' = IF p \in DOMAIN reg[t]
                     THEN [reg[t] EXCEPT ![p].warmed = TRUE] ELSE registry
      BY <1>1 DEF mark_pool_bytecode_warmed
    <3>2. CASE p \in DOMAIN reg[t]
      <4>1. Partial(reg[t], Pools, PoolMetadata)
        BY <1>0 DEF EngineTypeOK
      <4>2. \A m \in PoolMetadata : [m EXCEPT !.warmed = TRUE] \in PoolMetadata
        BY DEF PoolMetadata
      <4>3. DOMAIN registry' = DOMAIN reg[t] /\ registry' = [x \in DOMAIN reg[t] |-> registry'[x]]
            /\ \A x \in DOMAIN reg[t] : registry'[x] = reg[t][x]
                                     \/ registry'[x] = [reg[t][x] EXCEPT !.warmed = TRUE]
        BY <3>1, <3>2
      <4> QED
        BY <4>1, <4>2, <4>3 DEF Partial
    <3>3. CASE p \notin DOMAIN reg[t]
      BY <1>0, <3>1, <3>3 DEF EngineTypeOK
    <3> QED
      BY <3>2, <3>3
  <2>2. EngineTypeOK'
    BY <1>0, <1>1, <2>1 DEF mark_pool_bytecode_warmed, locals, world, counts, history, plan, fetch,
      EngineTypeOK
  <2>3. Others(t) /\ TaskInv(t)'
    BY <1>0, <1>1 DEF mark_pool_bytecode_warmed, Goto, locals, fetch, Others, TaskInv, TypeInv, Growing
  <2> QED
    BY <1>0, <1>1, <2>2, <2>3, TypeStep DEF mark_pool_bytecode_warmed, Goto, locals, fetch, Labels
<1>2. CASE RemoveNext(t)
  <2>1. CASE rm = {} /\ Goto(t, "next") /\ UNCHANGED <<rm, pool, v3>>
    <3>1. EngineTypeOK'
      BY <1>0, <1>2, <2>1 DEF RemoveNext, shared, world, counts, history, fetch, EngineTypeOK
    <3>2. Others(t) /\ TaskInv(t)'
      BY <1>0, <1>2, <2>1 DEF RemoveNext, Goto, fetch, Others, TaskInv, TypeInv, Growing
    <3> QED
      BY <1>0, <1>2, <2>1, <3>1, <3>2, TypeStep DEF RemoveNext, Goto, fetch, Labels
  <2>2. CASE rm' \subseteq rm /\ UNCHANGED <<pc, pool, v3>>
    <3>1. EngineTypeOK'
      BY <1>0, <1>2, <2>2 DEF RemoveNext, shared, world, counts, history, fetch, EngineTypeOK
    <3> QED
      BY <1>2, <2>2, <3>1, TypeStay DEF RemoveNext, fetch
  <2>3. ASSUME NEW p \in rm, rm' = rm \ {p}, p \in DOMAIN registry, Goto(t, "load_removed"),
               pool' = [pool EXCEPT ![t] = {p}], v3' = [v3 EXCEPT ![t] = registry[p].v3]
        PROVE  TypeInv'
    <3>1. registry[p].v3 \in BOOLEAN /\ p \in Pools
      BY <1>0, <2>3 DEF EngineTypeOK, Partial, PoolMetadata
    <3>2. EngineTypeOK'
      BY <1>0, <1>2, <2>3, <3>1 DEF RemoveNext, shared, world, counts, history, fetch, EngineTypeOK
    <3>3. Others(t) /\ TaskInv(t)'
      BY <1>0, <1>2, <2>3 DEF RemoveNext, Goto, fetch, Others, TaskInv, TypeInv, Growing, EngineTypeOK
    <3> QED
      BY <1>0, <1>2, <2>3, <3>2, <3>3, TypeStep DEF RemoveNext, Goto, fetch, Labels
  <2> QED
    BY <1>2, <2>1, <2>2, <2>3 DEF RemoveNext
<1>3. CASE StoreRemoved(t)
  <2>1. Partial(registry', Pools, PoolMetadata)
    <3>1. Partial(reg[t], Pools, PoolMetadata)
      BY <1>0 DEF EngineTypeOK
    <3>2. PICK p \in pool[t] : registry' = Only(reg[t], Pools \ {p})
      BY <1>3 DEF StoreRemoved
    <3> QED
      BY <3>1, <3>2, PartialOnly
  <2>2. EngineTypeOK'
    BY <1>0, <1>3, <2>1 DEF StoreRemoved, locals, world, counts, history, plan, fetch, EngineTypeOK
  <2>3. Others(t) /\ TaskInv(t)'
    BY <1>0, <1>3 DEF StoreRemoved, Goto, locals, fetch, Others, TaskInv, TypeInv, Growing
  <2> QED
    BY <1>0, <1>3, <2>2, <2>3, TypeStep DEF StoreRemoved, Goto, locals, fetch, Labels
<1>4. CASE Unlink(t)
  <2>1. IsGraph(graph')
    BY <1>0, <1>4, PartialOnly, SMTT(20) DEF Unlink, remove_pool_edges, IsGraph, EngineTypeOK
  <2>2. Partial(snapshot', EdgeId, EdgeContent)
    BY <1>4, <2>1, ContentsType DEF Unlink
  <2>3. EngineTypeOK'
    BY <1>0, <1>4, <2>1, <2>2 DEF Unlink, locals, world, counts, history, plan, fetch, EngineTypeOK,
      IsGraph
  <2>4. Others(t) /\ TaskInv(t)'
    BY <1>0, <1>4 DEF Unlink, Goto, locals, fetch, Others, TaskInv, TypeInv, Growing
  <2> QED
    BY <1>0, <1>4, <2>3, <2>4, TypeStep DEF Unlink, Goto, locals, fetch, Labels
<1>5. CASE Forget(t)
  <2>1. Partial(pool_states', Pools, Nat)
    <3>1. Partial(pool_states, Pools, Nat)
      BY <1>0 DEF EngineTypeOK
    <3>2. PICK p \in pool[t] : pool_states' = Only(pool_states, Pools \ {p})
      BY <1>5 DEF Forget
    <3> QED
      BY <3>1, <3>2, PartialOnly
  <2>2. EngineTypeOK'
    BY <1>0, <1>5, <2>1 DEF Forget, locals, world, counts, history, plan, fetch, EngineTypeOK
  <2>3. Others(t) /\ TaskInv(t)'
    BY <1>0, <1>5 DEF Forget, Goto, locals, fetch, Others, TaskInv, TypeInv, Growing
  <2> QED
    BY <1>0, <1>5, <2>2, <2>3, TypeStep DEF Forget, Goto, locals, fetch, Labels
<1>6. CASE RegisterNext(t)
  <2>1. CASE add[t] = {} /\ Goto(t, "collect") /\ UNCHANGED <<add, pool, v3>>
    <3>1. EngineTypeOK'
      BY <1>0, <1>6, <2>1 DEF RegisterNext, shared, world, counts, history, fetch, EngineTypeOK
    <3>2. Others(t) /\ TaskInv(t)'
      BY <1>0, <1>6, <2>1 DEF RegisterNext, Goto, fetch, Others, TaskInv, TypeInv, Growing
    <3> QED
      BY <1>0, <1>6, <2>1, <3>1, <3>2, TypeStep DEF RegisterNext, Goto, fetch, Labels
  <2>2. ASSUME NEW p \in add[t], add' = [add EXCEPT ![t] = @ \ {p}]
        PROVE  add' \in [Tasks -> SUBSET Pools] /\ p \in Pools
    BY <1>0, <2>2 DEF EngineTypeOK
  <2>3. ASSUME NEW p \in add[t], add' = [add EXCEPT ![t] = @ \ {p}], UNCHANGED <<pc, pool, v3>>
        PROVE  TypeInv'
    <3>1. EngineTypeOK'
      BY <1>0, <1>6, <2>2, <2>3 DEF RegisterNext, shared, world, counts, history, fetch, EngineTypeOK
    <3> QED
      BY <1>6, <2>3, <3>1, TypeStay DEF RegisterNext, fetch
  <2>4. ASSUME NEW p \in add[t], add' = [add EXCEPT ![t] = @ \ {p}], Goto(t, "load_index"),
               pool' = [pool EXCEPT ![t] = {p}], v3' = [v3 EXCEPT ![t] = p \in V3]
        PROVE  TypeInv'
    <3>1. (p \in V3) \in BOOLEAN
      BY SMTT(20)
    <3>2. v3' \in [Tasks -> BOOLEAN]
      BY <1>0, <2>4, <3>1 DEF EngineTypeOK
    <3>3. EngineTypeOK'
      <4>1. add' \in [Tasks -> SUBSET Pools] /\ pool' \in [Tasks -> SUBSET Pools]
        BY <1>0, <2>2, <2>4 DEF EngineTypeOK
      <4> QED
        BY <1>0, <1>6, <3>2, <4>1 DEF RegisterNext, shared, world, counts, history, fetch, EngineTypeOK
    <3>4. Others(t) /\ TaskInv(t)'
      BY <1>0, <1>6, <2>4 DEF RegisterNext, Goto, fetch, Others, TaskInv, TypeInv, Growing, EngineTypeOK
    <3> QED
      BY <1>0, <1>6, <2>4, <3>3, <3>4, TypeStep DEF RegisterNext, Goto, fetch, Labels
  <2> QED
    BY <1>6, <2>1, <2>3, <2>4 DEF RegisterNext
<1>7. CASE Collect(t)
  <2> DEFINE mine == IF t = "sync" THEN Only(registry, want) ELSE registry
  <2>1. Partial(mine, Pools, PoolMetadata)
    BY <1>0, PartialOnly DEF EngineTypeOK
  <2>2. CASE Finish(t) /\ UNCHANGED metas
    <3>1. EngineTypeOK'
      BY <1>0, <1>7, <2>2, FinishKeeps DEF Collect, shared, world, counts, history, EngineTypeOK
    <3>2. Others(t) /\ TaskInv(t)'
      BY <1>7, <2>2, FinishKeeps DEF Collect, Others, TaskInv, Growing
    <3> QED
      BY <1>0, <1>7, <2>2, <3>1, <3>2, FinishKeeps, TypeStep DEF Collect, Labels
  <2>3. CASE metas' = [metas EXCEPT ![t] = mine] /\ Goto(t, "rpc") /\ UNCHANGED locals
    <3>1. EngineTypeOK'
      BY <1>0, <1>7, <2>1, <2>3 DEF Collect, shared, world, counts, history, locals, EngineTypeOK
    <3>2. Others(t) /\ TaskInv(t)'
      BY <1>0, <1>7, <2>3 DEF Collect, Goto, locals, Others, TaskInv, TypeInv, Growing
    <3> QED
      BY <1>0, <1>7, <2>3, <3>1, <3>2, TypeStep DEF Collect, Goto, locals, Labels
  <2> QED
    BY <1>7, <2>2, <2>3 DEF Collect
<1>8. CASE Ask(t)
  <2>1. PICK a : /\ a \in [DOMAIN metas[t] -> UNION {Answers(p, metas[t][p]) : p \in DOMAIN metas[t]}]
                 /\ \A p \in DOMAIN metas[t] : a[p] \in Answers(p, metas[t][p])
                 /\ answer' = [answer EXCEPT ![t] = a]
    BY <1>8 DEF Ask
  <2>2. DOMAIN metas[t] \subseteq Pools
    BY <1>0 DEF EngineTypeOK, Partial
  <2>3. \A p \in DOMAIN metas[t] : a[p] \in Nat \union {Skipped, Quarantined}
    BY <1>0, <2>1, <2>2 DEF Answers, EngineTypeOK
  <2>4. Partial(a, Pools, Nat \union {Skipped, Quarantined})
    BY <2>1, <2>2, <2>3 DEF Partial
  <2>5. EngineTypeOK'
    BY <1>0, <1>8, <2>1, <2>4 DEF Ask, shared, world, counts, history, locals, plan, EngineTypeOK
  <2>6. Others(t) /\ TaskInv(t)'
    BY <1>0, <1>8, <2>1 DEF Ask, Goto, locals, Others, TaskInv, TypeInv, Growing
  <2> QED
    BY <1>0, <1>8, <2>1, <2>5, <2>6, TypeStep DEF Ask, Goto, locals, Labels
<1> QED
  BY <1>1, <1>2, <1>3, <1>4, <1>5, <1>6, <1>7, <1>8 DEF Step

\* Seeding the answers about some of the collected pools.
LEMMA SeedAllType ==
    ASSUME TypeInv, NEW t \in Tasks, pc[t] = "seed", NEW S \in SUBSET DOMAIN metas[t], SeedAll(t, S)
    PROVE  IsGraph(graph') /\ Partial(pool_states', Pools, Nat) /\ missed' \in SUBSET Pools
<1> DEFINE edges == {Edge(p, metas[t][p]) : p \in S}
           after(e) == Seeded(graph, e, answer[t][e.pool])
           priced == {p \in S : Priced(answer[t][p])}
<1>1. /\ graph' = [e \in DOMAIN graph \union UNION {DOMAIN after(e) : e \in edges} |->
                      IF e \in edges THEN after(e)[e] ELSE graph[e]]
      /\ pool_states' = Over(pool_states, [p \in priced |-> answer[t][p]])
      /\ missed' = missed \union Overtaken(t, S) \union (IF t = "boot" THEN S \ priced ELSE {})
  BY DEF SeedAll
<1>2. /\ Partial(metas[t], Pools, PoolMetadata)
      /\ Partial(answer[t], Pools, Nat \union {Skipped, Quarantined})
      /\ DOMAIN answer[t] = DOMAIN metas[t]
      /\ IsGraph(graph) /\ Partial(pool_states, Pools, Nat) /\ missed \in SUBSET Pools
  BY DEF TypeInv, EngineTypeOK, TaskInv, IsGraph
<1>3. \A p \in S : /\ p \in Pools /\ metas[t][p] \in PoolMetadata
                   /\ answer[t][p] \in Nat \union {Skipped, Quarantined}
  BY <1>2 DEF Partial
<1>4. \A e \in edges : e \in EdgeId /\ answer[t][e.pool] \in Nat \union {Skipped, Quarantined}
  <2> SUFFICES ASSUME NEW p \in S
               PROVE  /\ Edge(p, metas[t][p]) \in EdgeId /\ Edge(p, metas[t][p]).pool = p
    BY <1>3
  <2> QED
    BY <1>3, EdgeType DEF Edge
<1>5. \A e \in edges : /\ IsGraph(after(e)) /\ DOMAIN after(e) \subseteq DOMAIN graph \union {e}
                       /\ DOMAIN graph \subseteq DOMAIN after(e)
  <2> SUFFICES ASSUME NEW e \in edges
               PROVE  /\ IsGraph(after(e)) /\ DOMAIN after(e) \subseteq DOMAIN graph \union {e}
                      /\ DOMAIN graph \subseteq DOMAIN after(e)
    OBVIOUS
  <2> HIDE DEF edges
  <2>1. IsGraph(after(e))
    BY <1>2, <1>4, SeededType
  <2> QED
    BY <2>1, SeededFlags, SMTT(20)
<1>6. IsGraph(graph')
  <2> HIDE DEF edges, after
  <2>1. DOMAIN graph \subseteq EdgeId /\ \A e \in DOMAIN graph : graph[e] \in PriceEdge
    BY <1>2 DEF IsGraph, Partial
  <2>2. \A e \in edges : \A x \in DOMAIN after(e) : x \in EdgeId /\ after(e)[x] \in PriceEdge
    BY <1>5 DEF IsGraph, Partial
  <2>3. ASSUME NEW e \in DOMAIN graph'
        PROVE  e \in EdgeId /\ graph'[e] \in PriceEdge
    <3>1. CASE e \in edges
      <4>1. e \in DOMAIN after(e)
        BY <1>1, <1>5, <3>1, SMTT(20)
      <4> QED
        BY <1>1, <2>2, <3>1, <4>1
    <3>2. CASE e \notin edges
      <4>1. e \in DOMAIN graph
        BY <1>1, <1>5, <3>2
      <4> QED
        BY <1>1, <2>1, <3>2, <4>1
    <3> QED
      BY <3>1, <3>2
  <2>4. graph' = [e \in DOMAIN graph' |-> graph'[e]]
    BY <1>1
  <2> QED
    BY <2>3, <2>4 DEF IsGraph, Partial
<1>7. Partial(pool_states', Pools, Nat)
  <2> DEFINE g == [p \in priced |-> answer[t][p]]
  <2>1. \A p \in priced : p \in Pools /\ answer[t][p] \in Nat
    BY <1>3 DEF Priced
  <2>2. Partial(g, Pools, Nat)
    BY <2>1 DEF Partial
  <2> QED
    BY <1>1, <1>2, <2>2, PartialOver
<1>8. missed' \in SUBSET Pools
  <2>1. Overtaken(t, S) \subseteq S /\ S \subseteq Pools
    BY <1>3 DEF Overtaken
  <2> QED
    BY <1>1, <1>2, <2>1
<1> QED
  BY <1>6, <1>7, <1>8

\* Seeding, with and without the panic.
LEMMA TypeSeed ==
    ASSUME TypeInv, NEW t \in Tasks, Seed(t)
    PROVE  TypeInv'
<1>0. /\ EngineTypeOK /\ TaskInv(t) /\ pc[t] = "seed"
      /\ DOMAIN reg = Tasks /\ DOMAIN metas = Tasks /\ DOMAIN answer = Tasks
  BY DEF TypeInv, Seed
<1>1. PICK S \in SUBSET DOMAIN metas[t] : SeedAll(t, S)
  BY DEF Seed
<1>2. IsGraph(graph') /\ Partial(pool_states', Pools, Nat) /\ missed' \in SUBSET Pools
  BY <1>0, <1>1, SeedAllType
<1>3. /\ metas' = [metas EXCEPT ![t] = Empty] /\ answer' = [answer EXCEPT ![t] = Empty]
      /\ UNCHANGED <<alone, token_index, registry, vertices, hot, world, plan, held, cloned,
                     counts, seen, outside>>
  BY DEF Seed
<1>4. /\ DOMAIN metas' = Tasks /\ DOMAIN answer' = Tasks
      /\ \A s \in Tasks : /\ Partial(metas'[s], Pools, PoolMetadata)
                          /\ Partial(answer'[s], Pools, Nat \union {Skipped, Quarantined})
      /\ \A s \in Tasks \ {t} : metas'[s] = metas[s] /\ answer'[s] = answer[s]
  BY <1>0, <1>3, PartialEmpty DEF EngineTypeOK
<1>5. CASE Finish(t) /\ snapshot' = Contents(graph')
  <2>1. Partial(snapshot', EdgeId, EdgeContent)
    BY <1>2, <1>5, ContentsType
  <2>2. EngineTypeOK'
    <3>1. /\ pool' \in [Tasks -> SUBSET Pools] /\ v3' \in [Tasks -> BOOLEAN]
          /\ index' \in [Tasks -> Seq(Tokens)]
          /\ \A s \in Tasks : Partial(reg'[s], Pools, PoolMetadata)
      BY <1>5, FinishKeeps
    <3>2. \A s \in Tasks : /\ Partial(reg'[s], Pools, PoolMetadata)
                           /\ Partial(metas'[s], Pools, PoolMetadata)
                           /\ Partial(answer'[s], Pools, Nat \union {Skipped, Quarantined})
      BY <1>4, <3>1
    <3>3. {hot', created', rm', want', missed'} \subseteq SUBSET Pools
      BY <1>0, <1>2, <1>3 DEF world, plan, EngineTypeOK
    <3> QED
      BY <1>0, <1>2, <1>3, <2>1, <3>1, <3>2, <3>3 DEF world, plan, counts, IsGraph, EngineTypeOK
  <2>3. Others(t) /\ TaskInv(t)'
    BY <1>4, <1>5, FinishKeeps DEF Others, TaskInv, Growing
  <2> QED
    BY <1>4, <1>5, <2>2, <2>3, FinishKeeps, TypeStep DEF Labels
<1>6. CASE Goto(t, IF t = "reload" THEN "idle" ELSE "panicked") /\ UNCHANGED <<snapshot, locals>>
  <2>1. EngineTypeOK'
    <3>1. {hot', created', rm', want', missed'} \subseteq SUBSET Pools
      BY <1>0, <1>2, <1>3 DEF world, plan, EngineTypeOK
    <3>2. \A s \in Tasks : Partial(reg'[s], Pools, PoolMetadata)
      BY <1>0, <1>6 DEF locals, EngineTypeOK
    <3> QED
      BY <1>0, <1>2, <1>3, <1>4, <1>6, <3>1, <3>2 DEF world, plan, counts, locals, IsGraph,
        EngineTypeOK
  <2>2. PICK l \in {"idle", "panicked"} : pc' = [pc EXCEPT ![t] = l]
    BY <1>6 DEF Goto
  <2>3. Others(t) /\ TaskInv(t)'
    BY <1>0, <1>4, <1>6, <2>2 DEF locals, Others, TaskInv, TypeInv, Growing
  <2>4. l \in Labels /\ DOMAIN reg' = Tasks
    BY <1>0, <1>6 DEF Labels, locals
  <2> QED
    BY <1>4, <2>1, <2>2, <2>3, <2>4, TypeStep
<1> QED
  BY <1>5, <1>6 DEF Seed

\* The event loop, the jobs of the other tasks, and the chain.
LEMMA TypeLoop ==
    ASSUME TypeInv,
           \/ TakeEvent \/ Price \/ StartDetection \/ Publish
           \/ RefreshHotCache \/ ReloadConfig \/ RefreshPoolStates
    PROVE  TypeInv'
<1>0. /\ EngineTypeOK /\ \A t \in Tasks : TaskInv(t) /\ pc[t] \in Labels
      /\ DOMAIN reg = Tasks /\ DOMAIN metas = Tasks /\ DOMAIN answer = Tasks
      /\ {"loop", "sync", "reload", "refresh"} \subseteq Tasks
  BY DEF TypeInv, Tasks
<1>1. CASE TakeEvent
  <2> DEFINE e == Head(events)
  <2>1. e \in PoolEvent /\ events' \in Seq(PoolEvent)
    BY <1>0, <1>1, SMTT(20) DEF TakeEvent, EngineTypeOK
  <2>2. e.pool \in Pools /\ e.value \in Nat
    BY <2>1 DEF PoolEvent
  <2> HIDE DEF e
  <2>3. CASE /\ pool' = [pool EXCEPT !["loop"] = {e.pool}] /\ Goto("loop", "load_index")
             /\ UNCHANGED <<held, v3>>
    <3>1. pool' \in [Tasks -> SUBSET Pools]
      BY <1>0, <2>2, <2>3 DEF EngineTypeOK
    <3>2. EngineTypeOK'
      BY <1>0, <1>1, <2>1, <2>3, <3>1 DEF TakeEvent, shared, plan, fetch, counts, history, EngineTypeOK
    <3>3. Others("loop") /\ TaskInv("loop")'
      BY <1>0, <1>1, <2>3 DEF TakeEvent, Goto, fetch, Others, TaskInv, TypeInv, Growing, EngineTypeOK
    <3> QED
      BY <1>0, <1>1, <2>3, <3>2, <3>3, TypeStep DEF TakeEvent, Goto, fetch, Labels
  <2>4. CASE /\ e.pool \in DOMAIN registry
             /\ held' = {[pool |-> e.pool, meta |-> registry[e.pool], value |-> e.value]}
             /\ Goto("loop", "price") /\ UNCHANGED <<pool, v3>>
    <3>1. registry[e.pool] \in PoolMetadata
      BY <1>0, <2>4 DEF EngineTypeOK, Partial
    <3>2. held' \subseteq [pool : Pools, meta : PoolMetadata, value : Nat]
      BY <2>2, <2>4, <3>1, SMTT(20)
    <3>3. EngineTypeOK'
      BY <1>0, <1>1, <2>1, <2>4, <3>2 DEF TakeEvent, shared, plan, fetch, counts, history, EngineTypeOK
    <3>4. Others("loop") /\ TaskInv("loop")'
      BY <1>0, <1>1, <2>4 DEF TakeEvent, Goto, fetch, Others, TaskInv, TypeInv, Growing
    <3> QED
      BY <1>0, <1>1, <2>4, <3>3, <3>4, TypeStep DEF TakeEvent, Goto, fetch, Labels
  <2>5. CASE UNCHANGED <<held, pc, pool, v3>>
    <3>1. EngineTypeOK'
      BY <1>0, <1>1, <2>1, <2>5 DEF TakeEvent, shared, plan, fetch, counts, history, EngineTypeOK
    <3> QED
      BY <1>1, <2>5, <3>1, TypeStay DEF TakeEvent, fetch
  <2> QED
    BY <1>1, <2>3, <2>4, <2>5 DEF TakeEvent, e
<1>2. CASE Price
  <2>1. PICK h \in held :
          LET ed == Edge(h.pool, h.meta)
          IN  /\ \/ graph' = price_v3(graph, ed, h.value)
                 \/ graph' = update_edge_from_reserves(graph, ed, h.value)
                 \/ graph' = graph
              /\ pool_states' = pool_states \/ pool_states' = Over(pool_states, One(h.pool, h.value))
              /\ Goto("loop", "idle") \/ Goto("loop", "panicked")
              /\ missed' \subseteq missed
    BY <1>2 DEF Price
  <2>2. h.pool \in Pools /\ h.meta \in PoolMetadata /\ h.value \in Nat
    BY <1>0 DEF EngineTypeOK
  <2>3. IsGraph(graph')
    <3>1. Edge(h.pool, h.meta) \in EdgeId /\ IsGraph(graph)
      BY <1>0, <2>2, EdgeType DEF EngineTypeOK, IsGraph
    <3>2. /\ IsGraph(price_v3(graph, Edge(h.pool, h.meta), h.value))
          /\ IsGraph(update_edge_from_reserves(graph, Edge(h.pool, h.meta), h.value))
      BY <2>2, <3>1, PriceV3Type, UpdateType
    <3> QED
      BY <2>1, <3>1, <3>2
  <2>4. Partial(pool_states', Pools, Nat)
    BY <1>0, <2>1, <2>2, PartialOne, SMTT(20) DEF EngineTypeOK
  <2>5. EngineTypeOK'
    <3>1. UNCHANGED <<world, locals, plan, fetch>>
      BY <1>2 DEF Price
    <3>2. {hot', created', rm', want', missed'} \subseteq SUBSET Pools
      BY <1>0, <1>2, <2>1, <3>1 DEF Price, world, plan, EngineTypeOK
    <3> QED
      BY <1>0, <1>2, <2>3, <2>4, <3>1, <3>2 DEF Price, world, locals, plan, fetch, counts, IsGraph,
        EngineTypeOK
  <2>6. PICK l \in {"idle", "panicked"} : pc' = [pc EXCEPT !["loop"] = l]
    BY <2>1 DEF Goto
  <2>7. Others("loop") /\ TaskInv("loop")'
    BY <1>0, <1>2, <2>6 DEF Price, locals, fetch, Others, TaskInv, TypeInv, Growing
  <2>8. l \in Labels
    BY DEF Labels
  <2> QED
    BY <1>0, <1>2, <2>5, <2>6, <2>7, <2>8, TypeStep DEF Price, locals, fetch
<1>3. CASE StartDetection
  <2> DEFINE clone == clone_retaining_pools(graph)
             dirty == {x \in DOMAIN clone : clone[x].dirty}
             scan == IF dirty = {} THEN DOMAIN clone ELSE dirty
  <2>1. /\ cloned' = Contents(clone)
        /\ seen' = Only(Over(seen, Only(Contents(clone), scan)), DOMAIN graph)
        /\ outside' = (outside \union {x \in DOMAIN graph : graph[x].dirty}) \ scan
        /\ graph' = clear_dirty(graph)
    BY <1>3 DEF StartDetection
  <2>2. IsGraph(graph) /\ Partial(seen, EdgeId, EdgeContent) /\ outside \subseteq EdgeId
    BY <1>0 DEF EngineTypeOK, IsGraph
  <2>3. IsGraph(clone)
    BY <2>2, PartialOnly DEF clone_retaining_pools, IsGraph
  <2>4. Partial(Contents(clone), EdgeId, EdgeContent) /\ IsGraph(clear_dirty(graph))
    BY <2>2, <2>3, ContentsType
  <2>5. Partial(seen', EdgeId, EdgeContent)
    BY <2>1, <2>2, <2>4, PartialOver, PartialOnly
  <2>6. outside' \subseteq EdgeId
    BY <2>1, <2>2 DEF IsGraph, Partial
  <2> HIDE DEF clone, dirty, scan
  <2>7. EngineTypeOK'
    BY <1>0, <1>3, <2>1, <2>4, <2>5, <2>6
    DEF StartDetection, world, locals, plan, fetch, counts, IsGraph, EngineTypeOK
  <2>8. Others("loop") /\ TaskInv("loop")'
    BY <1>0, <1>3 DEF StartDetection, Goto, locals, fetch, Others, TaskInv, TypeInv, Growing
  <2> QED
    BY <1>0, <1>3, <2>7, <2>8, TypeStep DEF StartDetection, Goto, locals, fetch, Labels
<1>4. CASE Publish
  <2>1. EngineTypeOK'
    BY <1>0, <1>4, PartialEmpty DEF Publish, world, locals, plan, fetch, counts, history, EngineTypeOK
  <2>2. Others("loop") /\ TaskInv("loop")'
    BY <1>0, <1>4 DEF Publish, Goto, locals, fetch, Others, TaskInv, TypeInv, Growing
  <2> QED
    BY <1>0, <1>4, <2>1, <2>2, TypeStep DEF Publish, Goto, locals, fetch, Labels
<1>5. CASE RefreshHotCache
  <2>1. PICK top \in SUBSET created : /\ hot' = top /\ rm' = hot \ top
          /\ \E w \in SUBSET (top \ hot) : want' = w /\ add' = [add EXCEPT !["sync"] = w]
    BY <1>5 DEF RefreshHotCache
  <2>2. hot' \subseteq Pools /\ rm' \subseteq Pools /\ want' \subseteq Pools
        /\ add' \in [Tasks -> SUBSET Pools] /\ syncs' \in Nat
    <3>1. syncs' \in Nat
      BY <1>0, <1>5, SMTT(20) DEF RefreshHotCache, EngineTypeOK
    <3>2. hot \subseteq Pools /\ created \subseteq Pools /\ add \in [Tasks -> SUBSET Pools]
      BY <1>0 DEF EngineTypeOK
    <3> QED
      BY <2>1, <3>1, <3>2
  <2>3. EngineTypeOK'
    <3>1. UNCHANGED <<alone, token_index, registry, graph, vertices, snapshot, pool_states, world,
                      locals, fetch, held, cloned, trades, jobs, history>>
      BY <1>5 DEF RefreshHotCache
    <3> QED
      BY <1>0, <2>2, <3>1 DEF world, locals, fetch, history, EngineTypeOK
  <2>4. Others("sync") /\ TaskInv("sync")'
    BY <1>0, <1>5 DEF RefreshHotCache, Goto, locals, fetch, Others, TaskInv, TypeInv, Growing
  <2> QED
    BY <1>0, <1>5, <2>3, <2>4, TypeStep DEF RefreshHotCache, Goto, locals, fetch, Labels
<1>6. CASE ReloadConfig
  <2>1. add' \in [Tasks -> SUBSET Pools] /\ jobs' \in Nat
    <3>1. PICK file \in SUBSET created : add' = [add EXCEPT !["reload"] = file]
      BY <1>6 DEF ReloadConfig
    <3>2. created \subseteq Pools /\ add \in [Tasks -> SUBSET Pools]
      BY <1>0 DEF EngineTypeOK
    <3>3. jobs' \in Nat
      BY <1>0, <1>6, SMTT(20) DEF ReloadConfig, EngineTypeOK
    <3> QED
      BY <3>1, <3>2, <3>3
  <2>2. EngineTypeOK'
    <3>1. UNCHANGED <<alone, shared, world, locals, rm, want, fetch, held, cloned, trades, syncs,
                      history>>
      BY <1>6 DEF ReloadConfig
    <3> QED
      BY <1>0, <2>1, <3>1 DEF shared, world, locals, fetch, history, EngineTypeOK
  <2>3. Others("reload") /\ TaskInv("reload")'
    BY <1>0, <1>6 DEF ReloadConfig, Goto, locals, fetch, Others, TaskInv, TypeInv, Growing
  <2> QED
    BY <1>0, <1>6, <2>2, <2>3, TypeStep DEF ReloadConfig, Goto, locals, fetch, Labels
<1>7. CASE RefreshPoolStates
  <2>1. jobs' \in Nat
    <3>1. jobs \in Nat
      BY <1>0 DEF EngineTypeOK
    <3>2. jobs > 0 /\ jobs' = jobs - 1
      BY <1>7 DEF RefreshPoolStates
    <3> QED
      BY <3>1, <3>2, SMTT(20)
  <2>2. EngineTypeOK'
    BY <1>0, <1>7, <2>1 DEF RefreshPoolStates, shared, world, locals, plan, fetch, history, EngineTypeOK
  <2>3. Others("refresh") /\ TaskInv("refresh")'
    BY <1>0, <1>7 DEF RefreshPoolStates, Goto, locals, fetch, Others, TaskInv, TypeInv, Growing
  <2> QED
    BY <1>0, <1>7, <2>2, <2>3, TypeStep DEF RefreshPoolStates, Goto, locals, fetch, Labels
<1> QED
  BY <1>1, <1>2, <1>3, <1>4, <1>5, <1>6, <1>7

-----------------------------------------------------------------------------
(* AloneInv is inductive where alone holds.                                *)

\* The channel of events: receiving, sending, and a full channel.
LEMMA OnceMore ==
    ASSUME NEW queue, NEW F, NEW G, Once(queue, F), F \subseteq G
    PROVE  Once(queue, G)
  BY DEF Once

\* What is received leaves the queue, and a created pool leaves the free ones.
LEMMA OnceTail ==
    ASSUME NEW queue \in Seq(PoolEvent), queue # <<>>, NEW F, Once(queue, F)
    PROVE  /\ Once(Tail(queue), F)
           /\ Head(queue).created = TRUE =>
                Head(queue).pool \in F /\ Once(Tail(queue), F \ {Head(queue).pool})
<1> DEFINE rest == Tail(queue)
<1>1. /\ Len(queue) \in Nat \ {0} /\ Len(rest) = Len(queue) - 1
      /\ \A i \in 1..Len(rest) : rest[i] = queue[i + 1] /\ i + 1 \in 1..Len(queue)
      /\ Head(queue) = queue[1] /\ 1 \in 1..Len(queue)
  BY SMTT(20)
<1> HIDE DEF rest
<1>2. \A i, j \in 1..Len(rest) : i # j => i + 1 # j + 1
  BY <1>1, SMTT(20)
<1>3. \A i \in 1..Len(rest) : i + 1 # 1
  BY <1>1, SMTT(20)
<1>4. Once(rest, F)
  BY <1>1, <1>2, SMTT(20) DEF Once
<1>5. ASSUME Head(queue).created = TRUE
      PROVE  Head(queue).pool \in F /\ Once(rest, F \ {Head(queue).pool})
  <2>1. \A i \in 1..Len(rest) : rest[i].created = TRUE => rest[i].pool # Head(queue).pool
    BY <1>1, <1>3, <1>5, SMTT(20) DEF Once
  <2>2. Head(queue).pool \in F
    BY <1>1, <1>5 DEF Once
  <2> QED
    BY <1>4, <2>1, <2>2 DEF Once
<1> QED
  BY <1>4, <1>5 DEF rest

\* A creation is sent about a pool that was not in the queue.
LEMMA OnceAppend ==
    ASSUME NEW queue \in Seq(PoolEvent), NEW e \in PoolEvent, NEW F, NEW G, Once(queue, F),
           F \subseteq G, e.created = TRUE => e.pool \in G \ F
    PROVE  Once(Append(queue, e), G)
<1> DEFINE more == Append(queue, e)
           n == Len(queue)
<1>1. n \in Nat /\ Len(more) = n + 1 /\ more[n + 1] = e /\ \A i \in 1..n : more[i] = queue[i]
  BY SMTT(20)
<1> HIDE DEF more, n
<1>2. \A i \in 1..(n + 1) : i \in 1..n \/ i = n + 1
  BY <1>1, SMTT(20)
<1>3. \A i \in 1..(n + 1) : more[i].created = TRUE => more[i].pool \in G
  BY <1>1, <1>2 DEF Once, n
<1>4. ASSUME NEW i \in 1..(n + 1), NEW j \in 1..(n + 1),
             more[i].created = TRUE, more[j].created = TRUE, i # j
      PROVE  more[i].pool # more[j].pool
  <2>1. CASE i \in 1..n /\ j \in 1..n
    BY <1>1, <1>4, <2>1 DEF Once, n
  <2>2. CASE i = n + 1 /\ j \in 1..n
    BY <1>1, <1>4, <2>2 DEF Once, n
  <2>3. CASE j = n + 1 /\ i \in 1..n
    BY <1>1, <1>4, <2>3 DEF Once, n
  <2> QED
    BY <1>2, <1>4, <2>1, <2>2, <2>3
<1> QED
  BY <1>1, <1>3, <1>4 DEF Once, more

\* dispatch_pool_update keeps it, whether or not anybody listens.
LEMMA OnceDispatch ==
    ASSUME TypeInv, NEW e \in PoolEvent, Dispatch(e), NEW F, NEW G, Once(events, F),
           F \subseteq G, e.created = TRUE => e.pool \in G \ F
    PROVE  Once(events', G)
<1> DEFINE queue == Append(events, e)
<1>1. events' = events \/ events' = queue \/ events' = Tail(queue)
  BY DEF Dispatch
<1>2. events \in Seq(PoolEvent) /\ queue \in Seq(PoolEvent) /\ queue # <<>>
  BY SMTT(20) DEF TypeInv, EngineTypeOK
<1>3. Once(events, G) /\ Once(queue, G)
  BY <1>2, OnceMore, OnceAppend
<1> HIDE DEF queue
<1>4. Once(Tail(queue), G)
  BY <1>2, <1>3, OnceTail
<1> QED
  BY <1>1, <1>3, <1>4

\* A task that registers nothing has no copies to agree.
LEMMA NoCopies ==
    ASSUME NEW t, pc[t] \notin Unstored \union {"add_edges"}
    PROVE  CopyAgrees(t)
  BY DEF CopyAgrees, Unstored, Growing

\* Who registers: main, or the event loop once main is done.
LEMMA OneRegistrar ==
    ASSUME TasksAlone, NEW t \in Tasks, pc[t] \in Unstored \union {"add_edges"}
    PROVE  \/ /\ t = "boot" /\ pc["loop"] = "idle" /\ pc["refresh"] = "idle" /\ events = <<>>
           \/ t = "loop" /\ pc["boot"] = "idle"
  BY DEF TasksAlone, Tasks, Unstored

\* An empty queue.
LEMMA OnceEmpty == \A F : Once(<<>>, F)
  BY SMTT(20) DEF Once

\* Of registered pools the graph has the vertices, once no registration is under way.
LEMMA RegisteredInBounds ==
    ASSUME TypeInv, AloneInv, pc["boot"] \notin Growing, pc["loop"] \notin Growing,
           NEW p \in DOMAIN registry
    PROVE  InBounds(registry[p])
<1>1. Len(token_index) <= vertices /\ Len(token_index) \in Nat /\ vertices \in Nat
  BY SMTT(20) DEF AloneInv, GraphCovers, TypeInv, EngineTypeOK
<1>2. registry[p].i0 \in Nat /\ registry[p].i1 \in Nat
  BY DEF TypeInv, EngineTypeOK, Partial, PoolMetadata
<1>3. registry[p].i0 <= Len(token_index) /\ registry[p].i1 <= Len(token_index)
  BY DEF AloneInv, IndexAgrees
<1> QED
  BY <1>1, <1>2, <1>3, SMTT(20) DEF InBounds

\* The edges a graph has gained are those of registered pools.
LEMMA EdgesGained ==
    ASSUME EdgesRegistered, UNCHANGED registry, NEW E, DOMAIN graph' \subseteq DOMAIN graph \union E,
           \A e \in E : e.pool \in DOMAIN registry /\ e = Edge(e.pool, registry[e.pool])
    PROVE  EdgesRegistered'
  BY DEF EdgesRegistered

\* register_pool: between its steps nobody else touches what it has copied.
LEMMA AloneRegistering ==
    ASSUME TypeInv, AloneInv, NEW t \in Tasks, Registering(t)
    PROVE  AloneInv'
<1>0. /\ TasksAlone /\ CopyAgrees(t) /\ GraphCovers /\ RegistryKept /\ IndexAgrees
      /\ EdgesRegistered /\ Once(events, Free)
      /\ pc \in [Tasks -> Labels] /\ DOMAIN reg = Tasks /\ index \in [Tasks -> Seq(Tokens)]
      /\ {"boot", "loop", "sync", "reload", "refresh"} = Tasks
  <2>1. CopyAgrees("boot") /\ CopyAgrees("loop")
    BY DEF AloneInv
  <2>2. t \in {"boot", "loop"}
    <3>1. pc[t] \in Unstored \union {"add_edges"} \/ pc[t] \in {"load_removed", "load_warmed"}
      BY DEF Registering, LoadIndex, StoreIndex, LoadRegistry, StoreRegistry, AddEdges, Unstored
    <3> QED
      BY <3>1 DEF AloneInv, TasksAlone, Tasks, Unstored
  <2> QED
    BY <2>1, <2>2 DEF AloneInv, TypeInv, EngineTypeOK, Tasks
<1>1. pc[t] \in Unstored \union {"add_edges"}
  BY <1>0 DEF Registering, LoadIndex, StoreIndex, LoadRegistry, StoreRegistry, AddEdges, Unstored,
    TasksAlone
<1>2. \/ /\ t = "boot" /\ pc["loop"] = "idle" /\ pc["refresh"] = "idle" /\ events = <<>>
      \/ t = "loop" /\ pc["boot"] = "idle"
  BY <1>0, <1>1, OneRegistrar
<1> DEFINE u == IF t = "boot" THEN "loop" ELSE "boot"
<1>3. u \in Tasks /\ u # t /\ {t, u} = {"boot", "loop"} /\ pc[u] = "idle"
  BY <1>0, <1>2
<1> HIDE DEF u
\* What every step leaves to be shown.
<1>4. ASSUME NEW l \in Unstored \union {"add_edges", "next", "idle"},
             t = "loop" => l # "next",
             pc' = [pc EXCEPT ![t] = l],
             UNCHANGED <<events, created, add, metas, held>>
      PROVE  /\ TasksAlone' /\ pc'[t] = l /\ pc'[u] = "idle"
             /\ CopyAgrees(u)'
             /\ (CopyAgrees(t)' => CopyAgrees("boot")' /\ CopyAgrees("loop")')
  <2>1. pc'[t] = l /\ \A s \in Tasks \ {t} : pc'[s] = pc[s]
    BY <1>0, <1>4
  <2>2. TasksAlone'
    BY <1>0, <1>2, <1>4, <2>1 DEF TasksAlone, Unstored
  <2>3. CopyAgrees(u)'
    BY <1>3, <2>1, NoCopies DEF CopyAgrees, Unstored, Growing
  <2>4. CopyAgrees(t)' => CopyAgrees("boot")' /\ CopyAgrees("loop")'
    BY <1>2, <2>3 DEF u
  <2> QED
    BY <1>3, <2>1, <2>2, <2>3, <2>4
<1>5. CASE LoadIndex(t)
  <2>1. /\ pc[t] = "load_index" /\ pc' = [pc EXCEPT ![t] = "store_index"] /\ index'[t] = token_index
        /\ UNCHANGED <<shared, world, pool, v3, reg, plan, fetch, held>>
    BY <1>0, <1>5 DEF LoadIndex, Goto
  <2>2. TasksAlone' /\ pc'[t] = "store_index" /\ pc'[u] = "idle"
        /\ (CopyAgrees(t)' => CopyAgrees("boot")' /\ CopyAgrees("loop")')
    BY <1>4, <2>1 DEF Unstored, shared, world, plan, fetch
  <2>3. CopyAgrees(t)'
    BY <1>0, <2>1, <2>2 DEF CopyAgrees, Unstored, Growing, shared, world
  <2>4. GraphCovers'
    BY <1>0, <1>2, <2>1, <2>2, <1>3 DEF GraphCovers, Growing, shared
  <2>5. RegistryKept' /\ IndexAgrees' /\ EdgesRegistered'
    BY <1>0, <2>1 DEF RegistryKept, IndexAgrees, EdgesRegistered, InBounds, shared, world, fetch
  <2>6. Free' = Free
    BY <1>0, <1>2, <2>1, <2>2 DEF Free, Unstored, shared, world
  <2> QED
    BY <1>0, <2>1, <2>2, <2>3, <2>4, <2>5, <2>6 DEF AloneInv, world
<1>6. CASE StoreIndex(t)
  <2>1. PICK p \in pool[t] :
          /\ pc[t] = "store_index" /\ pc' = [pc EXCEPT ![t] = "load_registry"]
          /\ token_index' = WithTokens(index[t], p) /\ index'[t] = token_index'
          /\ UNCHANGED <<registry, graph, vertices, world, pool, v3, reg, plan, fetch, held>>
    BY <1>0, <1>6 DEF StoreIndex, Goto, WithTokens
  <2>2. TasksAlone' /\ pc'[t] = "load_registry" /\ pc'[u] = "idle"
        /\ (CopyAgrees(t)' => CopyAgrees("boot")' /\ CopyAgrees("loop")')
    BY <1>4, <2>1 DEF Unstored, world, plan, fetch
  <2>3. CopyAgrees(t)'
    BY <1>0, <2>1, <2>2 DEF CopyAgrees, Unstored, Growing, world
  <2>4. GraphCovers'
    BY <1>3, <2>2 DEF GraphCovers, Growing
  <2>5. IndexAgrees'
    <3>1. index[t] = token_index /\ token_index \in Seq(Tokens) /\ p \in Pools
      BY <1>0, <2>1 DEF CopyAgrees, TypeInv, EngineTypeOK
    <3>2. /\ Len(token_index) <= Len(token_index') /\ token_index' \in Seq(Tokens)
          /\ \A i \in 1..Len(token_index) : token_index'[i] = token_index[i]
      <4> DEFINE r == WithTokens(token_index, p)
      <4>1. r \in Seq(Tokens) /\ Len(token_index) <= Len(r)
            /\ \A i \in 1..Len(token_index) : r[i] = token_index[i]
        BY <3>1, WithTokensKeeps
      <4>2. token_index' = r
        BY <2>1, <3>1
      <4> HIDE DEF r
      <4> QED
        BY <4>1, <4>2
    <3>3. Len(token_index) \in Nat /\ Len(token_index') \in Nat
      BY <3>1, <3>2, SMTT(20)
    <3>4. \A q \in DOMAIN registry : registry[q].i0 \in Nat \ {0} /\ registry[q].i1 \in Nat \ {0}
      BY DEF TypeInv, EngineTypeOK, Partial, PoolMetadata
    <3>5. \A q \in DOMAIN registry : registry[q].i0 \in 1..Len(token_index)
                                     /\ registry[q].i1 \in 1..Len(token_index)
      BY <1>0, <3>3, <3>4, SMTT(20) DEF IndexAgrees
    <3> QED
      BY <1>0, <2>1, <3>2, <3>3, <3>4, <3>5, SMTT(20) DEF IndexAgrees
  <2>6. RegistryKept' /\ EdgesRegistered'
    BY <1>0, <2>1 DEF RegistryKept, EdgesRegistered, InBounds, world, fetch
  <2>7. Free' = Free
    BY <1>0, <1>2, <2>1, <2>2 DEF Free, Unstored, world
  <2> QED
    BY <1>0, <2>1, <2>2, <2>3, <2>4, <2>5, <2>6, <2>7 DEF AloneInv, world
<1>7. CASE LoadRegistry(t)
  <2>1. /\ pc[t] = "load_registry" /\ pc' = [pc EXCEPT ![t] = "store_registry"]
        /\ reg'[t] = registry
        /\ UNCHANGED <<shared, world, pool, v3, index, plan, fetch, held>>
    BY <1>0, <1>1, <1>7 DEF LoadRegistry, Goto, Unstored
  <2>2. TasksAlone' /\ pc'[t] = "store_registry" /\ pc'[u] = "idle"
        /\ (CopyAgrees(t)' => CopyAgrees("boot")' /\ CopyAgrees("loop")')
    BY <1>4, <2>1 DEF Unstored, shared, world, plan, fetch
  <2>3. CopyAgrees(t)'
    BY <1>0, <2>1, <2>2 DEF CopyAgrees, Unstored, Growing, shared, world
  <2>4. GraphCovers'
    BY <1>3, <2>2 DEF GraphCovers, Growing
  <2>5. RegistryKept' /\ IndexAgrees' /\ EdgesRegistered'
    BY <1>0, <2>1 DEF RegistryKept, IndexAgrees, EdgesRegistered, InBounds, shared, world, fetch
  <2>6. Free' = Free
    BY <1>0, <1>2, <2>1, <2>2 DEF Free, Unstored, shared, world
  <2> QED
    BY <1>0, <2>1, <2>2, <2>3, <2>4, <2>5, <2>6 DEF AloneInv, world
<1>8. CASE StoreRegistry(t)
  <2>1. PICK p \in pool[t] :
          /\ pc[t] = "store_registry" /\ pc' = [pc EXCEPT ![t] = "add_edges"]
          /\ registry' = Over(reg[t], One(p, Metadata(t, p)))
          /\ UNCHANGED <<token_index, graph, vertices, world, pool, v3, index, plan, fetch, held>>
    BY <1>8 DEF StoreRegistry, Goto, locals
  <2>2. TasksAlone' /\ pc'[t] = "add_edges" /\ pc'[u] = "idle"
        /\ (CopyAgrees(t)' => CopyAgrees("boot")' /\ CopyAgrees("loop")')
    BY <1>4, <2>1 DEF Unstored, world, plan, fetch
  <2>3. /\ reg[t] = registry /\ index[t] = token_index /\ p \in created /\ p \notin DOMAIN registry
        /\ \A q \in pool[t] : q = p
    BY <1>0, <2>1 DEF CopyAgrees, Growing, Unstored, TypeInv, TaskInv
  <2>4. /\ DOMAIN registry' = DOMAIN registry \union {p} /\ registry'[p] = Metadata(t, p)
        /\ \A q \in DOMAIN registry : registry'[q] = registry[q]
    BY <2>1, <2>3 DEF Over, One
  <2>5. Metadata(t, p)' = Metadata(t, p)
    BY <2>1 DEF Metadata
  <2>6. CopyAgrees(t)'
    BY <2>1, <2>2, <2>3, <2>4, <2>5 DEF CopyAgrees, Unstored, Growing
  <2>7. GraphCovers'
    BY <1>3, <2>2 DEF GraphCovers, Growing
  <2>8. RegistryKept'
    BY <1>0, <2>1, <2>3, <2>4, SMTT(20) DEF RegistryKept, InBounds, world, fetch
  <2>9. IndexAgrees'
    <3>1. /\ Metadata(t, p).i0 <= Len(index[t]) /\ index[t][Metadata(t, p).i0] = token0[p]
          /\ Metadata(t, p).i1 <= Len(index[t]) /\ index[t][Metadata(t, p).i1] = token1[p]
      BY <2>1, MetadataType DEF Growing
    <3> QED
      BY <1>0, <2>1, <2>3, <2>4, <3>1, SMTT(20) DEF IndexAgrees
  <2>10. EdgesRegistered'
    BY <1>0, <2>1, <2>4 DEF EdgesRegistered
  <2>11. Once(events, Free)'
    <3>1. CASE t = "loop"
      <4>1. Free' = Free
        BY <2>1, <2>2, <2>3, <2>4, <3>1 DEF Free, Unstored, world
      <4> QED
        BY <1>0, <2>1, <4>1 DEF world
    <3>2. CASE events = <<>>
      BY <2>1, <3>2, OnceEmpty DEF world
    <3> QED
      BY <1>2, <3>1, <3>2
  <2> QED
    BY <2>2, <2>6, <2>7, <2>8, <2>9, <2>10, <2>11 DEF AloneInv
<1>9. CASE AddEdges(t)
  <2>1. PICK p \in pool[t] :
          /\ pc[t] = "add_edges"
          /\ vertices' = IF Len(index[t]) > vertices THEN Len(index[t]) ELSE vertices
          /\ graph' = add_edge(graph, Edge(p, Metadata(t, p)), 0)
          /\ UNCHANGED <<token_index, registry, world, plan, fetch, held>>
    BY <1>9 DEF AddEdges
  <2>2. PICK l \in {"next", "idle"} : pc' = [pc EXCEPT ![t] = l] /\ (t = "loop" => l # "next")
    BY <1>2, <1>9 DEF AddEdges, Finish, Goto
  <2>3. TasksAlone' /\ pc'[t] = l /\ pc'[u] = "idle"
        /\ (CopyAgrees(t)' => CopyAgrees("boot")' /\ CopyAgrees("loop")')
    BY <1>4, <2>1, <2>2 DEF world, plan, fetch
  <2>4. CopyAgrees(t)'
    BY <2>2, <2>3 DEF CopyAgrees, Unstored, Growing
  <2>5. /\ index[t] = token_index /\ p \in DOMAIN registry /\ registry[p] = Metadata(t, p)
        /\ Len(token_index) \in Nat /\ vertices \in Nat
    BY <1>0, <2>1, SMTT(20) DEF CopyAgrees, Growing, TypeInv, EngineTypeOK
  <2>6. GraphCovers' /\ vertices <= vertices' /\ vertices' \in Nat
    BY <2>1, <2>5, SMTT(20) DEF GraphCovers
  <2>7. RegistryKept'
    <3>1. ASSUME NEW h \in held
          PROVE  InBounds(h.meta)'
      <4>1. InBounds(h.meta) /\ h.meta.i0 \in Nat /\ h.meta.i1 \in Nat
        BY <1>0 DEF RegistryKept, TypeInv, EngineTypeOK, PoolMetadata
      <4> QED
        BY <2>5, <2>6, <4>1, SMTT(20) DEF InBounds
    <3> QED
      BY <1>0, <2>1, <3>1 DEF RegistryKept, world, fetch
  <2>8. IndexAgrees'
    BY <1>0, <2>1 DEF IndexAgrees
  <2>9. EdgesRegistered'
    <3> DEFINE e == Edge(p, registry[p])
    <3>1. DOMAIN graph' = DOMAIN graph \union {e}
      BY <2>1, <2>5, OverDomain DEF add_edge
    <3>2. e.pool = p
      BY DEF Edge
    <3> HIDE DEF e
    <3>3. e = Edge(e.pool, registry[e.pool]) /\ e.pool \in DOMAIN registry
      BY <2>5, <3>2 DEF e
    <3> QED
      BY <1>0, <2>1, <3>1, <3>3, EdgesGained
  <2>10. Once(events, Free)'
    <3>1. Free \subseteq Free'
      <4>1. pc'["loop"] \notin Unstored
        BY <1>3, <2>2, <2>3 DEF Unstored
      <4> QED
        BY <2>1, <4>1 DEF Free, world
    <3> QED
      BY <1>0, <2>1, <3>1, OnceMore DEF world
  <2> QED
    BY <2>3, <2>4, <2>6, <2>7, <2>8, <2>9, <2>10 DEF AloneInv
<1> QED
  BY <1>5, <1>6, <1>7, <1>8, <1>9 DEF Registering

\* A step that registers nothing and forgets nothing.
LEMMA AloneKept ==
    ASSUME AloneInv, UNCHANGED <<token_index, registry, vertices>>, created \subseteq created',
           \A t \in {"boot", "loop"} :
             \/ /\ pc[t] \notin Unstored \union {"add_edges"}
                /\ pc'[t] \notin Unstored \union {"add_edges"}
             \/ /\ pc'[t] = pc[t] /\ pool'[t] = pool[t] /\ v3'[t] = v3[t]
                /\ index'[t] = index[t] /\ reg'[t] = reg[t]
    PROVE  /\ CopyAgrees("boot")' /\ CopyAgrees("loop")' /\ GraphCovers' /\ IndexAgrees'
           /\ Free \subseteq Free'
<1>0. /\ CopyAgrees("boot") /\ CopyAgrees("loop") /\ GraphCovers /\ IndexAgrees
  BY DEF AloneInv
<1>1. ASSUME NEW t \in {"boot", "loop"}
      PROVE  CopyAgrees(t)'
  <2>1. CASE pc'[t] \notin Unstored \union {"add_edges"}
    BY <2>1, NoCopies DEF CopyAgrees, Unstored, Growing
  <2>2. CASE /\ pc'[t] = pc[t] /\ pool'[t] = pool[t] /\ v3'[t] = v3[t]
             /\ index'[t] = index[t] /\ reg'[t] = reg[t]
    <3>1. \A p : Metadata(t, p)' = Metadata(t, p)
      BY <2>2 DEF Metadata
    <3> QED
      BY <1>0, <2>2, <3>1, SMTT(20) DEF CopyAgrees
  <2> QED
    BY <2>1, <2>2
<1>2. \A t \in {"boot", "loop"} : pc[t] \in Growing <=> pc'[t] \in Growing
  BY DEF Growing, Unstored
<1>3. GraphCovers'
  BY <1>0, <1>2 DEF GraphCovers
<1>4. IndexAgrees'
  BY <1>0 DEF IndexAgrees
<1>5. Free \subseteq Free'
  BY DEF Free
<1> QED
  BY <1>1, <1>3, <1>4, <1>5

\* A step of a task that fetches, and a task that starts to.
LEMMA FetchAlone ==
    ASSUME TypeInv, TasksAlone, NEW t \in {"boot", "refresh"},
           pc[t] # "idle" \/ (t = "refresh" /\ pc["boot"] = "idle"),
           NEW l \in {"collect", "rpc", "seed", "idle", "panicked"}, pc' = [pc EXCEPT ![t] = l],
           UNCHANGED <<events, created, add>>
    PROVE  TasksAlone' /\ \A s \in Tasks \ {t} : pc'[s] = pc[s]
<1>1. pc'[t] = l /\ (\A s \in Tasks \ {t} : pc'[s] = pc[s])
      /\ Tasks = {"boot", "loop", "sync", "reload", "refresh"}
  BY DEF TypeInv, Tasks
<1>2. CASE t = "boot"
  BY <1>1, <1>2 DEF TasksAlone
<1>3. CASE t = "refresh"
  <2>1. pc["boot"] = "idle"
    BY <1>3 DEF TasksAlone
  <2> QED
    BY <1>1, <1>3, <2>1 DEF TasksAlone
<1> QED
  BY <1>2, <1>3

\* Finish touches the task's own copies only.
LEMMA FinishOwn ==
    ASSUME TypeInv, NEW t \in Tasks, Finish(t) \/ UNCHANGED locals
    PROVE  \A s \in Tasks \ {t} : /\ pool'[s] = pool[s] /\ v3'[s] = v3[s]
                                  /\ index'[s] = index[s] /\ reg'[s] = reg[s]
  BY DEF Finish, locals, TypeInv, EngineTypeOK

\* bootstrap_pools: only main is at it.
LEMMA AloneRegisterNext ==
    ASSUME TypeInv, AloneInv, NEW t \in Tasks, RegisterNext(t)
    PROVE  AloneInv'
<1>0. /\ TasksAlone /\ GraphCovers /\ RegistryKept /\ EdgesRegistered /\ Once(events, Free)
      /\ pc[t] = "next" /\ Tasks = {"boot", "loop", "sync", "reload", "refresh"}
      /\ pc \in [Tasks -> Labels] /\ add \in [Tasks -> SUBSET Pools] /\ pool \in [Tasks -> SUBSET Pools]
      /\ v3 \in [Tasks -> BOOLEAN]
      /\ UNCHANGED <<shared, world, index, reg, fetch, held>>
  BY DEF AloneInv, RegisterNext, TypeInv, EngineTypeOK, Tasks
<1>1. t = "boot" /\ pc["loop"] = "idle" /\ pc["refresh"] = "idle" /\ events = <<>>
  BY <1>0 DEF TasksAlone, Unstored
<1>2. RegistryKept' /\ EdgesRegistered' /\ Once(events, Free)'
  BY <1>0, <1>1, OnceEmpty DEF RegistryKept, EdgesRegistered, InBounds, shared, world, fetch
<1>3. CASE UNCHANGED <<pool, v3>> /\ add'["boot"] \subseteq add["boot"]
           /\ (UNCHANGED pc \/ Goto(t, "collect"))
  <2>1. /\ \A s \in Tasks \ {t} : pc'[s] = pc[s]
        /\ pc'[t] \in {"next", "collect"}
    BY <1>0, <1>3 DEF Goto
  <2>2. TasksAlone'
    BY <1>0, <1>1, <1>3, <2>1 DEF TasksAlone, world
  <2>3. CopyAgrees("boot")' /\ CopyAgrees("loop")' /\ GraphCovers' /\ IndexAgrees'
    BY <1>0, <1>1, <1>3, <2>1, AloneKept DEF Unstored, shared, world
  <2> QED
    BY <1>2, <2>2, <2>3 DEF AloneInv
<1>4. CASE \E p \in add[t] : /\ p \notin DOMAIN registry /\ add' = [add EXCEPT ![t] = @ \ {p}]
                             /\ pool' = [pool EXCEPT ![t] = {p}] /\ v3' = [v3 EXCEPT ![t] = p \in V3]
                             /\ Goto(t, "load_index")
  <2>1. PICK p \in add[t] : /\ p \notin DOMAIN registry /\ add'["boot"] = add["boot"] \ {p}
                            /\ pool'["boot"] = {p} /\ pc' = [pc EXCEPT !["boot"] = "load_index"]
    BY <1>0, <1>1, <1>4 DEF Goto
  <2>2. pc'["boot"] = "load_index" /\ \A s \in Tasks \ {"boot"} : pc'[s] = pc[s]
    BY <1>0, <2>1
  <2>3. TasksAlone' /\ p \in created
    BY <1>0, <1>1, <2>1, <2>2 DEF TasksAlone, Unstored, world
  <2>4. CopyAgrees("boot")'
    BY <1>0, <2>1, <2>2, <2>3 DEF CopyAgrees, Unstored, Growing, shared, world
  <2>5. CopyAgrees("loop")'
    BY <1>0, <1>1, <2>2, NoCopies DEF CopyAgrees, Unstored, Growing
  <2>6. GraphCovers' /\ IndexAgrees'
    BY <1>0, <1>1, <2>2 DEF GraphCovers, IndexAgrees, Growing, AloneInv, shared
  <2> QED
    BY <1>2, <2>3, <2>4, <2>5, <2>6 DEF AloneInv
<1>5. \/ add[t] = {} /\ Goto(t, "collect") /\ UNCHANGED <<add, pool, v3>>
      \/ \E p \in add[t] : add' = [add EXCEPT ![t] = @ \ {p}]
           /\ IF p \in DOMAIN registry THEN UNCHANGED <<pc, pool, v3>>
              ELSE /\ pool' = [pool EXCEPT ![t] = {p}] /\ v3' = [v3 EXCEPT ![t] = p \in V3]
                   /\ Goto(t, "load_index")
  BY DEF RegisterNext
<1>6. \A p \in add[t] : add' = [add EXCEPT ![t] = @ \ {p}] => add'["boot"] \subseteq add["boot"]
  BY <1>0, <1>1, SMTT(20)
<1> QED
  BY <1>1, <1>3, <1>4, <1>5, <1>6

\* fetch_initial_reserves_filtered up to the answers.
LEMMA AloneFetch ==
    ASSUME TypeInv, AloneInv, NEW t \in Tasks, Collect(t) \/ Ask(t)
    PROVE  AloneInv'
<1>0. /\ TasksAlone /\ RegistryKept /\ EdgesRegistered /\ Once(events, Free)
      /\ Tasks = {"boot", "loop", "sync", "reload", "refresh"}
      /\ pc[t] \in {"collect", "rpc"} /\ DOMAIN metas = Tasks
      /\ UNCHANGED <<shared, world, add, held>>
  BY DEF AloneInv, Collect, Ask, TypeInv, Tasks, plan
<1>1. t \in {"boot", "refresh"}
  BY <1>0 DEF TasksAlone, Unstored
<1>2. (Finish(t) \/ UNCHANGED locals)
      /\ \E l \in {"rpc", "seed", "idle"} : pc' = [pc EXCEPT ![t] = l]
  BY DEF Collect, Ask, Finish, Goto
<1>3. PICK l \in {"rpc", "seed", "idle"} : pc' = [pc EXCEPT ![t] = l]
  BY <1>2
<1>4. TasksAlone' /\ (\A s \in Tasks \ {t} : pc'[s] = pc[s]) /\ pc'[t] = l
  <2>1. TasksAlone' /\ (\A s \in Tasks \ {t} : pc'[s] = pc[s])
    BY <1>0, <1>1, <1>3, FetchAlone DEF world
  <2> QED
    BY <1>3, <2>1 DEF TypeInv
<1>5. \A s \in Tasks \ {t} : /\ pool'[s] = pool[s] /\ v3'[s] = v3[s]
                             /\ index'[s] = index[s] /\ reg'[s] = reg[s]
  BY <1>2, FinishOwn
<1>6. CopyAgrees("boot")' /\ CopyAgrees("loop")' /\ GraphCovers' /\ IndexAgrees' /\ Free \subseteq Free'
  <2>1. pc[t] \notin Unstored \union {"add_edges"} /\ pc'[t] \notin Unstored \union {"add_edges"}
    BY <1>0, <1>4 DEF Unstored
  <2> QED
    BY <1>0, <1>4, <1>5, <2>1, AloneKept DEF shared, world
<1>7. metas'[t] \in {metas[t], registry} /\ \A s \in Tasks \ {t} : metas'[s] = metas[s]
  BY <1>0, <1>1 DEF Collect, Ask
<1>8. RegistryKept'
  BY <1>0, <1>7, SMTT(20) DEF RegistryKept, InBounds, shared, world
<1>9. EdgesRegistered' /\ Once(events, Free)'
  BY <1>0, <1>6, OnceMore DEF EdgesRegistered, shared, world
<1> QED
  BY <1>4, <1>6, <1>8, <1>9 DEF AloneInv

\* Seeding, with or without the panic of the task that seeds.
LEMMA AloneSeed ==
    ASSUME TypeInv, AloneInv, NEW t \in Tasks, Seed(t)
    PROVE  AloneInv'
<1>0. /\ TasksAlone /\ RegistryKept /\ EdgesRegistered /\ Once(events, Free)
      /\ Tasks = {"boot", "loop", "sync", "reload", "refresh"}
      /\ pc[t] = "seed" /\ DOMAIN metas = Tasks
      /\ metas' = [metas EXCEPT ![t] = Empty]
      /\ UNCHANGED <<token_index, registry, vertices, world, add, held>>
  BY DEF AloneInv, Seed, TypeInv, Tasks, plan
<1>1. t \in {"boot", "refresh"}
  BY <1>0 DEF TasksAlone, Unstored
<1>2. (Finish(t) \/ UNCHANGED locals) /\ \E l \in {"panicked", "idle"} : pc' = [pc EXCEPT ![t] = l]
  BY DEF Seed, Finish, Goto
<1>3. PICK l \in {"panicked", "idle"} : pc' = [pc EXCEPT ![t] = l]
  BY <1>2
<1>4. TasksAlone' /\ (\A s \in Tasks \ {t} : pc'[s] = pc[s]) /\ pc'[t] = l
  <2>1. TasksAlone' /\ (\A s \in Tasks \ {t} : pc'[s] = pc[s])
    BY <1>0, <1>1, <1>3, FetchAlone DEF world
  <2> QED
    BY <1>3, <2>1 DEF TypeInv
<1>5. \A s \in Tasks \ {t} : /\ pool'[s] = pool[s] /\ v3'[s] = v3[s]
                             /\ index'[s] = index[s] /\ reg'[s] = reg[s]
  BY <1>2, FinishOwn
<1>6. CopyAgrees("boot")' /\ CopyAgrees("loop")' /\ GraphCovers' /\ IndexAgrees' /\ Free \subseteq Free'
  <2>1. pc[t] \notin Unstored \union {"add_edges"} /\ pc'[t] \notin Unstored \union {"add_edges"}
    BY <1>0, <1>4 DEF Unstored
  <2> QED
    BY <1>0, <1>4, <1>5, <2>1, AloneKept DEF world
<1>7. RegistryKept'
  <2>1. metas'[t] = Empty /\ \A s \in Tasks \ {t} : metas'[s] = metas[s]
    BY <1>0
  <2>2. DOMAIN Empty = {}
    BY DEF Empty
  <2> QED
    BY <1>0, <2>1, <2>2 DEF RegistryKept, InBounds, world
<1>8. EdgesRegistered'
  <2>1. PICK S \in SUBSET DOMAIN metas[t] : SeedAll(t, S)
    BY DEF Seed
  <2> DEFINE edges == {Edge(p, metas[t][p]) : p \in S}
             after(e) == Seeded(graph, e, answer[t][e.pool])
  <2>2. DOMAIN graph' = DOMAIN graph \union UNION {DOMAIN after(e) : e \in edges}
    BY <2>1 DEF SeedAll
  <2>3. \A e \in edges : DOMAIN after(e) \subseteq DOMAIN graph \union {e}
    BY SeededFlags, SMTT(20)
  <2>4. \A p \in S : p \in DOMAIN registry /\ metas[t][p] = registry[p]
    BY <1>0 DEF RegistryKept
  <2>5. ASSUME NEW p \in S
        PROVE  Edge(p, metas[t][p]).pool = p /\ metas[t][p] = registry[p] /\ p \in DOMAIN registry
    BY <2>4 DEF Edge
  <2>6. \A e \in edges : e.pool \in DOMAIN registry /\ e = Edge(e.pool, registry[e.pool])
    BY <2>5
  <2> HIDE DEF edges, after
  <2>7. DOMAIN graph' \subseteq DOMAIN graph \union edges
    BY <2>2, <2>3, SMTT(20)
  <2> QED
    BY <1>0, <2>6, <2>7, EdgesGained
<1>9. Once(events, Free)'
  BY <1>0, <1>6, OnceMore DEF world
<1> QED
  BY <1>4, <1>6, <1>7, <1>8, <1>9 DEF AloneInv

\* The event loop and the periodic refresh.
LEMMA AloneLoop ==
    ASSUME TypeInv, AloneInv,
           TakeEvent \/ Price \/ StartDetection \/ Publish \/ RefreshPoolStates
    PROVE  AloneInv'
<1>0. /\ TasksAlone /\ RegistryKept /\ IndexAgrees /\ EdgesRegistered /\ Once(events, Free)
      /\ GraphCovers /\ CopyAgrees("boot")
      /\ Tasks = {"boot", "loop", "sync", "reload", "refresh"}
      /\ pc \in [Tasks -> Labels] /\ pool \in [Tasks -> SUBSET Pools] /\ events \in Seq(PoolEvent)
      /\ UNCHANGED <<token_index, registry, vertices, created, add, metas, index, reg>>
  BY DEF AloneInv, TypeInv, EngineTypeOK, Tasks, TakeEvent, Price, StartDetection, Publish,
    RefreshPoolStates, shared, world, locals, plan, fetch
<1>1. pc["loop"] # "idle" => pc["boot"] = "idle"
  BY <1>0 DEF TasksAlone
\* What the loop's steps that register nothing leave to be shown.
<1>2. ASSUME NEW l \in {"price", "publish", "idle"}, pc' = [pc EXCEPT !["loop"] = l],
             pc["boot"] = "idle", pc["loop"] \in {"price", "publish", "idle"},
             UNCHANGED <<pool, v3>>
      PROVE  /\ TasksAlone' /\ CopyAgrees("boot")' /\ CopyAgrees("loop")' /\ GraphCovers'
             /\ IndexAgrees' /\ Free \subseteq Free'
  <2>1. pc'["loop"] = l /\ \A s \in Tasks \ {"loop"} : pc'[s] = pc[s]
    BY <1>0, <1>2
  <2>2. TasksAlone'
    BY <1>0, <1>2, <2>1 DEF TasksAlone
  <2>3. /\ pc["loop"] \notin Unstored \union {"add_edges"}
        /\ pc'["loop"] \notin Unstored \union {"add_edges"} /\ pc'["boot"] = pc["boot"]
    BY <1>0, <1>2, <2>1 DEF Unstored
  <2> QED
    BY <1>0, <1>2, <2>2, <2>3, AloneKept
<1>3. CASE TakeEvent
  <2> DEFINE e == Head(events)
  <2>1. /\ pc["boot"] = "idle" /\ pc["loop"] = "idle" /\ events # <<>> /\ events' = Tail(events)
        /\ UNCHANGED graph
    BY <1>3 DEF TakeEvent, Booted, shared
  <2>2. e \in PoolEvent
    BY <1>0, <2>1, SMTT(20)
  <2>3. /\ Once(events', Free)
        /\ e.created = TRUE => e.pool \in Free /\ Once(events', Free \ {e.pool})
    BY <1>0, <2>1, OnceTail
  <2>4. e.created \in BOOLEAN
    BY <2>2 DEF PoolEvent
  <2>5. EdgesRegistered'
    BY <1>0, <2>1 DEF EdgesRegistered
  <2> HIDE DEF e
  <2>6. CASE e.created = TRUE /\ pool' = [pool EXCEPT !["loop"] = {e.pool}]
             /\ Goto("loop", "load_index") /\ UNCHANGED held
    <3>1. /\ pc'["loop"] = "load_index" /\ (\A s \in Tasks \ {"loop"} : pc'[s] = pc[s])
          /\ pool'["loop"] = {e.pool}
      BY <1>0, <2>6 DEF Goto
    <3>2. e.pool \in created \ DOMAIN registry /\ Free' = Free \ {e.pool}
      BY <1>0, <2>1, <2>3, <2>6, <3>1 DEF Free, Unstored
    <3>3. TasksAlone'
      BY <1>0, <2>1, <3>1 DEF TasksAlone, Unstored
    <3>4. CopyAgrees("boot")'
      BY <1>0, <2>1, <3>1, NoCopies DEF CopyAgrees, Unstored, Growing
    <3>5. CopyAgrees("loop")'
      BY <1>0, <3>1, <3>2 DEF CopyAgrees, Unstored, Growing
    <3>6. GraphCovers' /\ IndexAgrees'
      BY <1>0, <2>1, <3>1 DEF GraphCovers, IndexAgrees, Growing
    <3>7. RegistryKept'
      BY <1>0, <2>6 DEF RegistryKept, InBounds
    <3>8. Once(events, Free)'
      BY <2>3, <2>6, <3>2
    <3> QED
      BY <2>5, <3>3, <3>4, <3>5, <3>6, <3>7, <3>8 DEF AloneInv
  <2>7. CASE /\ e.pool \in DOMAIN registry
             /\ held' = {[pool |-> e.pool, meta |-> registry[e.pool], value |-> e.value]}
             /\ Goto("loop", "price") /\ UNCHANGED <<pool, v3>>
    <3>1. /\ TasksAlone' /\ CopyAgrees("boot")' /\ CopyAgrees("loop")' /\ GraphCovers'
          /\ IndexAgrees' /\ Free \subseteq Free'
      BY <1>2, <2>1, <2>7 DEF Goto
    <3>2. InBounds(registry[e.pool])
      BY <2>1, <2>7, RegisteredInBounds DEF Growing
    <3>3. RegistryKept'
      BY <1>0, <2>7, <3>2, SMTT(20) DEF RegistryKept, InBounds
    <3>4. Once(events, Free)'
      BY <2>3, <3>1, OnceMore
    <3> QED
      BY <2>5, <3>1, <3>3, <3>4 DEF AloneInv
  <2>8. CASE UNCHANGED <<held, pc, pool, v3>>
    <3>1. pc' = [pc EXCEPT !["loop"] = "idle"]
      BY <1>0, <2>1, <2>8
    <3>2. /\ TasksAlone' /\ CopyAgrees("boot")' /\ CopyAgrees("loop")' /\ GraphCovers'
          /\ IndexAgrees' /\ Free \subseteq Free'
      BY <1>2, <2>1, <2>8, <3>1
    <3>3. RegistryKept'
      BY <1>0, <2>8 DEF RegistryKept, InBounds
    <3>4. Once(events, Free)'
      BY <2>3, <3>2, OnceMore
    <3> QED
      BY <2>5, <3>2, <3>3, <3>4 DEF AloneInv
  <2> QED
    BY <1>3, <2>4, <2>6, <2>7, <2>8 DEF TakeEvent, e
<1>4. CASE Price
  <2>1. PICK h \in held :
          /\ pc["loop"] = "price"
          /\ InBounds(h.meta) =>
               /\ \/ graph' = price_v3(graph, Edge(h.pool, h.meta), h.value)
                  \/ graph' = update_edge_from_reserves(graph, Edge(h.pool, h.meta), h.value)
                  \/ graph' = graph
               /\ Goto("loop", "idle")
          /\ held' = {} /\ UNCHANGED <<world, locals>>
    BY <1>4 DEF Price
  <2>2. InBounds(h.meta) /\ h.pool \in DOMAIN registry /\ h.meta = registry[h.pool]
    BY <1>0 DEF RegistryKept
  <2>3. /\ TasksAlone' /\ CopyAgrees("boot")' /\ CopyAgrees("loop")' /\ GraphCovers'
        /\ IndexAgrees' /\ Free \subseteq Free'
    BY <1>1, <1>2, <2>1, <2>2 DEF Goto, locals
  <2>4. RegistryKept'
    BY <1>0, <2>1 DEF RegistryKept
  <2>5. EdgesRegistered'
    <3> DEFINE d == Edge(h.pool, registry[h.pool])
    <3>1. DOMAIN graph' \subseteq DOMAIN graph \union {d}
      <4>1. DOMAIN update_edge_from_reserves(graph, d, h.value) = DOMAIN graph
        BY KeepDomain
      <4>2. DOMAIN add_edge(graph, d, h.value) = DOMAIN graph \union {d}
        BY OverDomain DEF add_edge
      <4>3. DOMAIN update_edge_from_reserves(add_edge(graph, d, h.value), d, h.value)
              = DOMAIN add_edge(graph, d, h.value)
        BY KeepDomain
      <4>4. DOMAIN price_v3(graph, d, h.value) = DOMAIN graph \union {d}
        BY <4>2, <4>3 DEF price_v3
      <4>5. \/ graph' = price_v3(graph, d, h.value)
            \/ graph' = update_edge_from_reserves(graph, d, h.value)
            \/ graph' = graph
        BY <2>1, <2>2
      <4> HIDE DEF d
      <4> QED
        BY <4>1, <4>4, <4>5
    <3>2. d.pool = h.pool
      BY DEF Edge
    <3> HIDE DEF d
    <3>3. d.pool \in DOMAIN registry /\ d = Edge(d.pool, registry[d.pool])
      BY <2>2, <3>2 DEF d
    <3> QED
      <4>1. \A x \in {d} : x.pool \in DOMAIN registry /\ x = Edge(x.pool, registry[x.pool])
        BY <3>3
      <4>2. EdgesRegistered /\ UNCHANGED registry
        BY <1>0
      <4> QED
        BY <3>1, <4>1, <4>2 DEF EdgesRegistered
  <2>6. Once(events, Free)'
    BY <1>0, <2>1, <2>3, OnceMore DEF world
  <2> QED
    BY <2>3, <2>4, <2>5, <2>6 DEF AloneInv
<1>5. CASE StartDetection \/ Publish
  <2>1. /\ \E l \in {"publish", "idle"} : pc' = [pc EXCEPT !["loop"] = l]
        /\ pc["boot"] = "idle" /\ pc["loop"] \in {"publish", "idle"}
        /\ graph' = clear_dirty(graph) \/ UNCHANGED graph
        /\ UNCHANGED <<world, locals, held>>
    BY <1>1, <1>5 DEF StartDetection, Publish, Goto, Booted
  <2>2. /\ TasksAlone' /\ CopyAgrees("boot")' /\ CopyAgrees("loop")' /\ GraphCovers'
        /\ IndexAgrees' /\ Free \subseteq Free'
    BY <1>2, <2>1 DEF locals
  <2>3. RegistryKept'
    BY <1>0, <2>1 DEF RegistryKept, InBounds
  <2>4. DOMAIN graph' = DOMAIN graph
    BY <2>1 DEF clear_dirty
  <2>5. EdgesRegistered'
    BY <1>0, <2>4 DEF EdgesRegistered
  <2>6. Once(events, Free)'
    BY <1>0, <2>1, <2>2, OnceMore DEF world
  <2> QED
    BY <2>2, <2>3, <2>5, <2>6 DEF AloneInv
<1>6. CASE RefreshPoolStates
  <2>1. /\ pc' = [pc EXCEPT !["refresh"] = "collect"] /\ pc["boot"] = "idle"
        /\ UNCHANGED <<graph, world, locals, held>>
    BY <1>6 DEF RefreshPoolStates, Goto, Booted, shared
  <2>2. TasksAlone' /\ \A s \in Tasks \ {"refresh"} : pc'[s] = pc[s]
    BY <1>0, <2>1, FetchAlone DEF world
  <2>3. /\ CopyAgrees("boot")' /\ CopyAgrees("loop")' /\ GraphCovers'
        /\ IndexAgrees' /\ Free \subseteq Free'
    BY <1>0, <2>1, <2>2, AloneKept DEF locals
  <2>4. RegistryKept' /\ EdgesRegistered'
    BY <1>0, <2>1 DEF RegistryKept, InBounds, EdgesRegistered
  <2>5. Once(events, Free)'
    BY <1>0, <2>1, <2>3, OnceMore DEF world
  <2> QED
    BY <2>2, <2>3, <2>4, <2>5 DEF AloneInv
<1> QED
  BY <1>3, <1>4, <1>5, <1>6

\* The chain: a trade, and a new pool.
LEMMA ChainType ==
    ASSUME TypeInv, NEW p \in Pools, Trade(p) \/ Create(p)
    PROVE  TypeInv'
<1>0. /\ EngineTypeOK /\ UNCHANGED <<alone, shared, tasks, syncs, jobs, seen, outside>>
      /\ p \in Pools
  BY DEF TypeInv, Trade, Create, counts
<1>1. PICK e \in PoolEvent : Dispatch(e)
  <2>1. /\ [pool |-> p, created |-> FALSE, value |-> chain[p] + 1] \in PoolEvent
        /\ [pool |-> p, created |-> TRUE, value |-> 0] \in PoolEvent
    BY <1>0, SMTT(20) DEF PoolEvent, EngineTypeOK
  <2> QED
    BY <2>1 DEF Trade, Create
<1>2. events' \in Seq(PoolEvent) /\ missed' \subseteq Pools
  <2> DEFINE queue == Append(events, e)
  <2>1. events \in Seq(PoolEvent) /\ queue \in Seq(PoolEvent) /\ queue # <<>> /\ missed \subseteq Pools
    <3>1. events \in Seq(PoolEvent) /\ missed \in SUBSET Pools
      BY <1>0 DEF EngineTypeOK
    <3>2. queue \in Seq(PoolEvent) /\ queue # <<>>
      BY <3>1, SMTT(20)
    <3> QED
      BY <3>1, <3>2
  <2> HIDE DEF queue
  <2>2. Tail(queue) \in Seq(PoolEvent) /\ Head(queue) \in PoolEvent
    BY <2>1, SMTT(20)
  <2>3. Head(queue).pool \in Pools /\ e.pool \in Pools
    BY <2>2 DEF PoolEvent
  <2> QED
    BY <1>1, <2>1, <2>2, <2>3 DEF Dispatch, queue
<1>3. created' \subseteq Pools /\ chain' \in [Pools -> Nat] /\ trades' \in Nat
  BY <1>0, SMTT(20) DEF Trade, Create, counts, EngineTypeOK
<1>4. EngineTypeOK'
  BY <1>0, <1>2, <1>3 DEF shared, tasks, locals, plan, fetch, EngineTypeOK
<1> QED
  BY <1>0, <1>4, TypeStay DEF tasks, locals, plan, fetch

\* A new pool is free, and an event for it is the only one.
LEMMA ChainAlone ==
    ASSUME TypeInv, AloneInv, NEW p \in Pools, Trade(p) \/ Create(p)
    PROVE  AloneInv'
<1>0. /\ TasksAlone /\ RegistryKept /\ EdgesRegistered /\ Once(events, Free)
      /\ UNCHANGED <<shared, tasks>> /\ created \subseteq created'
  BY DEF AloneInv, Trade, Create
<1>1. /\ CopyAgrees("boot")' /\ CopyAgrees("loop")' /\ GraphCovers' /\ IndexAgrees'
      /\ Free \subseteq Free'
  BY <1>0, AloneKept DEF shared, tasks, locals
<1>2. RegistryKept' /\ EdgesRegistered'
  BY <1>0 DEF RegistryKept, EdgesRegistered, InBounds, shared, tasks, fetch
<1>3. TasksAlone'
  <2>1. pc["boot"] # "idle" => events' = events
    BY DEF Trade, Create, Dispatch, Booted
  <2> QED
    BY <1>0, <2>1 DEF TasksAlone, tasks, plan
<1>4. PICK e \in PoolEvent : /\ Dispatch(e)
                             /\ e.created = TRUE => e.pool = p /\ Create(p)
  <2>1. CASE Trade(p)
    <3>1. [pool |-> p, created |-> FALSE, value |-> chain[p] + 1] \in PoolEvent
      BY SMTT(20) DEF TypeInv, EngineTypeOK, PoolEvent
    <3> QED
      BY <2>1, <3>1 DEF Trade
  <2>2. CASE Create(p)
    <3>1. [pool |-> p, created |-> TRUE, value |-> 0] \in PoolEvent
      BY DEF PoolEvent
    <3> QED
      BY <2>2, <3>1 DEF Create
  <2> QED
    BY <2>1, <2>2
<1>5. ASSUME Create(p)
      PROVE  p \in Free' \ Free
  <2>1. p \notin created /\ p \in created' /\ p \notin DOMAIN registry
    BY <1>0, <1>5 DEF Create, RegistryKept
  <2>2. pc["loop"] \in Unstored => p \notin pool["loop"]
    BY <2>1 DEF AloneInv, CopyAgrees
  <2> QED
    BY <1>0, <2>1, <2>2 DEF Free, shared, tasks, locals
<1>6. Once(events, Free)'
  BY <1>0, <1>1, <1>4, <1>5, OnceDispatch
<1> QED
  BY <1>1, <1>2, <1>3, <1>6 DEF AloneInv

-----------------------------------------------------------------------------
(* The invariants hold always.                                             *)

\* Every step of every task keeps the types.
LEMMA TypeNext == TypeInv /\ [EngineNext]_vars => TypeInv'
<1> SUFFICES ASSUME TypeInv, [EngineNext]_vars PROVE TypeInv'
  OBVIOUS
<1>1. CASE UNCHANGED vars
  <2>1. EngineTypeOK'
    BY <1>1 DEF TypeInv, EngineTypeOK, vars, shared, world, tasks, locals, plan, fetch,
      counts, history
  <2> QED
    BY <1>1, <2>1, TypeStay DEF vars, tasks, locals, plan, fetch
<1>2. ASSUME NEW t \in Tasks, Step(t) PROVE TypeInv'
  BY <1>2, TypeRegistering, TypeSeed, TypeOthers
<1>3. ASSUME NEW p \in Pools, Trade(p) \/ Create(p) PROVE TypeInv'
  BY <1>3, ChainType
<1> QED
  BY <1>1, <1>2, <1>3, TypeLoop DEF EngineNext

\* The premise of the event loop's being the only one to register never changes.
LEMMA AloneStays == [EngineNext]_vars => UNCHANGED alone
  BY DEF EngineNext, Step, Registering, LoadIndex, StoreIndex, LoadRegistry, StoreRegistry,
    AddEdges, mark_pool_bytecode_warmed, RemoveNext, StoreRemoved, Unlink, Forget, RegisterNext, Collect, Ask,
    Seed, TakeEvent, Price, StartDetection, Publish, RefreshHotCache, ReloadConfig,
    RefreshPoolStates, Trade, Create, vars

\* main starts alone, with everything empty.
LEMMA AloneInit == EngineInit => AloneInv
<1> SUFFICES ASSUME EngineInit PROVE AloneInv
  OBVIOUS
<1>1. /\ token_index = <<>> /\ registry = Empty /\ graph = Empty /\ created = Static /\ events = <<>>
      /\ vertices \in Nat /\ held = {} /\ metas = [t \in Tasks |-> Empty]
      /\ pc["boot"] = "next" /\ (\A t \in Tasks \ {"boot"} : pc[t] = "idle") /\ add["boot"] = Static
      /\ Tasks = {"boot", "loop", "sync", "reload", "refresh"}
  BY EngineAssumption DEF EngineInit, Tasks
<1>2. DOMAIN Empty = {}
  BY DEF Empty
<1>3. TasksAlone
  BY <1>1 DEF TasksAlone, Unstored
<1>4. CopyAgrees("boot") /\ CopyAgrees("loop")
  BY <1>1, NoCopies DEF Unstored
<1>5. GraphCovers
  BY <1>1, SMTT(20) DEF GraphCovers
<1>6. RegistryKept /\ IndexAgrees /\ EdgesRegistered
  BY <1>1, <1>2 DEF RegistryKept, IndexAgrees, EdgesRegistered
<1> QED
  BY <1>1, <1>3, <1>4, <1>5, <1>6, OnceEmpty DEF AloneInv

\* Every step keeps AloneInv: the tasks that would break it never start.
LEMMA AloneNext == TypeInv /\ alone /\ AloneInv /\ [EngineNext]_vars => AloneInv'
<1> SUFFICES ASSUME TypeInv, alone, AloneInv, [EngineNext]_vars PROVE AloneInv'
  OBVIOUS
<1>1. CASE UNCHANGED vars
  BY <1>1 DEF AloneInv, TasksAlone, CopyAgrees, Metadata, GraphCovers, RegistryKept, InBounds,
    IndexAgrees, EdgesRegistered, Once, Free, vars, shared, world, tasks, locals, plan, fetch
<1>2. ASSUME NEW t \in Tasks, Step(t) PROVE AloneInv'
  <2>1. ~(\/ mark_pool_bytecode_warmed(t) \/ RemoveNext(t) \/ StoreRemoved(t) \/ Unlink(t)
          \/ Forget(t))
    <3>1. pc[t] \notin {"store_warmed", "remove", "store_removed", "unlink", "forget"}
      BY DEF AloneInv, TasksAlone, Unstored, Tasks
    <3> QED
      BY <3>1 DEF mark_pool_bytecode_warmed, RemoveNext, StoreRemoved, Unlink, Forget
  <2> QED
    BY <1>2, <2>1, AloneRegistering, AloneRegisterNext, AloneFetch, AloneSeed DEF Step
<1>3. ASSUME NEW p \in Pools, Trade(p) \/ Create(p) PROVE AloneInv'
  BY <1>3, ChainAlone
<1>4. ~RefreshHotCache /\ ~ReloadConfig
  BY DEF RefreshHotCache, ReloadConfig
<1> QED
  BY <1>1, <1>2, <1>3, <1>4, AloneLoop DEF EngineNext

\* Whatever the pools, the tokens and the interleaving of the tasks: the engine's
\* state keeps its types, and where only main and then the event loop register
\* pools (the premise in register_pool's comment), the indices of registered
\* pools name their own tokens, every edge is that of a registered pool, and no
\* index beyond the graph kills the event loop.
THEOREM RegistrationIsSafe == EngineSpec => []RegistrationSafe
<1> DEFINE I == TypeInv /\ (alone => AloneInv)
<1>1. EngineInit => I
  BY TypeInit, AloneInit
<1>2. I /\ [EngineNext]_vars => I'
  BY TypeNext, AloneNext, AloneStays
<1>3. I => RegistrationSafe
  BY DEF RegistrationSafe, TypeInv, AloneInv, TasksAlone, EdgesRegistered, Unstored
<1> QED
  BY <1>1, <1>2, <1>3, PTL DEF EngineSpec
=============================================================================
