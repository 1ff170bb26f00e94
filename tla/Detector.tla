------------------------------ MODULE Detector ------------------------------
(***************************************************************************)
(* The search for negative cycles in the price graph:                      *)
(* crates/detector/src/bellman_ford.rs, the queue-driven Bellman-Ford with *)
(* small labels first that detect_negative_cycles runs over every vertex   *)
(* and detect_from_affected over the ends of the changed edges, and the    *)
(* DetectedCycle of opportunity.rs.  Weights are integers, so the          *)
(* tolerance of 1e-10 is a strict comparison.                              *)
(***************************************************************************)
EXTENDS Integers, Sequences, SequencesExt, FiniteSets, FiniteSetsExt

CONSTANTS
    N,           \* vertices 0 .. N-1
    Graphs,      \* price graphs: a sequence of edges from each vertex
    MaxHops,     \* max_hops
    Infinity,    \* f64::INFINITY, above every distance
    MaxDegree    \* most edges from a vertex of the graphs

Vertices == 0..N - 1

DetectorAssumption ==
    /\ \A g \in Graphs, u \in Vertices : Len(g[u]) <= MaxDegree
    /\ N \in Nat \ {0} /\ MaxHops \in Nat /\ Infinity \in Nat
    /\ Graphs \subseteq
         [Vertices -> Seq([to: Vertices, weight: Int, filtered: BOOLEAN])]

VARIABLES
    graph,       \* the graph of this scan
    affected,    \* the vertices the scan starts from
    queue, dist, predecessor, relaxation_count, visited_cycle_nodes,
    cycles,      \* what the scan has reported, best first once it has ended
    scan,        \* "new", "running", "done" or "timeout"
    stalled      \* history: a vertex reached the relaxation limit with no cycle behind it

scanVars == <<queue, dist, predecessor, relaxation_count, visited_cycle_nodes, cycles, stalled>>
vars == <<graph, affected, scan, scanVars>>

None == -1
NoCycle == [path |-> <<>>, total_weight |-> 0]

Init ==
    /\ graph \in Graphs /\ affected = <<>> /\ scan = "new"
    /\ queue = <<>> /\ cycles = <<>> /\ visited_cycle_nodes = {} /\ stalled = FALSE
    /\ dist = [v \in Vertices |-> Infinity] /\ predecessor = [v \in Vertices |-> None]
    /\ relaxation_count = [v \in Vertices |-> 0]

-----------------------------------------------------------------------------
edges(u, w) == {i \in DOMAIN graph[u] : graph[u][i].to = w}

\* The mutation of bestWeight: the floor of the pool is not looked at.
bestWeightUnfiltered(u, w) ==
    CHOOSE m \in {graph[u][i].weight : i \in edges(u, w)} :
        \A i \in edges(u, w) : m <= graph[u][i].weight

\* The lightest edge of a hop whose pool is above the floor.
bestWeight(u, w) ==
    LET live == {graph[u][i].weight : i \in {j \in edges(u, w) : ~graph[u][j].filtered}}
    IN  CHOOSE m \in live : \A k \in live : m <= k

pathWeight(path) ==
    FoldLeft(LAMBDA sum, i : sum + bestWeight(path[i], path[i + 1]), 0,
             [i \in 1..Len(path) - 1 |-> i])

\* N steps back along the predecessors to be on the cycle, then once around it;
\* no cycle where a predecessor is missing or the cycle is longer than max_hops.
extract_cycle(start, pred) ==
    LET back[k \in 0..2 * N] ==
          IF k = 0 THEN start
          ELSE IF back[k - 1] = None THEN None ELSE pred[back[k - 1]]
        turn == {k \in 1..N : back[N] # None /\ back[N + k] = back[N]}
        k == CHOOSE j \in turn : \A i \in turn : j <= i
        path == [i \in 1..k + 1 |-> IF i = k + 1 THEN back[N + k - 1] ELSE back[N + k - i]]
    IN  IF turn = {} \/ Len(path) - 1 > MaxHops THEN NoCycle
        ELSE [path |-> path, total_weight |-> pathWeight(path)]

\* A vertex relaxed N times: report the cycle through its predecessors, unless
\* it lies on one already reported.  The vertex is not queued again.
report(s, v) ==
    LET cycle == extract_cycle(v, s.predecessor)
    IN  IF v \in s.visited THEN s
        ELSE IF cycle = NoCycle THEN [s EXCEPT !.stalled = TRUE]
        ELSE [s EXCEPT !.visited = @ \cup Range(cycle.path), !.cycles = Append(@, cycle)]

\* Small label first: to the front when nearer than the vertex there.
enqueue(s, v) ==
    IF v \in Range(s.queue) THEN s
    ELSE IF s.queue # <<>> /\ s.dist[v] < s.dist[s.queue[1]]
    THEN [s EXCEPT !.queue = <<v>> \o @]
    ELSE [s EXCEPT !.queue = Append(@, v)]

improves(s, u, e) == ~e.filtered /\ s.dist[u] + e.weight < s.dist[e.to]

moved(s, u, e) ==
    [s EXCEPT !.dist[e.to] = s.dist[u] + e.weight,
              !.predecessor[e.to] = u,
              !.relaxation_count[e.to] = @ + 1]

relax(s, u, e) ==
    IF ~improves(s, u, e) THEN s
    ELSE LET t == moved(s, u, e)
         IN  IF t.relaxation_count[e.to] >= N THEN report(t, e.to) ELSE enqueue(t, e.to)

byWeight(found) == SortSeq(found, LAMBDA a, b : a.total_weight < b.total_weight)

-----------------------------------------------------------------------------
started == [v \in Vertices |-> IF v \in Range(affected') THEN 0 ELSE Infinity]

\* detect_negative_cycles: every vertex at distance 0.
detect_negative_cycles ==
    /\ scan = "new" /\ scan' = "running"
    /\ affected' = [i \in 1..N |-> i - 1]
    /\ queue' = affected' /\ dist' = started
    /\ UNCHANGED <<graph, predecessor, relaxation_count, visited_cycle_nodes, cycles, stalled>>

\* The ends of the edges that changed, each given by its source and its place there.
affected_vertices(dirty) ==
    SetToSortSeq(UNION {{e[1], graph[e[1]][e[2]].to} : e \in dirty}, <)

\* detect_from_affected: only those vertices.
detect_from_affected(dirty) ==
    /\ scan = "new" /\ dirty # {} /\ scan' = "running"
    /\ affected' = affected_vertices(dirty)
    /\ queue' = affected' /\ dist' = started
    /\ UNCHANGED <<graph, predecessor, relaxation_count, visited_cycle_nodes, cycles, stalled>>

\* One turn of the loop: the next vertex of the queue and every edge from it.
Pop ==
    /\ scan = "running" /\ queue # <<>>
    /\ LET u == Head(queue)
           s == [queue |-> Tail(queue), dist |-> dist, predecessor |-> predecessor,
                 relaxation_count |-> relaxation_count, visited |-> visited_cycle_nodes,
                 cycles |-> cycles, stalled |-> stalled]
           t == FoldLeft(LAMBDA acc, e : relax(acc, u, e), s, graph[u])
       IN  /\ queue' = t.queue /\ dist' = t.dist /\ predecessor' = t.predecessor
           /\ relaxation_count' = t.relaxation_count /\ visited_cycle_nodes' = t.visited
           /\ cycles' = t.cycles /\ stalled' = t.stalled
    /\ UNCHANGED <<graph, affected, scan>>

Finish(how) ==
    /\ scan = "running" /\ scan' = how /\ cycles' = byWeight(cycles)
    /\ UNCHANGED <<graph, affected, queue, dist, predecessor, relaxation_count,
                   visited_cycle_nodes, stalled>>

\* The queue is empty.
Drained == queue = <<>> /\ Finish("done")

\* The time budget is used up when a vertex is taken.
TimeBudget == queue # <<>> /\ Finish("timeout")

Next ==
    \/ detect_negative_cycles
    \/ \E dirty \in SUBSET {<<u, i>> \in Vertices \X (1..MaxDegree) : i \in DOMAIN graph[u]} : detect_from_affected(dirty)
    \/ Pop
    \/ Drained
    \/ TimeBudget

Spec == Init /\ [][Next]_vars

-----------------------------------------------------------------------------
\* The weights of the pools of a hop that are above the floor, and the sum of the
\* least of each hop.
weights(u, w) == {graph[u][i].weight : i \in {j \in DOMAIN graph[u] : graph[u][j].to = w /\ ~graph[u][j].filtered}}
leastWeight(path) ==
    LET least(u, w) == CHOOSE m \in weights(u, w) : \A k \in weights(u, w) : m <= k
        upto[n \in 1..Len(path)] == IF n = 1 THEN 0 ELSE upto[n - 1] + least(path[n - 1], path[n])
    IN  upto[Len(path)]

\* The simple cycles of the graph of at most MaxHops hops.
simpleCycles ==
    {c \in UNION {[1..k + 1 -> Vertices] : k \in 2..N} :
        /\ Len(c) - 1 <= MaxHops /\ c[1] = c[Len(c)]
        /\ \A i, j \in 1..Len(c) - 1 : c[i] = c[j] => i = j
        /\ \A i \in 1..Len(c) - 1 : weights(c[i], c[i + 1]) # {}}

negativeCycles == {c \in simpleCycles : leastWeight(c) < 0}

\* Every cycle the scan reports, complete or cut off by its time budget, is a
\* closed route of at most max_hops distinct pools-backed hops above the
\* liquidity floor, whose weight is the sum of the best edges and is negative
\* (extract_cycle reads predecessors that later relaxations keep rewriting).
CyclesReal ==
    \A i \in DOMAIN cycles :
        cycles[i].path \in negativeCycles /\ cycles[i].total_weight = leastWeight(cycles[i].path)

\* "Detect all negative cycles reachable from any source vertex"
\* (bellman_ford.rs:37): a full scan that ends within its budget reports a cycle
\* when the graph has a profitable one of at most max_hops hops.
FindsACycle ==
    scan = "done" /\ Len(affected) = N /\ negativeCycles # {} => cycles # <<>>

\* What it does guarantee: it comes back with nothing only if a vertex used up its
\* relaxations while no short cycle was behind it, after which that vertex is not
\* queued again; a queue that ran empty in any other way leaves no cycle unseen.
FindsUnlessStalled == stalled \/ FindsACycle

-----------------------------------------------------------------------------
\* The collector of the best opportunities, detector/src/opportunity.rs, a machine
\* of its own: a list of at most K ranked opportunities that stays sorted.

CONSTANTS
    K,                 \* capacity of the collector
    Nets, Gas,         \* net profits and gas costs considered
    MaxInserts         \* bound of the model

CollectorAssumption == K \in Nat /\ Nets \subseteq Nat /\ Gas \subseteq Nat /\ MaxInserts \in Nat

VARIABLES
    opportunities,     \* best first
    offered            \* history: every opportunity so far, in order

topVars == <<opportunities, offered>>

TopInit == opportunities = <<>> /\ offered = <<>>

\* net_profit / gas_cost as a fraction, and 0 when the gas costs nothing.
score(o) == IF o.gas > 0 THEN <<o.net, o.gas>> ELSE <<0, 1>>

above(a, b) == score(a)[1] * score(b)[2] > score(b)[1] * score(a)[2]

\* sort_by is stable: a newcomer goes behind its equals.
sorted(s, o) ==
    LET ahead == Cardinality({i \in DOMAIN s : ~above(o, s[i])})
    IN  SubSeq(s, 1, ahead) \o <<o>> \o SubSeq(s, ahead + 1, Len(s))

\* A full collector lets the worst go for a better one.
insert(o) ==
    IF Len(opportunities) < K THEN sorted(opportunities, o)
    ELSE IF opportunities # <<>> /\ above(o, Last(opportunities)) THEN sorted(Front(opportunities), o)
    ELSE opportunities

Insert ==
    /\ Len(offered) < MaxInserts
    /\ \E n \in Nets, g \in Gas :
         LET o == [net |-> n, gas |-> g, id |-> Len(offered) + 1]
         IN  opportunities' = insert(o) /\ offered' = Append(offered, o)

TopNext == Insert

TopSpec == TopInit /\ [][TopNext]_topVars

-----------------------------------------------------------------------------
\* The reference: of all that was offered the ones fewer than K others precede, the
\* earlier first among equals.
precedes(a, b) == above(a, b) \/ (~above(b, a) /\ a.id < b.id)
best == {o \in Range(offered) : Cardinality({x \in Range(offered) : precedes(x, o)}) < K}

\* After any sequence of insertions the collector holds the K best offered, best
\* first, the earlier one of equals (TopKCollector::insert).
HoldsTheBest ==
    /\ Range(opportunities) = best
    /\ \A i, j \in DOMAIN opportunities : i < j => precedes(opportunities[i], opportunities[j])
=============================================================================
