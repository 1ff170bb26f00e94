----------------------------- MODULE Detection ------------------------------
(***************************************************************************)
(* The second half of run_detection_cycle of engine.rs: from the cycles of *)
(* one scan through the gates, the sizing of the trade and the parallel    *)
(* simulations (simulator/src/lib.rs) to the arb stream, and the engine's  *)
(* own PgLedger of common/src/db.rs, whose bounded queue and writer tasks  *)
(* run beside the engine loop.  Amounts are small integers.                *)
(***************************************************************************)
EXTENDS CycleGating, SequencesExt, FiniteSets

CONSTANTS
    Cycles,            \* what the detector may report
    MaxBatch,          \* cycles of one scan
    MinInput, MaxTrade,
    GasBase, SwapGas,  \* what an arb and a V2 swap cost in gas
    Threshold,         \* min_profit_threshold_wei
    MaxParallel,       \* max_parallel_sims
    Measured,          \* balance changes a simulation may measure
    ChannelCap, MaxInflight,    \* LEDGER_CHANNEL_CAPACITY, LEDGER_MAX_INFLIGHT
    MaxBlock

DetectionAssumption ==
    /\ GatingAssumption
    /\ MinInput \in Nat /\ MaxTrade \in Nat /\ Threshold \in Nat /\ Measured \subseteq Nat
    /\ MaxParallel \in Nat \ {0} /\ ChannelCap \in Nat \ {0} /\ MaxInflight \in Nat \ {0}

VARIABLES
    rpc,               \* an RPC provider is configured
    current_block, phase,
    snapshot,          \* block of the published snapshot
    sim_inputs,        \* what is left to simulate or is simulated in this cycle
    task,              \* of each input: waiting, running, panicked or its SimulationResult
    permits,           \* of the semaphore of the cycle
    collected,         \* results the loop has looked at
    subscribed,        \* somebody listens on the arb stream
    stream,            \* arbs published
    queue, holding, inflight, arbs, drops, write_errors   \* of the ledger

cycleVars == <<sim_inputs, task, permits, collected>>
ledgerVars == <<queue, holding, inflight, arbs, drops, write_errors>>
vars == <<rpc, current_block, phase, snapshot, cycleVars, subscribed, stream, ledgerVars>>

Nothing == [id |-> <<>>]
Is(state) == [state |-> state, profit_wei |-> 0]
Success(p) == [state |-> "success", profit_wei |-> p]

Init ==
    /\ rpc \in BOOLEAN /\ current_block = 0 /\ phase = "idle" /\ snapshot = 0
    /\ sim_inputs = <<>> /\ task = <<>> /\ permits = MaxParallel /\ collected = 0
    /\ subscribed = TRUE /\ stream = <<>>
    /\ queue = <<>> /\ holding = Nothing /\ inflight = {} /\ arbs = {}
    /\ drops = {} /\ write_errors = {}

-----------------------------------------------------------------------------
\* The hops of a cycle on their best edges; none when a hop has no live edge.
best_edges(cycle) ==
    LET pick == [h \in DOMAIN cycle.hops |-> select_best_edge_for_hop(cycle.hops[h])]
    IN  IF \E h \in DOMAIN pick : pick[h] = 0 THEN <<>>
        ELSE [h \in DOMAIN pick |-> cycle.hops[h][pick[h]]]

\* V3 liquidity is not an amount, and an empty one says nothing.
edge_caps_optimizer_input(edge) == edge.protocol # "v3" /\ edge.liquidity > 0

max_input(route) ==
    LET caps == {route[h].liquidity : h \in {k \in DOMAIN route : edge_caps_optimizer_input(route[k])}}
    IN  CHOOSE m \in caps \cup {MaxTrade} : \A c \in caps \cup {MaxTrade} : m <= c

\* Constant product where the reserves are known, the rate of the edge elsewhere.
hop_out(edge, dx) ==
    IF edge.reserve_in > 0 /\ edge.reserve_out > 0
    THEN (dx * (10000 - edge.fee_bps) * edge.reserve_out)
           \div (10000 * edge.reserve_in + dx * (10000 - edge.fee_bps))
    ELSE (dx * edge.rate) \div 100

amounts(route, input) ==
    FoldLeft(LAMBDA acc, edge : Append(acc, hop_out(edge, acc[Len(acc)])), <<input>>, route)

\* A V3 swap counts three times one of the other graph protocols.
base_gas(edge) == IF edge.protocol = "v3" THEN 3 * SwapGas ELSE SwapGas

gas_cost(route) == FoldLeft(LAMBDA acc, edge : acc + base_gas(edge), GasBase, route)

profit_fn(route, input) == Last(amounts(route, input)) - input - gas_cost(route)

\* The input the optimizer settles on, anywhere in its range.
sizes(route) == IF MinInput < max_input(route) THEN MinInput..max_input(route) ELSE {MinInput}

\* Profit is measured only in tokens whose balances' storage is known.
erc20_balance_slot_for_token(token) == token \in {"WETH", "USDC", "DAI", "USDT"}

\* What is simulated of a candidate; nothing below the threshold.
build_sim_input(cycle, size) ==
    LET route == best_edges(cycle)
        net == profit_fn(route, size)
    IN  IF net <= 0 \/ net < Threshold THEN Nothing
        ELSE [id |-> <<current_block', cycle.path>>, input |-> size,
              net_profit |-> net, slot |-> erc20_balance_slot_for_token(cycle.token), block |-> current_block']

\* The cycles of a scan that pass the gates and can be routed.
candidates(batch) ==
    SelectSeq(batch, LAMBDA c : c.profitable /\ gate_pre_sim(c, batch) = "pass"
                                 /\ best_edges(c) # <<>>)

\* A block: the scan of its graph, the candidates, the snapshot for the other
\* readers, and the inputs worth simulating.  Nothing in between is awaited.
handle_new_block(batch, pick) ==
    /\ phase = "idle" /\ current_block < MaxBlock
    /\ current_block' = current_block + 1 /\ snapshot' = current_block'
    /\ LET found == candidates(batch)
           sized == [i \in DOMAIN found |->
                       build_sim_input(found[i], IF pick \in sizes(best_edges(found[i]))
                                                 THEN pick ELSE MinInput)]
       IN  sim_inputs' = SelectSeq(sized, LAMBDA in : in # Nothing)
    /\ phase' = IF sim_inputs' = <<>> THEN "idle" ELSE "simulate"
    /\ task' = [i \in DOMAIN sim_inputs' |-> Is("waiting")]
    /\ permits' = MaxParallel /\ collected' = 0
    /\ UNCHANGED <<rpc, subscribed, stream, ledgerVars>>

-----------------------------------------------------------------------------
\* The loop takes a permit before it spawns the next simulation.
Spawn(i) ==
    /\ phase = "simulate" /\ i \in DOMAIN task /\ task[i] = Is("waiting") /\ permits > 0
    /\ \A j \in 1..i - 1 : task[j] # Is("waiting")
    /\ permits' = permits - 1 /\ task' = [task EXCEPT ![i] = Is("running")]
    /\ UNCHANGED <<rpc, current_block, phase, snapshot, sim_inputs, collected, subscribed,
                   stream, ledgerVars>>

\* EvmSimulator::simulate on the empty state: a call that does nothing, or an error.
simulate == {Is("failed"), Success(0)}

\* simulate_rpc does not measure the profit.
simulate_rpc == {Is("failed"), Success(0)}

\* simulate_rpc_with_erc20_profit: what the recipient's balance grew by.
simulate_rpc_with_erc20_profit ==
    {Is("failed")} \cup {Success(p) : p \in Measured}

\* The body of the task; the fork state may be refused even with a provider.
results(in) ==
    (IF rpc THEN IF in.slot THEN simulate_rpc_with_erc20_profit ELSE simulate_rpc ELSE {})
    \cup simulate

\* The mutation of SimulationEnds: the permit outlives the task.
SimulationEndsLeak(i) ==
    /\ i \in DOMAIN task /\ task[i] = Is("running")
    /\ \E r \in results(sim_inputs[i]) \cup {Is("panicked")} : task' = [task EXCEPT ![i] = r]
    /\ UNCHANGED <<rpc, current_block, phase, snapshot, sim_inputs, permits, collected,
                   subscribed, stream, ledgerVars>>

\* A task ends, by a panic perhaps, and its permit goes with it.
SimulationEnds(i) ==
    /\ i \in DOMAIN task /\ task[i] = Is("running")
    /\ \E r \in results(sim_inputs[i]) \cup {Is("panicked")} : task' = [task EXCEPT ![i] = r]
    /\ permits' = permits + 1
    /\ UNCHANGED <<rpc, current_block, phase, snapshot, sim_inputs, collected, subscribed,
                   stream, ledgerVars>>

-----------------------------------------------------------------------------
\* An arb as the executor gets it, to land in the block after; measured is history.
ValidatedArb(id, block, net, measured) ==
    [id |-> id, block_number |-> block, target_block |-> block + 1, net_profit_wei |-> net,
     measured |-> measured]

\* The measured profit where there is one.
build_validated_arb(in, r) ==
    ValidatedArb(in.id, in.block, IF r.profit_wei > 0 THEN r.profit_wei ELSE in.net_profit,
                 rpc /\ in.slot)

\* enqueue of the ledger never waits: a full channel drops the row.
insert_arb(row) ==
    IF Len(queue) < ChannelCap
    THEN queue' = Append(queue, row) /\ drops' = drops
    ELSE queue' = queue /\ drops' = drops \cup {row.id}

publishes(in, r) ==
    r.state = "success" /\ gate_post_sim(in.net_profit, r.profit_wei)

\* join_all has every result; the loop takes them in the order of the inputs.
Collect ==
    /\ phase = "simulate" /\ \A i \in DOMAIN task : task[i].state \notin {"waiting", "running"}
    /\ collected' = collected + 1
    /\ LET in == sim_inputs[collected'] r == task[collected']
       IN  IF publishes(in, r) /\ subscribed
           THEN /\ stream' = Append(stream, build_validated_arb(in, r))
                /\ insert_arb([id |-> in.id])
           ELSE UNCHANGED <<stream, queue, drops>>
    /\ phase' = IF collected' = Len(sim_inputs) THEN "idle" ELSE phase
    /\ UNCHANGED <<rpc, current_block, snapshot, sim_inputs, task, permits, subscribed,
                   holding, inflight, arbs, write_errors>>

\* An executor connects or goes away.
Subscription ==
    /\ subscribed' = ~subscribed
    /\ UNCHANGED <<rpc, current_block, phase, snapshot, cycleVars, stream, ledgerVars>>

-----------------------------------------------------------------------------
others == <<rpc, current_block, phase, snapshot, cycleVars, subscribed, stream>>

\* spawn_writer: take an operation, then wait for one of the in-flight slots.
Receive ==
    /\ queue # <<>> /\ holding = Nothing
    /\ holding' = Head(queue) /\ queue' = Tail(queue)
    /\ UNCHANGED <<inflight, arbs, drops, write_errors, others>>

Dispatch ==
    /\ holding # Nothing /\ Cardinality(inflight) < MaxInflight
    /\ inflight' = inflight \cup {holding} /\ holding' = Nothing
    /\ UNCHANGED <<queue, arbs, drops, write_errors, others>>

\* The mutation of insert_arb_inner: a failed insert is taken for a duplicate.
insert_arb_innerQuiet(row, ok) ==
    /\ arbs' = IF ok THEN arbs \cup {row.id} ELSE arbs
    /\ write_errors' = write_errors

\* insert_arb_inner: the row is there afterwards, or the write is counted as failed.
insert_arb_inner(row, ok) ==
    /\ arbs' = IF ok THEN arbs \cup {row.id} ELSE arbs
    /\ write_errors' = IF ok THEN write_errors ELSE write_errors \cup {row.id}

WriteEnds(row, ok) ==
    /\ row \in inflight /\ inflight' = inflight \ {row}
    /\ insert_arb_inner(row, ok)
    /\ UNCHANGED <<queue, holding, drops, others>>

-----------------------------------------------------------------------------
Batches == UNION {[1..n -> Cycles] : n \in 0..MaxBatch}
distinct(batch) == \A i, j \in DOMAIN batch : batch[i].path = batch[j].path => i = j

Next ==
    \/ \E batch \in Batches, pick \in MinInput..MaxTrade :
           distinct(batch) /\ handle_new_block(batch, pick)
    \/ \E i \in 1..MaxBatch : Spawn(i)
    \/ \E i \in 1..MaxBatch : SimulationEnds(i)
    \/ Collect
    \/ Subscription
    \/ Receive
    \/ Dispatch
    \/ \E row \in inflight, ok \in BOOLEAN : WriteEnds(row, ok)

\* The loop and its tasks run; a simulation is bounded by its gas and its timeouts.
Fairness ==
    /\ \A i \in 1..MaxBatch : WF_vars(Spawn(i)) /\ WF_vars(SimulationEnds(i))
    /\ WF_vars(Collect)

Spec == Init /\ [][Next]_vars /\ Fairness

-----------------------------------------------------------------------------
\* What reaches the stream was measured on a fork, since the simulations that
\* measure nothing report zero and the gate after them drops a zero, is worth
\* at least the part of the engine's threshold that the gate lets it miss, and
\* is for the block after the one it was simulated on.
PublishedMeasured ==
    \A i \in DOMAIN stream :
        /\ stream[i].measured
        /\ 100 * stream[i].net_profit_wei >= (100 - Mismatch) * Threshold
        /\ stream[i].target_block = stream[i].id[1] + 1 /\ stream[i].id[1] <= snapshot

\* Every arb on the stream has its ledger row, is on its way there, or is
\* counted: by the drop of a full channel or as a failed write.
ArbsLogged ==
    \A i \in DOMAIN stream :
        \/ stream[i].id \in arbs \cup drops \cup write_errors
        \/ \E row \in Range(queue) \cup inflight \cup {holding} : row.id = stream[i].id

\* A cycle ends whatever becomes of its simulations, also when there are more
\* of them than permits: the engine gets back to its events.
CycleCompletes == phase = "simulate" ~> phase = "idle"

-----------------------------------------------------------------------------
\* The published price graph, crates/state/src/snapshot.rs, and its publishers in
\* engine.rs, a machine of its own: the cycle of a block clones the working graph
\* under its lock and publishes the clone after the scan, without the lock;
\* remove_pool and the refresh of reserves publish while they hold it.  Whoever adds
\* edges read the pool's metadata before it waited for the lock.  The mempool
\* pipeline reads.  A graph is the set of pools with edges in it.

CONSTANTS
    Pools,
    LastBlock, MaxCycles, MaxCalls \* bounds of the model

SnapshotAssumption ==
    IsFiniteSet(Pools) /\ LastBlock \in Nat /\ MaxCycles \in Nat /\ MaxCalls \in Nat

VARIABLES
    graph, lock,       \* the working graph and who holds its lock
    registered,        \* pool_registry
    number,            \* current_block
    cycle,             \* history: the blocks handled so far
    hot,               \* the pools of the hot cache
    version_counter,   \* of the SnapshotManager
    current,           \* the ArcSwap: version, block, graph and, a history, the cycle
    pub,               \* task |-> where it is and what it is about to do
    read,              \* the snapshot the pipeline took last
    calls,             \* bounded count of the calls
    gone               \* history: removed pool |-> the cycle of the removal

snapshotVars == <<graph, lock, registered, number, cycle, hot, version_counter, current, pub, read,
                  calls, gone>>

GraphSnapshot(v, b, g, c) == [version |-> v, block |-> b, graph |-> g, cycle |-> c]

Idle == [at |-> "idle"]
Publishers == {"loop", "sync", "refresh"}

SnapshotInit ==
    /\ registered = Pools /\ graph = registered /\ lock = "none" /\ number = 0 /\ cycle = 0
    /\ hot = {}
    /\ version_counter = 0 /\ current = GraphSnapshot(0, 0, graph, 0) /\ read = current
    /\ pub = [t \in Publishers |-> Idle] /\ calls = 0 /\ gone = <<>>

-----------------------------------------------------------------------------
\* publish: the version is taken first, the snapshot stored after.
NextVersion(t) ==
    /\ pub[t].at = "publish"
    /\ version_counter' = version_counter + 1
    /\ pub' = [pub EXCEPT ![t] =
         [at |-> "store", release |-> pub[t].release,
          snapshot |-> GraphSnapshot(version_counter + 1, pub[t].block, pub[t].graph, pub[t].cycle)]]
    /\ UNCHANGED <<graph, lock, registered, number, cycle, hot, current, read, calls, gone>>

Store(t) ==
    /\ pub[t].at = "store"
    /\ current' = pub[t].snapshot
    /\ lock' = IF pub[t].release THEN "none" ELSE lock
    /\ pub' = [pub EXCEPT ![t] = Idle]
    /\ UNCHANGED <<graph, registered, number, cycle, hot, version_counter, read, calls, gone>>

Publish(t, g, release) ==
    pub' = [pub EXCEPT ![t] = [at |-> "publish", block |-> number, cycle |-> cycle, graph |-> g,
                               release |-> release]]

\* load_full.
Load ==
    /\ read' = current
    /\ UNCHANGED <<graph, lock, registered, number, cycle, hot, version_counter, current, pub, calls, gone>>

-----------------------------------------------------------------------------
\* handle_new_block: the number of the event, which a reorganisation sets back, then
\* the cycle's clone as soon as the lock is free; with a hot cache that is not empty
\* only its pools.
NewBlock(n) ==
    /\ pub["loop"] = Idle /\ cycle < MaxCycles
    /\ number' = n /\ cycle' = cycle + 1
    /\ pub' = [pub EXCEPT !["loop"] = [at |-> "clone"]]
    /\ UNCHANGED <<graph, lock, registered, hot, version_counter, current, read, calls, gone>>

Clone ==
    /\ pub["loop"].at = "clone" /\ lock = "none"
    /\ Publish("loop", IF hot = {} THEN graph ELSE graph \intersect hot, FALSE)
    /\ UNCHANGED <<graph, lock, registered, number, cycle, hot, version_counter, current, read, calls, gone>>

Call(t, what) ==
    /\ pub[t] = Idle /\ calls < MaxCalls /\ calls' = calls + 1
    /\ pub' = [pub EXCEPT ![t] = what]
    /\ UNCHANGED <<graph, lock, number, cycle, hot, version_counter, current, read, gone>>

\* The edges of ps come into the graph: what was removed is back.
Link(ps) ==
    /\ lock = "none" /\ graph' = graph \union ps
    /\ gone' = [q \in DOMAIN gone \ ps |-> gone[q]]

\* handle_pool_update of a V3 pool: the metadata, then add_edge under the lock.
ReadMetadata(p) ==
    /\ Call("loop", [at |-> "link", pool |-> p]) /\ p \in registered
    /\ UNCHANGED registered

\* register_pool: the registry, then edges under the lock, and nothing is published.
RegisterPool(t, p) ==
    /\ Call(t, [at |-> "link", pool |-> p])
    /\ registered' = registered \union {p}

LinkPool(t) ==
    /\ pub[t].at = "link" /\ Link({pub[t].pool})
    /\ pub' = [pub EXCEPT ![t] = Idle]
    /\ UNCHANGED <<lock, registered, number, cycle, hot, version_counter, current, read, calls>>

\* remove_pool: the registry first ...
RemovePool(p) ==
    /\ Call("sync", [at |-> "unlink", pool |-> p]) /\ p \in registered
    /\ registered' = registered \ {p}

Unlinked(p) ==
    /\ graph' = graph \ {p}
    /\ gone' = [q \in DOMAIN gone \union {p} |-> IF q = p THEN cycle ELSE gone[q]]

\* Mutant: the lock is released before the graph is published.
UnlinkPoolUnlocked ==
    /\ pub["sync"].at = "unlink" /\ lock = "none" /\ Unlinked(pub["sync"].pool)
    /\ Publish("sync", graph', FALSE)
    /\ UNCHANGED <<lock, registered, number, cycle, hot, version_counter, current, read, calls>>

\* ... then, under the lock, the graph and its publication.
UnlinkPool ==
    /\ pub["sync"].at = "unlink" /\ lock = "none" /\ Unlinked(pub["sync"].pool)
    /\ lock' = "sync" /\ Publish("sync", graph', TRUE)
    /\ UNCHANGED <<registered, number, cycle, hot, version_counter, current, read, calls>>

\* The refresh of reserves: the metadata of every pool, and the answers, applied and
\* published under the lock.
CollectPools ==
    /\ Call("refresh", [at |-> "fetch", pools |-> registered])
    /\ UNCHANGED registered

SeedReserves(ps) ==
    /\ pub["refresh"].at = "fetch" /\ ps \subseteq pub["refresh"].pools /\ Link(ps)
    /\ lock' = "refresh" /\ Publish("refresh", graph', TRUE)
    /\ UNCHANGED <<registered, number, cycle, hot, version_counter, current, read, calls>>

\* apply_diff of the hot cache.
RefreshHot ==
    /\ pub["sync"] = Idle /\ calls < MaxCalls /\ calls' = calls + 1 /\ hot' \in SUBSET Pools
    /\ UNCHANGED <<graph, lock, registered, number, cycle, version_counter, current, pub, read, gone>>

SnapshotNext ==
    \/ \E n \in 1..LastBlock : NewBlock(n)
    \/ Clone \/ UnlinkPool \/ CollectPools \/ RefreshHot \/ Load
    \/ \E ps \in SUBSET Pools : SeedReserves(ps)
    \/ \E t \in Publishers : NextVersion(t) \/ Store(t) \/ LinkPool(t)
    \/ \E p \in Pools : ReadMetadata(p) \/ RemovePool(p) \/ (\E t \in {"loop", "sync"} : RegisterPool(t, p))

SnapshotSpec == SnapshotInit /\ [][SnapshotNext]_snapshotVars

-----------------------------------------------------------------------------
\* The pipeline never goes back to the graph of an earlier block's cycle, so its block
\* number goes back only where the chain's did; and a removed pool is out of the graph
\* it reads once the cycle of a later block has published, unless someone added its
\* edges again: although the loop stores without the lock and the publishers
\* overtake each other.
Advances ==
    /\ read'.cycle >= read.cycle
    /\ \A p \in DOMAIN gone' : p \in current'.graph => current'.cycle <= gone'[p]
=============================================================================
