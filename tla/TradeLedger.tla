---------------------------- MODULE TradeLedger -----------------------------
(***************************************************************************)
(* The trade ledger the two processes share (common/src/db.rs, the         *)
(* publishing of engine.rs and pipeline.rs, and the bundles the executor   *)
(* records).  The engine streams an arb and then queues its row for the    *)
(* writer tasks of PgLedger; the executor works on the streamed arb at     *)
(* once, and the row of its bundle names the arb, which may have no row    *)
(* yet: migration 0002 dropped the foreign key between the two.  Hops      *)
(* carry the pool and the protocol only; amounts are small integers.       *)
(***************************************************************************)
EXTENDS Integers, FiniteSets, SequencesExt

CONSTANTS
    Opps,              \* opportunities with their simulation, of both sources
    Pools,             \* pools somebody registers: NewPool rows
    TipBps,
    Capacity, MaxInflight,   \* LEDGER_CHANNEL_CAPACITY, LEDGER_MAX_INFLIGHT
    MaxRegistrations

LedgerAssumption ==
    /\ Capacity \in Nat \ {0} /\ MaxInflight \in Nat \ {0} /\ MaxRegistrations \in Nat
    /\ \A o \in Opps : o.source \in {"block", "mempool"}

VARIABLES
    pg,                \* the ledger is a PgLedger, and not a NoopLedger
    stream,            \* arbs sent on the stream
    due,               \* arbs streamed whose row the engine has still to queue
    queue, uncounted, depth,     \* the channel, sends not yet in the gauge, the gauge
    holding, inflight, \* the operation waiting for a slot, the writes under way
    fresh,             \* the gauge has still to fall for that operation
    arbs, pool_registry, bundles,            \* the tables
    drops, write_errors,         \* rows counted as lost
    registrations, running

writerVars == <<holding, inflight, fresh>>
tables == <<arbs, pool_registry, bundles>>
metrics == <<drops, write_errors>>
vars == <<pg, stream, due, queue, uncounted, depth, writerVars, tables, metrics,
          registrations, running>>

-----------------------------------------------------------------------------
\* The number the wire and the contract know a protocol by.
protocol_to_proto(p) ==
    CASE p = "UniswapV2" -> 1 [] p = "UniswapV3" -> 2 [] p = "SushiSwap" -> 3
      [] p = "Curve" -> 4 [] p = "BalancerV2" -> 5 [] p = "BancorV3" -> 6
      [] p = "BalancerV3" -> 7

arb_hop_to_proto(hop) == [hop EXCEPT !.protocol = protocol_to_proto(hop.protocol)]

\* The message of an opportunity; a simulated figure wins over the estimate.
to_proto(o) ==
    [id |-> o.id, hops |-> [h \in DOMAIN o.hops |-> arb_hop_to_proto(o.hops[h])],
     total_gas |-> IF o.sim_gas > 0 THEN o.sim_gas ELSE o.total_gas,
     net_profit_wei |-> IF o.sim_profit > 0 THEN o.sim_profit ELSE o.net_profit,
     source |-> o.source, target_block |-> o.block_number + 1]

\* UUIDv5 of the id of the opportunity, the same in both processes: injective.
arb_id_for_opp(id) == <<"arb", id>>

arb_path_labels(o) == IF o.hops = <<>> THEN <<>>
                      ELSE <<o.hops[1].token_in>> \o [h \in DOMAIN o.hops |-> o.hops[h].token_out]

\* The row of an opportunity, with the estimated profit and the block it was seen in.
build_new_arb(o) ==
    [arb_id |-> arb_id_for_opp(o.id), target_block |-> o.block_number,
     path |-> arb_path_labels(o), hops |-> Len(o.hops),
     pool_addresses |-> [h \in DOMAIN o.hops |-> o.hops[h].pool],
     protocols |-> [h \in DOMAIN o.hops |-> o.hops[h].protocol],
     gas_estimate |-> o.total_gas, net_profit_wei |-> o.net_profit, tip_bps |-> TipBps]

Nothing == [op |-> "none"]

\* ledger_from_env: without a url, or when the connection fails, every write is discarded.
ledger_from_env(url, reachable) == url /\ reachable

Init ==
    /\ \E url, reachable \in BOOLEAN : pg = ledger_from_env(url, reachable)
    /\ stream = {} /\ due = {} /\ queue = <<>> /\ uncounted = 0 /\ depth = 0
    /\ holding = Nothing /\ inflight = {} /\ fresh = FALSE
    /\ arbs = {} /\ pool_registry = {} /\ bundles = {}
    /\ drops = <<>> /\ write_errors = {}
    /\ registrations = 0 /\ running = TRUE

-----------------------------------------------------------------------------
\* enqueue never waits: a full channel drops the row.  The gauge is raised after
\* the send, when the dispatcher may have taken the row already.
enqueue(op) ==
    IF ~pg THEN UNCHANGED <<queue, uncounted, drops>>
    ELSE IF Len(queue) < Capacity
         THEN queue' = Append(queue, op) /\ uncounted' = uncounted + 1 /\ drops' = drops
         ELSE UNCHANGED <<queue, uncounted>> /\ drops' = Append(drops, op.op)

GaugeRaised ==
    /\ uncounted > 0 /\ uncounted' = uncounted - 1 /\ depth' = depth + 1
    /\ UNCHANGED <<pg, stream, due, queue, writerVars, tables, metrics, registrations, running>>

\* run_detection_cycle: the message first.
Publish(o) ==
    /\ running /\ o.source = "block" /\ \A m \in stream : m.id # o.id
    /\ stream' = stream \cup {to_proto(o)} /\ due' = due \cup {o}
    /\ UNCHANGED <<pg, queue, uncounted, depth, writerVars, tables, metrics, registrations,
                   running>>

insert_arb(o) ==
    /\ running /\ o \in due /\ due' = due \ {o}
    /\ enqueue([op |-> "insert_arb", row |-> build_new_arb(o)])
    /\ UNCHANGED <<pg, stream, depth, writerVars, tables, write_errors,
                   registrations, running>>

\* publish_backrun_arb of the mempool pipeline has no ledger.
PublishBackrun(o) ==
    /\ running /\ o.source = "mempool" /\ \A m \in stream : m.id # o.id
    /\ stream' = stream \cup {to_proto(o)}
    /\ UNCHANGED <<pg, due, queue, uncounted, depth, writerVars, tables, metrics,
                   registrations, running>>

\* register_pool ends with the row of the pool, also for one it knows.
insert_pool(p) ==
    /\ running /\ registrations < MaxRegistrations /\ registrations' = registrations + 1
    /\ enqueue([op |-> "insert_pool", row |-> p])
    /\ UNCHANGED <<pg, stream, due, depth, writerVars, tables, write_errors,
                   running>>

-----------------------------------------------------------------------------
untouched == <<pg, stream, due, uncounted, bundles, drops, registrations,
               running>>

\* The mutation of Receive: the gauge falls with the rows that are written only.
ReceiveUncounted ==
    /\ queue # <<>> /\ holding = Nothing
    /\ holding' = Head(queue) /\ queue' = Tail(queue) /\ fresh' = FALSE
    /\ UNCHANGED <<depth, inflight, arbs, pool_registry, write_errors, untouched>>

\* The dispatcher of spawn_writer: the head of the queue, ...
Receive ==
    /\ queue # <<>> /\ holding = Nothing
    /\ holding' = Head(queue) /\ queue' = Tail(queue) /\ fresh' = TRUE
    /\ UNCHANGED <<depth, inflight, arbs, pool_registry, write_errors, untouched>>

\* ... the gauge, ...
GaugeLowered ==
    /\ fresh /\ fresh' = FALSE /\ depth' = depth - 1
    /\ UNCHANGED <<queue, holding, inflight, arbs, pool_registry, write_errors, untouched>>

\* ... then a slot, and a task of its own.
Dispatch ==
    /\ holding # Nothing /\ ~fresh /\ Cardinality(inflight) < MaxInflight
    /\ inflight' = inflight \cup {holding} /\ holding' = Nothing
    /\ UNCHANGED <<queue, depth, fresh, arbs, pool_registry, write_errors, untouched>>

\* ON CONFLICT (arb_id) DO NOTHING
insert_arb_inner(row) ==
    /\ arbs' = IF \E a \in arbs : a.arb_id = row.arb_id THEN arbs ELSE arbs \cup {row}
    /\ pool_registry' = pool_registry

\* ON CONFLICT (address): only last_seen moves.
insert_pool_inner(row) ==
    /\ pool_registry' = IF \E p \in pool_registry : p.address = row.address
                        THEN pool_registry ELSE pool_registry \cup {row}
    /\ arbs' = arbs

WriteEnds(op, ok) ==
    /\ op \in inflight /\ inflight' = inflight \ {op}
    /\ IF ~ok THEN write_errors' = write_errors \cup {op} /\ UNCHANGED <<arbs, pool_registry>>
       ELSE /\ IF op.op = "insert_arb" THEN insert_arb_inner(op.row)
                                       ELSE insert_pool_inner(op.row)
            /\ write_errors' = write_errors
    /\ UNCHANGED <<queue, holding, fresh, depth, untouched>>

\* The engine exits: what is not written is gone.
Exit ==
    /\ running /\ running' = FALSE
    /\ due' = {} /\ queue' = <<>> /\ uncounted' = 0 /\ depth' = 0
    /\ holding' = Nothing /\ inflight' = {} /\ fresh' = FALSE
    /\ UNCHANGED <<pg, stream, tables, metrics, registrations>>

-----------------------------------------------------------------------------
\* The executor has built and sent the bundle of a streamed arb and writes its
\* row; whether the arb has one is not asked.
InsertBundle(m) ==
    /\ m \in stream /\ \A b \in bundles : b.id # m.id
    /\ bundles' = bundles \cup {[id |-> m.id, arb_id |-> arb_id_for_opp(m.id),
                                 target_block |-> m.target_block]}
    /\ UNCHANGED <<pg, stream, due, queue, uncounted, depth, writerVars, arbs, pool_registry,
                   metrics, registrations, running>>

Next ==
    \/ \E o \in Opps : Publish(o) \/ insert_arb(o) \/ PublishBackrun(o)
    \/ \E p \in Pools : insert_pool(p)
    \/ GaugeRaised \/ Receive \/ GaugeLowered \/ Dispatch
    \/ \E op \in inflight, ok \in BOOLEAN : WriteEnds(op, ok)
    \/ Exit
    \/ \E m \in stream : InsertBundle(m)

Spec == Init /\ [][Next]_vars

-----------------------------------------------------------------------------
\* The queue depth the engine reports is the length of the channel, short by the
\* sends whose producer has not raised it yet and over by a row just received:
\* whatever the producers, the dispatcher and the writers do, it does not drift.
GaugeTracksQueue == depth = Len(queue) + (IF fresh THEN 1 ELSE 0) - uncounted

\* A bundle row and an arbs row that join are of one opportunity, that of the
\* message the bundle was built from: the same pools in the same order, and the
\* block after the one the row names.
RowsJoin ==
    \A b \in bundles, a \in arbs : a.arb_id = b.arb_id =>
        \E m \in stream : /\ m.id = b.id
                          /\ a.pool_addresses = [h \in DOMAIN m.hops |-> m.hops[h].pool]
                          /\ b.target_block = a.target_block + 1

\* Orphans surface: while an engine with a ledger runs, the arb of a bundle from
\* a block has its row, or the row is on its way, or its loss is counted.  (A
\* backrun has no row, and nothing counts that.)
OrphansSurface ==
    pg /\ running =>
        LET onItsWay == Range(queue) \cup {holding} \cup inflight \cup write_errors
            rows == arbs \cup {op.row : op \in {x \in onItsWay : x.op = "insert_arb"}}
                         \cup {build_new_arb(o) : o \in due}
            orphans == {b \in bundles :
                          /\ \E o \in Opps : o.id = b.id /\ o.source = "block"
                          /\ \A r \in rows : r.arb_id # b.arb_id}
        IN  Cardinality(orphans) <= Len(SelectSeq(drops, LAMBDA op : op = "insert_arb"))
=============================================================================
