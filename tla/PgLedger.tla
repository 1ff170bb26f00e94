------------------------------ MODULE PgLedger ------------------------------
(***************************************************************************)
(* internal/db/ledger_pg.go: the executor's trade ledger.  The arb         *)
(* goroutine and the inclusion poller enqueue rows on a bounded channel    *)
(* without blocking; one dispatcher hands each row to a writer goroutine,  *)
(* MaxInflight at a time, so rows reach Postgres in any order.  Close      *)
(* drains under a deadline.                                                *)
(***************************************************************************)
EXTENDS Integers, Sequences, FiniteSets, Functions

CONSTANTS
    LedgerBundles,         \* the bundles processArb submits
    LedgerCapacity,        \* ledgerChannelCapacity (1024)
    LedgerMaxInflight      \* ledgerMaxInflight = ledgerPoolSize (8)

ASSUME LedgerAssumption ==
    /\ LedgerCapacity \in Nat \ {0}
    /\ LedgerMaxInflight \in Nat \ {0}

VARIABLES
    todo,            \* rows each producer has still to enqueue
    announced,       \* producers between QueueDepth.Inc() and the send
    resolvedAs,      \* what the poller found: "no", "landed" or "missed"
    ch, queueDepth,
    dispatcher,      \* "recv", "count" (the gauge), "acquire", "wait" (inflight.Wait) or "exited"
    hold,            \* the op received and not yet handed to a writer
    inflight,        \* ops of the running writers
    closing,         \* "open", "drain", "clean", "cancelled" or "closed"
    bundles, inclusion_results, bundle_count, inclusion_count,   \* the tables
    submitted,       \* history: the bundles processArb has submitted
    dropped,         \* history: a row met a full channel
    dbFault          \* history: Postgres failed a write, other than by a constraint

producerVars == <<todo, announced, resolvedAs, submitted>>
tables == <<bundles, inclusion_results, bundle_count, inclusion_count>>
chVars == <<ch, queueDepth, dropped>>
writerVars == <<tables, dbFault>>
ledgerVars == <<producerVars, chVars, dispatcher, hold, inflight, closing, writerVars>>

Producers == {"arb", "poller"}
InsertBundle(b) == [kind |-> "insert_bundle", bundle |-> b, row |-> "submitted"]
InsertInclusion(b, row) == [kind |-> "insert_inclusion", bundle |-> b, row |-> row]
UpsertPnLDaily(b, row) == [kind |-> "upsert_pnl_daily", bundle |-> b, row |-> row]

Ops == [kind : {"insert_bundle", "insert_inclusion", "upsert_pnl_daily"},
        bundle : LedgerBundles, row : {"submitted", "landed", "missed"}]

LedgerTypeOK ==
    /\ todo \in [Producers -> Seq(Ops)] /\ announced \subseteq Producers
    /\ resolvedAs \in [LedgerBundles -> {"no", "landed", "missed"}]
    /\ ch \in Seq(Ops) /\ Len(ch) <= LedgerCapacity
    /\ queueDepth \in Int
    /\ dispatcher \in {"recv", "count", "acquire", "wait", "exited"}
    /\ hold \in Seq(Ops) /\ Len(hold) <= 1
    /\ inflight \subseteq Ops /\ Cardinality(inflight) <= LedgerMaxInflight
    /\ closing \in {"open", "drain", "clean", "cancelled", "closed"}
    /\ bundles \subseteq LedgerBundles
    /\ inclusion_results \in [LedgerBundles -> {"none", "submitted", "landed", "missed"}]
    /\ bundle_count \in Nat /\ inclusion_count \in Nat
    /\ submitted \subseteq LedgerBundles /\ dropped \in BOOLEAN /\ dbFault \in BOOLEAN

LedgerInit ==
    /\ todo = [p \in Producers |-> <<>>] /\ announced = {}
    /\ resolvedAs = [b \in LedgerBundles |-> "no"]
    /\ ch = <<>> /\ queueDepth = 0
    /\ dispatcher = "recv" /\ hold = <<>> /\ inflight = {} /\ closing = "open"
    /\ bundles = {} /\ inclusion_results = [b \in LedgerBundles |-> "none"]
    /\ bundle_count = 0 /\ inclusion_count = 0
    /\ submitted = {} /\ dropped = FALSE /\ dbFault = FALSE

-----------------------------------------------------------------------------
(* The producers.                                                          *)

\* processArb: the bundle row, its per-builder row, the daily roll-up.
processArb(b) ==
    /\ closing = "open" /\ todo["arb"] = <<>> /\ b \notin submitted
    /\ submitted' = submitted \union {b}
    /\ todo' = [todo EXCEPT !["arb"] =
           <<InsertBundle(b), InsertInclusion(b, "submitted"), UpsertPnLDaily(b, "submitted")>>]
    /\ UNCHANGED <<announced, resolvedAs, chVars, dispatcher, hold, inflight, closing, writerVars>>

\* The poller settles a bundle that processArb has queued, which it does after
\* its first two rows.
resolveInclusionRows(b, outcome) ==
    /\ closing = "open" /\ todo["poller"] = <<>>
    /\ b \in submitted /\ resolvedAs[b] = "no"
    /\ InsertInclusion(b, "submitted") \notin Range(todo["arb"])
    /\ resolvedAs' = [resolvedAs EXCEPT ![b] = outcome]
    /\ todo' = [todo EXCEPT !["poller"] =
           <<InsertInclusion(b, outcome)>>
             \o IF outcome = "landed" THEN <<UpsertPnLDaily(b, outcome)>> ELSE <<>>]
    /\ UNCHANGED <<announced, submitted, chVars, dispatcher, hold, inflight, closing, writerVars>>

\* enqueue: the gauge first, then the non-blocking send.
enqueueInc(p) ==
    /\ todo[p] # <<>> /\ p \notin announced
    /\ announced' = announced \union {p}
    /\ queueDepth' = queueDepth + 1
    /\ UNCHANGED <<todo, resolvedAs, submitted, ch, dropped, dispatcher, hold, inflight, closing, writerVars>>

hasRoom == Len(ch) < LedgerCapacity

enqueueSend(p) ==
    /\ p \in announced
    /\ announced' = announced \ {p}
    /\ todo' = [todo EXCEPT ![p] = Tail(@)]
    /\ IF hasRoom
       THEN ch' = Append(ch, Head(todo[p])) /\ UNCHANGED <<queueDepth, dropped>>
       ELSE /\ queueDepth' = queueDepth - 1
            /\ dropped' = TRUE
            /\ UNCHANGED ch
    /\ UNCHANGED <<resolvedAs, submitted, dispatcher, hold, inflight, closing, writerVars>>

-----------------------------------------------------------------------------
(* dispatch and its writers.                                               *)

cancelled == closing \in {"cancelled", "closed"}

dispatchRecv ==
    /\ dispatcher = "recv" /\ ch # <<>>
    /\ hold' = <<Head(ch)>> /\ ch' = Tail(ch)
    /\ dispatcher' = "count"
    /\ UNCHANGED <<producerVars, queueDepth, dropped, inflight, closing, writerVars>>

\* The gauge falls after the row has left the channel.
dispatchCount ==
    /\ dispatcher = "count" /\ dispatcher' = "acquire"
    /\ queueDepth' = queueDepth - 1
    /\ UNCHANGED <<producerVars, ch, dropped, hold, inflight, closing, writerVars>>

\* The channel is closed and drained.
dispatchEnd ==
    /\ dispatcher = "recv" /\ ch = <<>> /\ closing # "open"
    /\ dispatcher' = "wait"
    /\ UNCHANGED <<producerVars, chVars, hold, inflight, closing, writerVars>>

slotFree == Cardinality(inflight) < LedgerMaxInflight

dispatchSpawn ==
    /\ dispatcher = "acquire" /\ slotFree
    /\ inflight' = inflight \union {hold[1]}
    /\ hold' = <<>> /\ dispatcher' = "recv"
    /\ UNCHANGED <<producerVars, chVars, closing, writerVars>>

\* <-ctx.Done() while it waits for a slot: the op is abandoned.
dispatchCancelled ==
    /\ dispatcher = "acquire" /\ cancelled
    /\ hold' = <<>> /\ dispatcher' = "wait"
    /\ UNCHANGED <<producerVars, chVars, inflight, closing, writerVars>>

\* Mutant: no deferred inflight.Wait().
writersDoneSkipped == TRUE

writersDone == inflight = {}

dispatchExit ==
    /\ dispatcher = "wait" /\ writersDone
    /\ dispatcher' = "exited"
    /\ UNCHANGED <<producerVars, chVars, hold, inflight, closing, writerVars>>

\* The statement Postgres runs for an op, and the foreign key of
\* inclusion_results on bundles.
accepts(op) == op.kind = "insert_inclusion" => op.bundle \in bundles

insertBundleInner(b) ==
    bundles' = bundles \union {b}
    /\ UNCHANGED <<inclusion_results, bundle_count, inclusion_count>>

insertInclusionInner(b, row) ==
    inclusion_results' = [inclusion_results EXCEPT ![b] = row]
    /\ UNCHANGED <<bundles, bundle_count, inclusion_count>>

upsertPnLDailyInner(row) ==
    /\ bundle_count' = bundle_count + IF row = "submitted" THEN 1 ELSE 0
    /\ inclusion_count' = inclusion_count + IF row = "landed" THEN 1 ELSE 0
    /\ UNCHANGED <<bundles, inclusion_results>>

execute(op) ==
    \/ op.kind = "insert_bundle" /\ insertBundleInner(op.bundle)
    \/ op.kind = "insert_inclusion" /\ insertInclusionInner(op.bundle, op.row)
    \/ op.kind = "upsert_pnl_daily" /\ upsertPnLDailyInner(op.row)

\* A writer finishes: the statement succeeds, fails on its constraint, or
\* fails with the connection, before or after Postgres committed it.  A closed
\* pool refuses it.
runOne(op) ==
    /\ op \in inflight
    /\ inflight' = inflight \ {op}
    /\ \/ closing # "closed" /\ accepts(op) /\ execute(op) /\ dbFault' \in {dbFault, TRUE}
       \/ ~accepts(op) /\ UNCHANGED <<tables, dbFault>>
       \/ dbFault' = TRUE /\ UNCHANGED tables
    /\ UNCHANGED <<producerVars, chVars, dispatcher, hold, closing>>

-----------------------------------------------------------------------------
(* Close, from the executor's cleanup: the producers have stopped.         *)

CloseChannel ==
    /\ closing = "open" /\ \A p \in Producers : todo[p] = <<>>
    /\ closing' = "drain"
    /\ UNCHANGED <<producerVars, chVars, dispatcher, hold, inflight, writerVars>>

CloseDrained ==
    /\ closing = "drain" /\ dispatcher = "exited"
    /\ closing' = "clean"
    /\ UNCHANGED <<producerVars, chVars, dispatcher, hold, inflight, writerVars>>

\* ledgerCloseDrainTimeout: cancel the dispatcher and its writers.
CloseTimeout ==
    /\ closing = "drain" /\ dispatcher # "exited"
    /\ closing' = "cancelled"
    /\ UNCHANGED <<producerVars, chVars, dispatcher, hold, inflight, writerVars>>

\* After the second, shorter wait the pool closes once its connections are
\* back.
PoolClose ==
    /\ closing = "cancelled" /\ inflight = {}
    /\ closing' = "closed"
    /\ UNCHANGED <<producerVars, chVars, dispatcher, hold, inflight, writerVars>>

Dispatch == dispatchRecv \/ dispatchCount \/ dispatchEnd \/ dispatchSpawn \/ dispatchCancelled \/ dispatchExit

Stopped == closing \in {"clean", "closed"} /\ UNCHANGED ledgerVars

LedgerNext ==
    \/ \E b \in LedgerBundles : processArb(b)
    \/ \E b \in LedgerBundles, outcome \in {"landed", "missed"} : resolveInclusionRows(b, outcome)
    \/ \E p \in Producers : enqueueInc(p) \/ enqueueSend(p)
    \/ dispatchRecv \/ dispatchCount \/ dispatchEnd \/ dispatchSpawn \/ dispatchCancelled \/ dispatchExit
    \/ \E op \in inflight : runOne(op)
    \/ CloseChannel \/ CloseDrained \/ CloseTimeout \/ PoolClose
    \/ Stopped

\* The goroutines and the two timers of Close run.  A statement need not ever
\* return, until its context is cancelled.
LedgerFairness ==
    /\ WF_ledgerVars(Dispatch) /\ WF_ledgerVars(CloseDrained) /\ WF_ledgerVars(CloseTimeout) /\ WF_ledgerVars(PoolClose)
    /\ WF_ledgerVars(cancelled /\ \E op \in inflight : runOne(op))

LedgerSpec == LedgerInit /\ [][LedgerNext]_ledgerVars /\ LedgerFairness

-----------------------------------------------------------------------------
Quiet == /\ \A p \in Producers : todo[p] = <<>>
         /\ ch = <<>> /\ hold = <<>> /\ inflight = {}
Healthy == ~dbFault /\ ~dropped /\ ~cancelled

\* The row taken from the channel that the gauge still counts.
inHand == IF dispatcher = "count" THEN 1 ELSE 0

\* The gauge is raised before the send and lowered only for a received or a
\* reverted row, so it never reads less than the rows that are waiting, and
\* agrees with them when no enqueue and no receive is under way.
GaugeCoversQueue ==
    queueDepth = Len(ch) + Cardinality(announced) + inHand

\* With a healthy Postgres and no drop, once the queue is empty every bundle
\* has its row and the daily roll-up counts each bundle and each landed bundle
\* exactly once, whatever the order of the writers.
BooksBalance ==
    Quiet /\ Healthy =>
        /\ bundles = submitted
        /\ bundle_count = Cardinality(submitted)
        /\ inclusion_count = Cardinality({b \in LedgerBundles : resolvedAs[b] = "landed"})

\* A Close that did not time out leaves no writer on the pool it closes and no
\* row that was accepted and never tried.
CleanCloseDrains ==
    closing = "clean" => inflight = {} /\ ch = <<>> /\ hold = <<>>

=============================================================================
