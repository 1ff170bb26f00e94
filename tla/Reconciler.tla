----------------------------- MODULE Reconciler -----------------------------
(***************************************************************************)
(* cmd/reconciler/main.go and internal/db/mempool_reconciliation_pg.go: a  *)
(* header loop that confirms the predictions whose transaction is in a new *)
(* block, a sweep that marks the rest dropped after Window blocks, and an  *)
(* asynchronous writer between the loop and the table.                     *)
(***************************************************************************)
EXTENDS Integers, Sequences

CONSTANTS
    Predictions,
    Window,          \* StaleConfirmationWindow (12)
    ReconCapacity,        \* reconChannelCapacity
    MaxHead          \* bound of the model

ASSUME ReconcilerAssumption ==
    /\ Window \in Nat \ {0} /\ ReconCapacity \in Nat \ {0} /\ MaxHead \in Nat

VARIABLES
    head,            \* number of the chain's last block
    target,          \* predicted_target_block; 0 before the engine predicts
    landed,          \* block the transaction landed in; 0 if it has not
    stored,          \* rows of mempool_predictions
    up,              \* the process runs
    headerLoop,      \* "running" or "returned"
    headers,         \* block numbers delivered and not yet handled
    reconCh,              \* rows queued for the writer
    sweepHead,       \* block number a sweep has read; 0 between sweeps
    outcome,         \* mempool_reconciliation; "none" if there is no row
    fault,           \* history: a call failed, a row was lost or the process stopped
    late             \* history: predictions stored after their block was handled

chain == <<head, target, landed>>
process == <<up, headerLoop, headers, reconCh, sweepHead>>
reconVars == <<chain, stored, process, outcome, fault, late>>

ReconTypeOK ==
    /\ head \in Nat /\ sweepHead \in Nat
    /\ target \in [Predictions -> Nat] /\ landed \in [Predictions -> Nat]
    /\ stored \subseteq Predictions /\ late \subseteq Predictions
    /\ up \in BOOLEAN /\ fault \in BOOLEAN
    /\ headerLoop \in {"running", "returned"}
    /\ headers \in Seq(Nat) /\ reconCh \in Seq(Predictions) /\ Len(reconCh) <= ReconCapacity
    /\ outcome \in [Predictions -> {"none", "confirmed", "dropped"}]

ReconInit ==
    /\ head = 1 /\ sweepHead = 0
    /\ target = [p \in Predictions |-> 0] /\ landed = [p \in Predictions |-> 0]
    /\ stored = {} /\ late = {}
    /\ up = TRUE /\ fault = FALSE /\ headerLoop = "running"
    /\ headers = <<>> /\ reconCh = <<>>
    /\ outcome = [p \in Predictions |-> "none"]

-----------------------------------------------------------------------------
(* The engine and the chain.                                               *)

\* The engine predicts the next block, and its own writer stores the row later.
Predict(p) ==
    /\ target[p] = 0 /\ head + 1 + Window < MaxHead
    /\ target' = [target EXCEPT ![p] = head + 1]
    /\ UNCHANGED <<head, landed, stored, process, outcome, fault, late>>

Store(p) ==
    /\ target[p] # 0 /\ p \notin stored
    /\ stored' = stored \union {p}
    /\ UNCHANGED <<chain, process, outcome, fault, late>>

\* A block with some of the predicted transactions; its header reaches a
\* running header loop.
NewBlock(txs) ==
    /\ head < MaxHead
    /\ \A p \in txs : target[p] # 0 /\ landed[p] = 0
    /\ head' = head + 1
    /\ landed' = [p \in Predictions |-> IF p \in txs THEN head + 1 ELSE landed[p]]
    /\ headers' = IF up /\ headerLoop = "running" THEN Append(headers, head + 1) ELSE headers
    /\ UNCHANGED <<target, stored, up, headerLoop, reconCh, sweepHead, outcome, fault, late>>

-----------------------------------------------------------------------------
(* runHeaderLoop.                                                          *)

\* BlockByHash fails: the block is skipped.
SkipHeader ==
    /\ up /\ headerLoop = "running" /\ headers # <<>>
    /\ headers' = Tail(headers) /\ fault' = TRUE
    /\ UNCHANGED <<chain, stored, up, headerLoop, reconCh, sweepHead, outcome, late>>

\* Mutant: only a transaction in its predicted block is matched.
MatchesOnTime(block) == {p \in stored : landed[p] = block /\ target[p] = block}

Matches(block) == {p \in stored : landed[p] = block}

\* InsertReconciliation for each match, as far as the channel has room; a
\* failed lookup skips its transaction.
Rows(block) ==
    {s \in UNION {[1..n -> Matches(block)] : n \in 0..(ReconCapacity - Len(reconCh))} :
        \A i, j \in DOMAIN s : s[i] = s[j] => i = j}

handleHeader ==
    /\ up /\ headerLoop = "running" /\ headers # <<>>
    /\ headers' = Tail(headers)
    /\ \E rows \in Rows(Head(headers)) :
          /\ reconCh' = reconCh \o rows
          /\ fault' = (fault \/ \E p \in Matches(Head(headers)) : \A i \in DOMAIN rows : rows[i] # p)
    /\ late' = late \union {p \in Predictions \ stored : landed[p] = Head(headers)}
    /\ UNCHANGED <<chain, stored, up, headerLoop, sweepHead, outcome>>

\* The subscription fails: the loop returns, the process stays.
SubscriptionError ==
    /\ up /\ headerLoop = "running"
    /\ headerLoop' = "returned" /\ headers' = <<>> /\ fault' = TRUE
    /\ UNCHANGED <<chain, stored, up, reconCh, sweepHead, outcome, late>>

-----------------------------------------------------------------------------
(* The writer and the sweep.                                               *)

\* Mutant: ON CONFLICT DO UPDATE.
insertAlways(p) == TRUE

\* ON CONFLICT (prediction_id) DO NOTHING.
noRow(p) == outcome[p] = "none"

\* dispatch: one row at a time; a failed INSERT loses the row.
insertReconciliationInner ==
    /\ up /\ reconCh # <<>>
    /\ reconCh' = Tail(reconCh)
    /\ \/ /\ outcome' = IF noRow(Head(reconCh)) THEN [outcome EXCEPT ![Head(reconCh)] = "confirmed"]
                                           ELSE outcome
          /\ UNCHANGED fault
       \/ fault' = TRUE /\ UNCHANGED outcome
    /\ UNCHANGED <<chain, stored, up, headerLoop, headers, sweepHead, late>>

\* The sweep reads the head itself.
SweepReadHead ==
    /\ up /\ sweepHead = 0
    /\ sweepHead' = head
    /\ UNCHANGED <<chain, stored, up, headerLoop, headers, reconCh, outcome, fault, late>>

stale(p) == target[p] <= sweepHead - Window

MarkStaleAsDropped ==
    /\ up /\ sweepHead # 0
    /\ outcome' = [p \in Predictions |->
           IF p \in stored /\ stale(p) /\ outcome[p] = "none" THEN "dropped" ELSE outcome[p]]
    /\ sweepHead' = 0
    /\ UNCHANGED <<chain, stored, up, headerLoop, headers, reconCh, fault, late>>

SweepFails ==
    /\ up /\ sweepHead # 0
    /\ sweepHead' = 0
    /\ UNCHANGED <<chain, stored, up, headerLoop, headers, reconCh, outcome, fault, late>>

\* The process stops, by a signal or a crash, and is started again: what it
\* held in memory and the headers in between are gone.
Stop ==
    /\ up /\ up' = FALSE
    /\ headers' = <<>> /\ reconCh' = <<>> /\ sweepHead' = 0 /\ fault' = TRUE
    /\ UNCHANGED <<chain, stored, headerLoop, outcome, late>>

Restart ==
    /\ ~up /\ up' = TRUE /\ headerLoop' = "running"
    /\ UNCHANGED <<chain, stored, headers, reconCh, sweepHead, outcome, fault, late>>

ReconNext ==
    \/ \E p \in Predictions : Predict(p) \/ Store(p)
    \/ \E txs \in SUBSET Predictions : NewBlock(txs)
    \/ SkipHeader \/ handleHeader \/ SubscriptionError
    \/ insertReconciliationInner
    \/ SweepReadHead \/ MarkStaleAsDropped \/ SweepFails
    \/ Stop \/ Restart

\* Blocks are produced, the ticker of the sweep keeps firing, and the node and
\* Postgres answer again and again.
ReconFairness ==
    /\ WF_reconVars(\E txs \in SUBSET Predictions : NewBlock(txs))
    /\ WF_reconVars(SweepReadHead) /\ SF_reconVars(MarkStaleAsDropped)

ReconSpec == ReconInit /\ [][ReconNext]_reconVars /\ ReconFairness

-----------------------------------------------------------------------------
InQueue(q, x) == \E i \in DOMAIN q : q[i] = x

\* The first outcome of a prediction is its last, whichever of the header
\* loop's writer and the sweep comes first: "exactly one row here once the
\* outcome is known".
FirstOutcomeStands ==
    [][\A p \in Predictions : outcome[p] # "none" => outcome'[p] = outcome[p]]_reconVars

\* The sweep reads the head before it runs its query and the chain moves in
\* between, yet no prediction is dropped before its whole window has passed.
DroppedOnlyAfterWindow ==
    \A p \in Predictions : outcome[p] = "dropped" => head >= target[p] + Window

\* Unless a call failed, a landed prediction without an outcome is still on
\* its way: its header waits, its row waits, or the prediction itself was
\* stored after its block was handled.
LandedIsOnItsWay ==
    \A p \in stored :
        landed[p] # 0 /\ outcome[p] = "none" /\ ~fault =>
            InQueue(headers, landed[p]) \/ InQueue(reconCh, p) \/ p \in late

\* Every stored prediction gets an outcome while the process runs, even with
\* the header loop gone: "a stalled WS subscription does not freeze the
\* dropped sweep".
EveryPredictionResolves ==
    \A p \in Predictions : p \in stored ~> outcome[p] # "none" \/ ~up

=============================================================================
