----------------------------- MODULE Predictions ----------------------------
(***************************************************************************)
(* The mempool prediction tables: the engine's writer                      *)
(* (crates/grpc-server/src/mempool_writer.rs), and the profit scorer       *)
(* (bin/aether_profit_scorer.rs over profitability_writer.rs), which polls *)
(* for confirmed predictions without a score.  A record is one decoded     *)
(* swap of a pending transaction; it carries the pool it predicts.         *)
(***************************************************************************)
EXTENDS Integers, Sequences, SequencesExt, FiniteSets, FiniteSetsExt

CONSTANTS
    Records,          \* numbered by the block they will confirm in
    txOf(_),          \* pending_tx_hash of a record
    ConfigPools,      \* records whose pool is in pools.toml
    Supported,        \* records whose protocol parse_db_protocol knows
    Failing,          \* records whose pool answers every eth_call with an error
    WriterCap, ScoreCap, \* WRITER_CHANNEL_CAPACITY of the two writers
    BatchLimit,       \* SCORE_BATCH_LIMIT
    PoolLimit,        \* MAX_DB_PREDICTED_POOLS
    FloorWei,         \* MAX_PLAUSIBLE_F64_NET_WEI
    Gas, Amounts,     \* gas_cost_wei, and the wei amounts of the model
    MaxRestarts       \* bound: restarts of the scorer

PredictionsAssumption ==
    /\ Records \subseteq Nat /\ IsFiniteSet(Records) /\ Failing \subseteq Records
    /\ WriterCap \in Nat \ {0} /\ ScoreCap \in Nat \ {0} /\ BatchLimit \in Nat \ {0}

VARIABLES
    sink,             \* the engine's sink is a PgMempoolWriter
    profitSink,       \* the scorer's is a PgProfitabilityWriter
    decoded,          \* records handed to insert_prediction
    queue, drops_total,  \* the engine's channel to its writer task, and what it refused
    stored,           \* mempool_predictions
    persisted,        \* aether_mempool_predictions_persisted_total, per record
    failedInsert,     \* history: records whose insert failed
    confirmed,        \* mempool_reconciliation, outcome 'confirmed'
    pools, graphed,   \* the scorer's registry, and the pools of its reference graph
    batch,            \* what is left of the page being scored
    scoreQ,           \* the scorer's channel to its writer task
    score,            \* mempool_profitability
    scored_total,     \* per record
    restarts          \* of the scorer

writerVars == <<sink, decoded, queue, drops_total, stored, persisted, failedInsert>>
scorerVars == <<profitSink, pools, graphed, batch, scoreQ, restarts>>
vars == <<writerVars, confirmed, scorerVars, score, scored_total>>

\* The decoded swap as the writer gets it; the reconciler keys on the transaction.
NewMempoolPrediction(r) ==
    [prediction_id |-> r, pending_tx_hash |-> txOf(r), pool_address |-> r]

NoRow == [decision |-> "none", net_profit_wei |-> 0, reason |-> "n/a"]

\* A score as the writer gets it; the reason is for the counter only.
NewProfitabilityScore(r, v) ==
    [prediction_id |-> r, net_profit_wei |-> v.net_profit_wei, decision |-> v.decision,
     reason |-> v.reason]

\* A writer connects first, and only then makes its channel and spawns its task.
PgMempoolWriter(reachable) == reachable
PgProfitabilityWriter(reachable) == reachable

\* Without a dsn, or when Postgres does not answer, a sink that discards everything.
mempool_writer_from_env(dsn, reachable) == dsn /\ PgMempoolWriter(reachable)

\* The scorer insists on a dsn, yet runs on when its writer cannot connect with it.
profit_writer_from_env(reachable) == PgProfitabilityWriter(reachable)

Init ==
    /\ \E dsn, reachable \in BOOLEAN : sink = mempool_writer_from_env(dsn, reachable)
    /\ \E reachable \in BOOLEAN : profitSink = profit_writer_from_env(reachable)
    /\ drops_total = 0
    /\ decoded = {} /\ queue = <<>> /\ stored = {} /\ failedInsert = {}
    /\ persisted = {} /\ confirmed = {}
    /\ pools = ConfigPools /\ graphed = ConfigPools
    /\ batch = <<>> /\ scoreQ = <<>> /\ restarts = 0
    /\ score = [r \in Records |-> NoRow] /\ scored_total = [r \in Records |-> 0]

-----------------------------------------------------------------------------
\* Without a writer the prediction is discarded, and not counted.
NoopMempoolSink == UNCHANGED <<queue, persisted, drops_total>>

\* insert_prediction: counted as persisted once the channel takes it.
insert_prediction(r) ==
    /\ r \notin decoded /\ decoded' = decoded \union {r}
    /\ IF ~sink THEN NoopMempoolSink
       ELSE IF Len(queue) < WriterCap
         THEN /\ queue' = Append(queue, NewMempoolPrediction(r))
              /\ persisted' = persisted \union {r} /\ drops_total' = drops_total
         ELSE drops_total' = drops_total + 1 /\ UNCHANGED <<queue, persisted>>
    /\ UNCHANGED <<sink, stored, failedInsert, confirmed, scorerVars, score, scored_total>>

\* ON CONFLICT (pending_tx_hash) DO NOTHING.
insert_prediction_inner(row) ==
    stored' = IF \E s \in stored : txOf(s) = row.pending_tx_hash THEN stored
              ELSE stored \union {row.prediction_id}

\* The writer task: a failed insert drops the row.
WriterTask(ok) ==
    /\ queue # <<>> /\ queue' = Tail(queue)
    /\ IF ok THEN insert_prediction_inner(Head(queue)) /\ UNCHANGED failedInsert
             ELSE /\ failedInsert' = failedInsert \union {Head(queue).prediction_id}
                  /\ UNCHANGED stored
    /\ UNCHANGED <<sink, drops_total, decoded, persisted, confirmed, scorerVars, score, scored_total>>

\* The reconciler finds the transaction in a block.
Confirm(r) ==
    /\ r \in stored \ confirmed /\ confirmed' = confirmed \union {r}
    /\ UNCHANGED <<writerVars, scorerVars, score, scored_total>>

-----------------------------------------------------------------------------
\* The first n of a set of records.
firstOf(S, n) == {r \in S : Cardinality({s \in S : s < r}) < n}

Unscored == {r \in confirmed : score[r] = NoRow}

\* fetch_unscored_confirmed: oldest block first, one page.
fetch_unscored_confirmed == SetToSortSeq(firstOf(Unscored, BatchLimit), <)

\* The loop of main serves one tick at a time, and skips those it missed.
Idle == batch = <<>>

\* A poll tick.
Poll ==
    /\ Idle /\ Unscored # {} /\ batch' = fetch_unscored_confirmed
    /\ UNCHANGED <<writerVars, confirmed, profitSink, pools, graphed, scoreQ, restarts, score,
                   scored_total>>

\* What score_one hands to the writer.
ScoreOutcome(decision, net, reason) ==
    [decision |-> decision, net_profit_wei |-> net, reason |-> reason]

\* The verdicts of the three verifiers: decision, net profit, and why.
Verdict(reverted, net, reason) ==
    ScoreOutcome(IF reverted THEN "reverted"
                 ELSE IF net > 0 THEN "profitable" ELSE "unprofitable", net, reason)

\* Gas of the hops at the base fee of the last bootstrap.
gas_estimate_for_protocols == Gas

no_path_outcome(gas) == ScoreOutcome("no_path", -gas, "n/a")

verify_cycle_u256(out, in) == Verdict(out < in, out - in - Gas, "u256_walker")

revm_verdict_to_decision(reverted, gross) ==
    IF reverted THEN Verdict(TRUE, -Gas, "revm_revert")
                ELSE Verdict(FALSE, gross - Gas, "revm_verdict")

\* verify_cycle_revm: a revert, or the profit the contract made.
verify_cycle_revm == {revm_verdict_to_decision(b, g) : b \in BOOLEAN, g \in Amounts}

f64_fallback_verdict(net) ==
    IF net > FloorWei THEN Verdict(TRUE, net, "absurdity_floor") ELSE Verdict(FALSE, net, "n/a")

\* optimise_cycle: input and output of the best size found, in floating point.
optimise_cycle == [in : Amounts, out : Amounts]

\* is_v3_touching_cycle decides the verifier; verify_cycle_revm needs the executor's
\* bytecode and steps from build_steps_from_cycle_sync.  The f64 verdict stands in
\* for a verifier that has no answer.
verdicts(v3, best) ==
    {f64_fallback_verdict(best.out - best.in - Gas)} \union
    IF v3 THEN verify_cycle_revm ELSE {verify_cycle_u256(o, best.in) : o \in Amounts}

\* score_one, where the pool answers: absent from the registry or the graph, or
\* without reserves, at no gas; no cycle through it, at the gas of one hop; or the
\* verdict on its best cycle.
score_one(r) ==
    {no_path_outcome(0)} \union
    IF r \in pools \intersect graphed
      THEN {no_path_outcome(gas_estimate_for_protocols)} \union
           UNION {verdicts(v3, best) : v3 \in BOOLEAN, best \in optimise_cycle}
      ELSE {}

\* insert_score.
insert_score(r, v) ==
    IF profitSink /\ Len(scoreQ) < ScoreCap
      THEN /\ scoreQ' = Append(scoreQ, NewProfitabilityScore(r, v))
           /\ scored_total' = [scored_total EXCEPT ![r] = IF @ < 2 THEN @ + 1 ELSE @]
      ELSE UNCHANGED <<scoreQ, scored_total>>

\* Mutant: an error ends the batch.
ScoreNextAborts ==
    /\ batch # <<>>
    /\ LET r == Head(batch) IN
       IF r \in pools /\ r \in Failing
         THEN batch' = <<>> /\ UNCHANGED <<scoreQ, scored_total>>
         ELSE batch' = Tail(batch) /\ \E v \in score_one(r) : insert_score(r, v)
    /\ UNCHANGED <<writerVars, confirmed, profitSink, pools, graphed, restarts, score>>

\* score_batch: an error skips the prediction until the next tick.
ScoreNext ==
    /\ batch # <<>> /\ batch' = Tail(batch)
    /\ LET r == Head(batch) IN
       IF r \in pools /\ r \in Failing
         THEN UNCHANGED <<scoreQ, scored_total>>
         ELSE \E v \in score_one(r) : insert_score(r, v)
    /\ UNCHANGED <<writerVars, confirmed, profitSink, pools, graphed, restarts, score>>

\* What the table keeps of a score, and what the model remembers beside it.
AsRow(row) == [decision |-> row.decision, net_profit_wei |-> row.net_profit_wei,
               reason |-> row.reason]

\* insert_score_inner: ON CONFLICT (prediction_id) DO NOTHING.
insert_score_inner(row) ==
    score' = IF score[row.prediction_id] # NoRow THEN score
             ELSE [score EXCEPT ![row.prediction_id] = AsRow(row)]

ScoreWriterTask(ok) ==
    /\ scoreQ # <<>> /\ scoreQ' = Tail(scoreQ)
    /\ IF ok THEN insert_score_inner(Head(scoreQ)) ELSE UNCHANGED score
    /\ UNCHANGED <<writerVars, confirmed, profitSink, pools, graphed, batch, restarts,
                   scored_total>>

\* load_predicted_pools: the limit counts pools the scorer knows already.
load_predicted_pools == (firstOf(stored, PoolLimit) \ pools) \intersect Supported

\* bootstrap_state reads every pool; one that answers with an error fails it.
bootstrap_state(ps) == ps \intersect Failing = {}

\* A refresh tick; the old graph stays when bootstrap_state fails.
Refresh ==
    /\ Idle /\ pools' = pools \union load_predicted_pools
    /\ graphed' = IF bootstrap_state(pools') THEN pools' ELSE graphed
    /\ UNCHANGED <<writerVars, confirmed, profitSink, batch, scoreQ, restarts, score,
                   scored_total>>

\* The scorer starts again; bootstrap_state must succeed for it to run.
RestartScorer ==
    /\ restarts < MaxRestarts /\ restarts' = restarts + 1
    /\ \E reachable \in BOOLEAN : profitSink' = profit_writer_from_env(reachable)
    /\ pools' = ConfigPools \union (firstOf(stored, PoolLimit) \intersect Supported)
    /\ bootstrap_state(pools')
    /\ graphed' = pools' /\ batch' = <<>> /\ scoreQ' = <<>>
    /\ UNCHANGED <<writerVars, confirmed, score, scored_total>>

Next ==
    \/ \E r \in Records : insert_prediction(r) \/ Confirm(r)
    \/ \E ok \in BOOLEAN : WriterTask(ok) \/ ScoreWriterTask(ok)
    \/ Poll \/ ScoreNext \/ Refresh \/ RestartScorer

\* Ticks come, the tasks run, and Postgres takes a write again and again.
Fairness ==
    /\ WF_vars(Poll) /\ WF_vars(ScoreNext) /\ SF_vars(ScoreWriterTask(TRUE))

Spec == Init /\ [][Next]_vars /\ Fairness

-----------------------------------------------------------------------------
Queued == {row.prediction_id : row \in ToSet(queue)}

\* Every record counted as persisted is in the table or on its way to it, unless
\* its insert failed or an earlier record of the same transaction is there; no
\* transaction has two rows, and only stored predictions are scored.
PredictionsAccounted ==
    /\ \A r \in persisted :
        \/ r \in stored \union Queued \union failedInsert
        \/ \E s \in stored : txOf(s) = txOf(r)
    /\ \A r, s \in stored : txOf(r) = txOf(s) => r = s
    /\ \A r \in Records : score[r] # NoRow => r \in stored /\ scored_total[r] > 0

\* A score, once stored, stays, even when a poll has scored the prediction again
\* before the first score reached the table; and none claims a profit above the
\* floor on floating-point evidence alone.
Kept ==
    \A r \in Records :
      /\ score[r] # NoRow => score'[r] = score[r]
      /\ score'[r].decision = "profitable" =>
            \/ score'[r].reason \in {"u256_walker", "revm_verdict"}
            \/ score'[r].net_profit_wei <= FloorWei

\* Every confirmed prediction whose pool can be read gets a score, through full
\* channels and failed writes: fetch_unscored_confirmed serves the oldest page, so
\* this takes fewer unreadable pools than a page holds, and a writer that could
\* connect when the scorer started.
Scored(r) == score[r] # NoRow \/ ~profitSink
EveryConfirmedScored == \A r \in Records \ Failing : r \in confirmed ~> Scored(r)
=============================================================================
