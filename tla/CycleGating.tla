---------------------------- MODULE CycleGating -----------------------------
(***************************************************************************)
(* The gates between detection and publication, cycle_gating.rs, shared by *)
(* the block-driven cycle of the engine and the mempool pipeline.  A hop   *)
(* is the sequence of the parallel edges between two tokens, a cycle the   *)
(* sequence of its hops with its profit factor in percent.                 *)
(***************************************************************************)
EXTENDS Integers, Sequences, FiniteSets

CONSTANTS
    MinReserve,        \* min_reserve_f64
    Impossible,        \* profit_factor_impossible
    Quantum,           \* fingerprint_quantum
    MinCluster,        \* fingerprint_min_cluster
    Mismatch           \* revm_profit_mismatch_threshold, in percent

GatingAssumption ==
    /\ MinReserve \in Nat /\ Impossible \in Nat /\ Quantum \in Nat \ {0}
    /\ MinCluster \in Nat /\ Mismatch \in Nat

NotFinite == -1        \* a NaN or infinite profit factor
MaxBucket == -1        \* i64::MAX

\* Profits a quantum apart share a bucket; everything that is not finite shares one.
fingerprint_bucket(pf) ==
    IF pf = NotFinite THEN MaxBucket ELSE (2 * pf + Quantum) \div (2 * Quantum)

\* How many profitable cycles of the batch share a bucket.
build_fingerprint_index(batch, bucket) ==
    Cardinality({i \in DOMAIN batch :
        batch[i].profitable /\ fingerprint_bucket(batch[i].pf) = bucket})

\* A V3 reserve is virtual, so it only has to be there.
edge_passes_reserve_gate(edge) ==
    IF edge.protocol = "v3" THEN edge.reserve_in > 0 ELSE edge.reserve_in >= MinReserve

\* One of the parallel edges of every hop is enough.
reservesPass(cycle) ==
    \A h \in DOMAIN cycle.hops : \E i \in DOMAIN cycle.hops[h] :
        edge_passes_reserve_gate(cycle.hops[h][i])

\* The label of the gate that drops the cycle, in the order they are tried.
gate_pre_sim(cycle, batch) ==
    IF cycle.pf = NotFinite \/ cycle.pf > Impossible THEN "profit_factor_impossible"
    ELSE IF ~reservesPass(cycle) THEN "reserves_too_low"
    ELSE IF build_fingerprint_index(batch, fingerprint_bucket(cycle.pf)) >= MinCluster
         THEN "fingerprint_cluster"
    ELSE "pass"

\* The first of the lightest unfiltered edges of a hop; 0 when there is none.
select_best_edge_for_hop(hop) ==
    LET live == {i \in DOMAIN hop : ~hop[i].filtered}
        best == {i \in live : \A j \in live : hop[i].weight <= hop[j].weight}
    IN  IF live = {} THEN 0 ELSE CHOOSE i \in best : \A j \in best : i <= j

\* Whether the measured profit bears out the expected one.
gate_post_sim(expected, actual) ==
    LET gap == IF expected > actual THEN expected - actual ELSE actual - expected
        larger == IF expected > actual THEN expected ELSE actual
    IN  expected = 0 \/ (actual # 0 /\ 100 * gap <= Mismatch * larger)
=============================================================================
