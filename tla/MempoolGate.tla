---------------------------- MODULE MempoolGate ----------------------------
(***************************************************************************)
(* cmd/executor/mempool_risk.go: the gate every mempool backrun passes     *)
(* after PreflightCheck, and the tracker behind its last test, which       *)
(* remembers the victims already taken for a target block and forgets a    *)
(* block 12 slots after its first victim.  Time is in slots for the        *)
(* tracker and for the age of a victim alike.                              *)
(***************************************************************************)
EXTENDS Integers, Sequences, FiniteSets

CONSTANTS
    Victims, Blocks,         \* victim hashes and target blocks
    GateProfits, TipShares,      \* of the candidates
    MaxSkew,                 \* how far the engine's clock may run ahead
    MinProfit, MaxTipShare, MaxVictimFreshness, MaxInflight,  \* MempoolRiskConfig
    Expiry,                  \* 144 s
    Word,                    \* 2^64, the modulus of uint64
    GateMaxTime, MaxApprovals    \* bounds of the model

ASSUME GateAssumption ==
    /\ GateProfits \subseteq Nat /\ TipShares \subseteq Nat /\ Blocks \subseteq Nat
    /\ {MaxSkew, MinProfit, MaxTipShare, MaxVictimFreshness, Expiry, GateMaxTime,
        MaxApprovals} \subseteq Nat
    /\ MaxInflight \in Nat \ {0}      \* LoadMempoolRiskConfig ignores 0
    /\ Word \in Nat /\ GateMaxTime + MaxVictimFreshness + MaxSkew < Word

VARIABLES
    gateNow,
    entries,     \* target block -> [victims, firstSet]
    decision,    \* MempoolPreflightResult of the last candidate
    approved     \* history: <<block, victim, time, age>> of each approval
gateVars == <<gateNow, entries, decision, approved>>

Reasons == {"min_profit", "max_tip_share", "victim_stale", "duplicate",
            "max_inflight_per_block"}

GateTypeOK ==
    /\ gateNow \in Nat
    /\ DOMAIN entries \subseteq Blocks
    /\ \A tb \in DOMAIN entries :
          /\ entries[tb].victims \subseteq Victims /\ entries[tb].victims # {}
          /\ entries[tb].firstSet \in 0..gateNow
    /\ decision \in Reasons \union {"none", "approved"}
    /\ Len(approved) <= MaxApprovals

GateInit == gateNow = 0 /\ entries = <<>> /\ decision = "none" /\ approved = <<>>

GateTick ==
    /\ gateNow < GateMaxTime
    /\ gateNow' = gateNow + 1
    /\ UNCHANGED <<entries, decision, approved>>

\* uint64(now.Sub(seenAt).Milliseconds()): a victim from the future is ancient.
fresh(seenAt) == (gateNow - seenAt) % Word

Seen(tb, v) == tb \in DOMAIN entries /\ v \in entries[tb].victims

CountForBlock(tb) ==
    IF tb \in DOMAIN entries THEN Cardinality(entries[tb].victims) ELSE 0

AtCap(tb) == CountForBlock(tb) >= MaxInflight

Taken(tb, v) ==
    [victims |-> (IF tb \in DOMAIN entries THEN entries[tb].victims ELSE {}) \union {v},
     firstSet |-> IF tb \in DOMAIN entries THEN entries[tb].firstSet ELSE gateNow]

ExpiredEntry(entry) == entry.firstSet < gateNow - Expiry

\* Record adds the victim, then reaps: the block just updated included.
Record(tb, v) ==
    LET all == [b \in DOMAIN entries \union {tb} |->
                   IF b = tb THEN Taken(tb, v) ELSE entries[b]]
    IN  entries' = [b \in {x \in DOMAIN all : ~ExpiredEntry(all[x])} |-> all[b]]

Reject(reason) == decision' = reason /\ UNCHANGED <<gateNow, entries, approved>>

MempoolRiskGate(profit, tip, seenAt, tb, v) ==
    /\ Len(approved) < MaxApprovals
    /\ IF profit < MinProfit THEN Reject("min_profit")
       ELSE IF tip > MaxTipShare THEN Reject("max_tip_share")
       ELSE IF fresh(seenAt) > MaxVictimFreshness THEN Reject("victim_stale")
       ELSE IF Seen(tb, v) THEN Reject("duplicate")
       ELSE IF AtCap(tb) THEN Reject("max_inflight_per_block")
       ELSE /\ Record(tb, v)
            /\ decision' = "approved"
            /\ approved' = Append(approved, <<tb, v, gateNow, gateNow - seenAt>>)
            /\ UNCHANGED gateNow

GateNext ==
    \/ GateTick
    \/ \E profit \in GateProfits, tip \in TipShares, tb \in Blocks, v \in Victims :
          \E seenAt \in 0..gateNow + MaxSkew : MempoolRiskGate(profit, tip, seenAt, tb, v)

GateSpec == GateInit /\ [][GateNext]_gateVars

-----------------------------------------------------------------------------
Approvals == 1..Len(approved)
\* When the tracker first took a victim for the block of the i-th approval.
FirstOf(i) == CHOOSE t \in {approved[j][3] : j \in {k \in Approvals : approved[k][1] = approved[i][1]}} :
                 \A j \in Approvals : approved[j][1] = approved[i][1] => t <= approved[j][3]

\* Until a target block's first victim expires, no victim is backrun twice in
\* that block (MempoolRiskGate's duplicate test over Record's reaping).
NoDuplicateBeforeExpiry ==
    \A i, j \in Approvals :
        /\ i < j
        /\ approved[i][1] = approved[j][1] /\ approved[i][2] = approved[j][2]
        => approved[j][3] > FirstOf(j) + Expiry

\* Until then at most MaxInflight victims are taken for the block.
CapBeforeExpiry ==
    \A j \in Approvals :
        approved[j][3] <= FirstOf(j) + Expiry =>
            Cardinality({i \in 1..j : approved[i][1] = approved[j][1]}) <= MaxInflight

\* An approved victim was seen between now and MaxVictimFreshness ago, also when
\* the engine's clock runs ahead and the unsigned age wraps around.
OnlyFreshVictims ==
    \A i \in Approvals : approved[i][4] \in 0..MaxVictimFreshness

\* The map holds only blocks of the last Expiry slots before the last approval,
\* so it cannot grow with the life of the process.
MapStaysSmall ==
    \A tb \in DOMAIN entries :
        entries[tb].firstSet + Expiry >= approved[Len(approved)][3]

=============================================================================
