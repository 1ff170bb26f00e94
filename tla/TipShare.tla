------------------------------ MODULE TipShare ------------------------------
(***************************************************************************)
(* The builder tip of internal/risk: RecordBundleResult feeds a ring       *)
(* buffer of bundle outcomes, CalculateTipShare turns its inclusion rate   *)
(* into the tip share through AdaptiveTipStrategy.  Both run under the     *)
(* manager's mutex, on calls of different goroutines.  Tips are in percent.*)
(***************************************************************************)
EXTENDS Integers, Sequences, FiniteSets

CONSTANTS
    MinTip, MaxTip,      \* MinTipSharePct, MaxTipSharePct
    WindowSize,          \* bundleWindowSize, 100 in the code
    MaxResults           \* bound of the model: results recorded

InitialTip == 90
StepPct == 5
LowInclusion == 50
HighInclusion == 80

\* What config.LoadRiskConfig lets through.
ASSUME TipConfigAssumption ==
    /\ MinTip \in Nat /\ MaxTip \in Nat
    /\ 0 < MinTip /\ MinTip < MaxTip /\ MaxTip <= 100
    /\ WindowSize \in Nat \ {0}
    /\ MaxResults \in Nat

VARIABLES
    bundleResults, bundleResultIdx, bundleResultCount,  \* the ring buffer
    lastAdjustedAtIdx, lastTipSharePct,
    currentTipPct,       \* AdaptiveTipStrategy.currentTipPct
    outcomes,            \* history: every result ever recorded
    askedAt              \* history: Len(outcomes) at the last CalculateTipShare

ringVars == <<bundleResults, bundleResultIdx, bundleResultCount>>
tipVars == <<lastAdjustedAtIdx, lastTipSharePct, currentTipPct>>
tipShareVars == <<ringVars, tipVars, outcomes, askedAt>>

TipTypeOK ==
    /\ bundleResults \in [0..WindowSize - 1 -> BOOLEAN]
    /\ bundleResultIdx \in Nat
    /\ bundleResultCount \in 0..WindowSize
    /\ lastAdjustedAtIdx \in Nat
    /\ lastTipSharePct \in Nat /\ currentTipPct \in Nat
    /\ outcomes \in Seq(BOOLEAN)
    /\ askedAt \in Nat

-----------------------------------------------------------------------------

clampTip(v, min, max) == IF v < min THEN min ELSE IF v > max THEN max ELSE v

\* NewRiskManager and NewAdaptiveTipStrategy.  Under TipConfigAssumption none
\* of the strategy's fallback bounds applies.
TipInit ==
    /\ bundleResults = [i \in 0..WindowSize - 1 |-> FALSE]
    /\ bundleResultIdx = 0 /\ bundleResultCount = 0
    /\ lastAdjustedAtIdx = 0
    /\ lastTipSharePct = clampTip(InitialTip, MinTip, MaxTip)
    /\ currentTipPct = clampTip(InitialTip, MinTip, MaxTip)
    /\ outcomes = <<>> /\ askedAt = 0

RecordBundleResult(included) ==
    /\ bundleResults' = [bundleResults EXCEPT ![bundleResultIdx % WindowSize] = included]
    /\ bundleResultIdx' = bundleResultIdx + 1
    /\ bundleResultCount' = IF bundleResultCount < WindowSize
                            THEN bundleResultCount + 1 ELSE bundleResultCount
    /\ outcomes' = Append(outcomes, included)
    /\ UNCHANGED <<tipVars, askedAt>>

\* The share of included bundles compared with a percentage, without rounding.
Included == Cardinality({i \in 0..bundleResultCount - 1 : bundleResults[i]})
RateBelow(pct) == Included * 100 < pct * bundleResultCount
RateAbove(pct) == Included * 100 > pct * bundleResultCount

\* AdaptiveTipStrategy.CalculateTip: one step, then the strategy's own clamp.
CalculateTip ==
    LET stepped == IF RateBelow(LowInclusion) THEN currentTipPct + StepPct
                   ELSE IF RateAbove(HighInclusion) THEN currentTipPct - StepPct
                   ELSE currentTipPct
    IN  clampTip(stepped, MinTip, MaxTip)

\* Mutant: the gate compares the capped count, and freezes once the ring is full.
FeedbackArrivedByCount == bundleResultCount > lastAdjustedAtIdx

\* The gate: results have been recorded since the last adjustment.
FeedbackArrived == bundleResultIdx > lastAdjustedAtIdx

CalculateTipShare ==
    /\ IF FeedbackArrived
       THEN /\ currentTipPct' = CalculateTip
            /\ lastTipSharePct' = clampTip(currentTipPct', MinTip, MaxTip)
            /\ lastAdjustedAtIdx' = bundleResultIdx
       ELSE UNCHANGED tipVars
    /\ askedAt' = Len(outcomes)
    /\ UNCHANGED <<ringVars, outcomes>>

TipNext ==
    \/ /\ Len(outcomes) < MaxResults
       /\ \E included \in BOOLEAN : RecordBundleResult(included)
    \/ CalculateTipShare

TipSpec == TipInit /\ [][TipNext]_tipShareVars

-----------------------------------------------------------------------------
\* The tip CalculateTipShare returns always passes PreflightCheck's two tip
\* limits: adaptation alone can never make the executor reject every arb.
TipPassesPreflight == lastTipSharePct >= MinTip /\ lastTipSharePct <= MaxTip

\* The manager and its strategy hold the tip twice; they never drift apart, so
\* the next step starts from the tip last used.
StrategyInStep == currentTipPct = lastTipSharePct

\* The ring holds exactly the most recent outcomes: as many as fit, and slot
\* (idx - k) mod WindowSize is the k-th last one.
RingIsRecent ==
    /\ bundleResultCount = IF Len(outcomes) < WindowSize THEN Len(outcomes) ELSE WindowSize
    /\ bundleResultIdx = Len(outcomes)
    /\ \A k \in 1..bundleResultCount :
          bundleResults[(bundleResultIdx - k) % WindowSize] = outcomes[Len(outcomes) - k + 1]

\* The last n outcomes hold m inclusions.
Recent(n) == {k \in 1..Len(outcomes) : k > Len(outcomes) - n}
RecentIncluded(n) == Cardinality({k \in Recent(n) : outcomes[k]})

\* The first call after new results moves the tip one step up when fewer than
\* half of the last WindowSize bundles were included, however long the executor
\* has been running (the gate must not freeze once the ring is full).
MissesRaiseTip ==
    [][/\ askedAt' # askedAt                      \* a call that saw new results
       /\ RecentIncluded(WindowSize) * 100 < LowInclusion * Cardinality(Recent(WindowSize))
       => lastTipSharePct' = clampTip(lastTipSharePct + StepPct, MinTip, MaxTip)]_tipShareVars

\* One result pays for at most one adjustment of at most one step: calls without
\* new feedback return the last tip again.
OneStepPerResult ==
    [][lastTipSharePct' # lastTipSharePct =>
          /\ askedAt < Len(outcomes)
          /\ lastTipSharePct' - lastTipSharePct \in -StepPct .. StepPct]_tipShareVars

=============================================================================
