--------------------------- MODULE BuilderRouting ---------------------------
(***************************************************************************)
(* cmd/executor/submitter.go and internal/strategy/abtest.go: a bundle     *)
(* goes to every enabled builder at once or to the one the selector picks; *)
(* the answers arrive in any order and are folded into the selector, and   *)
(* so is, later and from the poller's goroutine, every landed bundle.      *)
(* Scores are the exact rationals the code approximates with float64.      *)
(***************************************************************************)
EXTENDS Integers, Sequences, FiniteSetsExt, Functions

CONSTANTS
    Order,                   \* the enabled builders, in configured order
    RoutedProfits,                 \* profitWei of a bundle
    PriorAttempts,
    FloorNum, FloorDen,      \* ExplorationFloor
    MaxRounds                \* bound of the model

Builders == Range(Order)
Modes == {"fanout", "select"}

ASSUME RoutingAssumption ==
    /\ Order \in Seq(Builders) /\ Order # <<>>
    /\ \A i, j \in DOMAIN Order : Order[i] = Order[j] => i = j
    /\ RoutedProfits \subseteq Nat \ {0}
    /\ PriorAttempts \in Nat \ {0}
    /\ FloorNum \in Nat \ {0} /\ FloorDen \in Nat /\ FloorNum < FloorDen
    /\ MaxRounds \in Nat

VARIABLES
    routingMode,
    attempts, inclusions, profitWei,     \* builderState
    rounds,
    bundle,                  \* profit of the bundle being submitted; 0 if none
    asked,                   \* builders whose answer is awaited
    results,                 \* <<builder, success>> in order of arrival
    pending                  \* accepted bundles the poller tracks: <<round, builder, profit>>

stats == <<attempts, inclusions, profitWei>>
round == <<rounds, bundle, asked, results>>
routingVars == <<routingMode, stats, round, pending>>

RoutingTypeOK ==
    /\ routingMode \in Modes
    /\ attempts \in [Builders -> Nat] /\ inclusions \in [Builders -> Nat]
    /\ profitWei \in [Builders -> Nat]
    /\ rounds \in 0..MaxRounds /\ bundle \in RoutedProfits \union {0}
    /\ asked \subseteq Builders /\ (bundle = 0 => asked = {})
    /\ results \in Seq(Builders \X BOOLEAN) /\ Len(results) <= Len(Order)
    /\ pending \subseteq (1..MaxRounds) \X Builders \X RoutedProfits

RoutingInit ==
    /\ routingMode \in Modes
    /\ attempts = [b \in Builders |-> 0] /\ inclusions = [b \in Builders |-> 0]
    /\ profitWei = [b \in Builders |-> 0]
    /\ rounds = 0 /\ bundle = 0 /\ asked = {} /\ results = <<>>
    /\ pending = {}

-----------------------------------------------------------------------------
(* The selector.                                                           *)

Tries(b) == attempts[b] + PriorAttempts

Product(op(_), S) ==
    MapThenFoldSet(LAMBDA x, y : x * y, 1, op, LAMBDA T : CHOOSE x \in T : TRUE, S)

\* score is profitWei[b] / Tries(b), here as the numerator over the common
\* denominator Product(Tries, Builders).
score(b) == profitWei[b] * Product(Tries, Builders \ {b})

sumPos == MapThenSumSet(score, Builders)

\* allocationLocked: a builder's share of the volume, as <<numerator,
\* denominator>>, the denominator common to all builders; profits are not negative, so no score is.
allocation(b) ==
    LET sum == sumPos IN
    IF sum = 0 THEN <<1, Len(Order)>>
    ELSE <<FloorNum * sum + Len(Order) * (FloorDen - FloorNum) * score(b),
           Len(Order) * FloorDen * sum>>

earnsMore(a, b) == profitWei[a] * Tries(b) > profitWei[b] * Tries(a)
winsMore(a, b) == inclusions[a] * attempts[b] > inclusions[b] * attempts[a]

Index(b) == CHOOSE i \in DOMAIN Order : Order[i] = b

\* rankLocked's order: score, then raw win rate, then configured order.
before(a, b) ==
    \/ earnsMore(a, b)
    \/ ~earnsMore(b, a) /\ winsMore(a, b)
    \/ ~earnsMore(b, a) /\ ~winsMore(b, a) /\ Index(a) < Index(b)

Best == CHOOSE b \in Builders : \A x \in Builders \ {b} : before(b, x)

-----------------------------------------------------------------------------
(* One submission, by the arb goroutine.                                   *)

\* SubmitToAll asks every builder at once; Pick may draw any builder, as the
\* floor gives each a positive share.
Submit(profit) ==
    /\ bundle = 0 /\ rounds < MaxRounds
    /\ bundle' = profit /\ rounds' = rounds + 1
    /\ \/ routingMode = "fanout" /\ asked' = Builders
       \/ routingMode = "select" /\ \E b \in Builders : allocation(b)[1] > 0 /\ asked' = {b}
    /\ UNCHANGED <<routingMode, stats, results, pending>>

\* A builder's goroutine returns: the HTTP client has a timeout, which counts
\* as a failure.
Answer(b, success) ==
    /\ b \in asked
    /\ asked' = asked \ {b} /\ results' = Append(results, <<b, success>>)
    /\ UNCHANGED <<routingMode, stats, rounds, bundle, pending>>

Acked == {b \in Builders : <<b, TRUE>> \in Range(results)}

\* The first success in order of arrival.
winningBuilder ==
    results[CHOOSE i \in DOMAIN results :
               results[i][2] /\ \A j \in 1..(i - 1) : ~results[j][2]][1]

\* Mutant: the first builder to answer is credited, whatever it answered.
CreditedFirst(b) == Acked # {} /\ b = results[1][1]

\* The first builder that acknowledged the bundle, and no other.
Credited(b) == Acked # {} /\ b = winningBuilder

RecordOutcomes(n, wins, profits) ==
    /\ attempts' = [b \in Builders |-> attempts[b] + n[b]]
    /\ inclusions' = [b \in Builders |-> inclusions[b] + wins[b]]
    /\ profitWei' = [b \in Builders |-> profitWei[b] + profits[b]]

Indicator(S) == [b \in Builders |-> IF b \in S THEN 1 ELSE 0]

\* Mutant: a result is awaited from every configured builder, asked or not.
resultsClosedFull == Len(results) = Len(Order)

\* The result channel is closed once every goroutine is done.
resultsClosed == asked = {}

\* recordBundleMetrics, then the bundle goes to the poller if one accepted it.
recordBundleMetrics ==
    /\ bundle # 0 /\ resultsClosed
    /\ RecordOutcomes(Indicator({r[1] : r \in Range(results)}), Indicator(Acked),
              [b \in Builders |-> IF Credited(b) THEN bundle ELSE 0])
    /\ pending' = IF Acked = {} THEN pending
                  ELSE pending \union {<<rounds, winningBuilder, bundle>>}
    /\ bundle' = 0 /\ results' = <<>>
    /\ UNCHANGED <<routingMode, rounds, asked>>

\* resolveInclusion, by the poller: a landed bundle is one more attempt.
resolveInclusionScore(p, included) ==
    /\ p \in pending
    /\ pending' = pending \ {p}
    /\ IF included
       THEN RecordOutcomes(Indicator({p[2]}), Indicator({p[2]}),
                [b \in Builders |-> IF b = p[2] THEN p[3] ELSE 0])
       ELSE UNCHANGED stats
    /\ UNCHANGED <<routingMode, round>>

RoutingNext ==
    \/ \E profit \in RoutedProfits : Submit(profit)
    \/ \E b \in Builders, success \in BOOLEAN : Answer(b, success)
    \/ recordBundleMetrics
    \/ \E p \in pending, included \in BOOLEAN : resolveInclusionScore(p, included)

\* Every goroutine runs and every request ends.
RoutingFairness ==
    /\ \A b \in Builders : WF_routingVars(\E success \in BOOLEAN : Answer(b, success))
    /\ WF_routingVars(recordBundleMetrics)

RoutingSpec == RoutingInit /\ [][RoutingNext]_routingVars /\ RoutingFairness

-----------------------------------------------------------------------------
\* No builder ever has more inclusions than attempts, although an accepted
\* bundle is recorded once by the submission and again by the poller: the win
\* rate operators see stays within [0,1].
WinRateBounded == \A b \in Builders : inclusions[b] <= attempts[b]

\* The shares add up to one and every builder keeps its part of the floor, so
\* none is starved whatever the history.
AllocationIsSplit ==
    LET share == [b \in Builders |-> allocation(b)] IN
    /\ \A b \in Builders : share[b][2] = share[Order[1]][2]
    /\ MapThenSumSet(LAMBDA b : share[b][1], Builders) = share[Order[1]][2]
    /\ \A b \in Builders : share[b][1] * Len(Order) * FloorDen >= FloorNum * share[b][2]

\* The builder Rank puts first is one with the largest share, so the ranking
\* operators see and the routing agree.
BestGetsMost ==
    LET best == allocation(Best) IN
    \A b \in Builders :
        LET share == allocation(b) IN best[1] * share[2] >= share[1] * best[2]

\* Only a builder that accepted a bundle has a profit to its name, however the
\* answers of the round were ordered and whenever the poller reported the landing:
\* one that only ever refused gets no more than its part of the floor.
CreditNeedsAcceptance == \A b \in Builders : profitWei[b] > 0 => inclusions[b] > 0

\* A submission returns once every builder has answered or timed out, and is
\* recorded with the answers of all it asked.
SubmissionEnds == bundle # 0 ~> bundle = 0

=============================================================================
