--------------------------- MODULE ExecutorProofs ---------------------------
(***************************************************************************)
(* The circuit breakers of internal/risk, for every configuration, and the *)
(* executor composed with its risk manager, for every configuration,       *)
(* stream of arbs and set of builders.  ExecInv (module Executor) is the   *)
(* inductive invariant; each of its parts has one lemma, with one case per *)
(* action that can disturb it.                                             *)
(***************************************************************************)
EXTENDS Executor, FiniteSetTheorems, NaturalsInduction, WellFoundedInduction, TLAPS

\* How long a solver may take for a leaf.
USE ZenonT(20), SMTT(20)

(* The risk manager alone.                                                 *)

-----------------------------------------------------------------------------
(* prune: the reslicing loop of RecordRevert.                              *)

\* An initial segment of the positive integers has as many members as its end.
LEMMA SegmentCardinality ==
    ASSUME NEW n \in Nat
    PROVE  IsFiniteSet(1..n) /\ Cardinality(1..n) = n
<1>1. 1 \in Int /\ n \in Int
  BY SMTT(20)
<1>2. /\ IsFiniteSet(1..n)
      /\ Cardinality(1..n) = IF 1 > n THEN 0 ELSE n - 1 + 1
  BY <1>1, FS_Interval
<1>3. (IF 1 > n THEN 0 ELSE n - 1 + 1) = n
  BY SMTT(20)
<1> QED BY <1>2, <1>3, SMTT(20)

\* What SubSeq returns on a suffix.
LEMMA SuffixFacts ==
    ASSUME NEW ts \in Seq(Nat), NEW k \in 0..Len(ts)
    PROVE  /\ SubSeq(ts, k + 1, Len(ts)) \in Seq(Nat)
           /\ Len(SubSeq(ts, k + 1, Len(ts))) = Len(ts) - k
           /\ \A i \in 1..Len(ts) - k : SubSeq(ts, k + 1, Len(ts))[i] = ts[i + k]
<1>1. SubSeq(ts, k + 1, Len(ts)) \in Seq(Nat)
  BY SMTT(60)
<1>2. Len(SubSeq(ts, k + 1, Len(ts))) = Len(ts) - k
  BY SMTT(60)
<1>3. ASSUME NEW i \in 1..Len(ts) - k
      PROVE  SubSeq(ts, k + 1, Len(ts))[i] = ts[i + k]
  BY SMTT(60)
<1> QED BY <1>1, <1>2, <1>3

\* prune keeps a suffix of the recorded times, whatever their order.
LEMMA PruneType ==
    ASSUME NEW ts \in Seq(Nat), now \in Nat
    PROVE  /\ prune(ts) \in Seq(Nat)
           /\ \E k \in 0..Len(ts) :
                 /\ Len(prune(ts)) = Len(ts) - k
                 /\ \A i \in 1..Len(ts) - k : prune(ts)[i] = ts[i + k]
<1> DEFINE old == {i \in 1..Len(ts) : ts[i] <= now - RevertWindow}
           k == Cardinality(old)
<1>1. IsFiniteSet(1..Len(ts)) /\ Cardinality(1..Len(ts)) = Len(ts)
  <2>1. Len(ts) \in Nat
    BY SMTT(20)
  <2> QED BY <2>1, SegmentCardinality
<1>2. k \in 0..Len(ts)
  BY <1>1, FS_Subset, FS_CardinalityType, SMTT(20)
<1>3. /\ SubSeq(ts, k + 1, Len(ts)) \in Seq(Nat)
      /\ Len(SubSeq(ts, k + 1, Len(ts))) = Len(ts) - k
      /\ \A i \in 1..Len(ts) - k : SubSeq(ts, k + 1, Len(ts))[i] = ts[i + k]
  BY <1>2, SuffixFacts
<1>4. prune(ts) = SubSeq(ts, k + 1, Len(ts))
  BY DEF prune
<1> QED BY <1>2, <1>3, <1>4

\* On times in clock order prune drops exactly what left the window.
LEMMA PruneKeepsWindow ==
    ASSUME NEW ts \in Seq(Nat), now \in Nat, Ordered(ts)
    PROVE  \A i \in 1..Len(prune(ts)) : prune(ts)[i] > now - RevertWindow
<1> DEFINE n == Len(ts)
           old == {i \in 1..n : ts[i] <= now - RevertWindow}
           young == (1..n) \ old
<1>w. RevertWindow \in Nat
  BY RiskConfigAssumption
<1>n. n \in Nat
  BY SMTT(20)
<1>1. CASE young = {}
  <2>1. old = 1..n
    BY <1>1
  <2>2. Cardinality(old) = n
    BY <2>1, <1>n, SegmentCardinality
  <2>3. prune(ts) = SubSeq(ts, n + 1, n)
    BY <2>2 DEF prune
  <2>4. Len(SubSeq(ts, n + 1, n)) = 0
    BY <1>n, SMTT(20)
  <2> QED BY <2>3, <2>4, SMTT(20)
<1>2. CASE young # {}
  <2>1. PICK m \in young : \A x \in young : ~(<<x, m>> \in OpToRel(<, Nat))
    <3>1. young \subseteq Nat
      BY SMTT(20)
    <3> QED BY <1>2, <3>1, NatLessThanWellFounded, WFMin
  <2>2. \A x \in young : m <= x
    <3> SUFFICES ASSUME NEW x \in young, x < m PROVE FALSE
      BY <1>n, SMTT(20)
    <3>1. x \in Nat /\ m \in Nat
      BY SMTT(20)
    <3>2. <<x, m>> \in OpToRel(<, Nat)
      BY <3>1 DEF OpToRel
    <3> QED BY <2>1, <3>2
  <2>3. old = 1..(m - 1)
    <3>1. \A i \in 1..n : i < m => i \in old
      BY <2>2, SMTT(20)
    <3>2. \A i \in 1..n : i >= m => i \notin old
      <4> SUFFICES ASSUME NEW i \in 1..n, i >= m, ts[i] <= now - RevertWindow
                   PROVE  FALSE
        OBVIOUS
      <4>0. m <= i
        OBVIOUS
      <4>1. ts[m] <= ts[i]
        BY <4>0 DEF Ordered
      <4> QED BY <4>1, <1>w, SMTT(20)
    <3> QED BY <3>1, <3>2, SMTT(20)
  <2>4. Cardinality(old) = m - 1
    <3>1. m - 1 \in Nat
      BY SMTT(20)
    <3> QED BY <2>3, <3>1, SegmentCardinality
  <2>5. prune(ts) = SubSeq(ts, m, n)
    <3>1. prune(ts) = SubSeq(ts, (m - 1) + 1, n)
      BY <2>4 DEF prune
    <3> QED BY <3>1, SMTT(20)
  <2>6. \A i \in 1..(n - m + 1) : ts[i + m - 1] > now - RevertWindow
    <3> SUFFICES ASSUME NEW i \in 1..(n - m + 1)
                 PROVE  ts[i + m - 1] > now - RevertWindow
      OBVIOUS
    <3> DEFINE j == i + m - 1
    <3>1. j \in 1..n /\ m \in 1..n /\ m <= j
      BY <1>n, SMTT(20)
    <3>2. ts[m] <= ts[j]
      BY <3>1 DEF Ordered
    <3>3. ts[m] \in Nat /\ ts[j] \in Nat
      BY <3>1, SMTT(20)
    <3>4. ~(ts[m] <= now - RevertWindow)
      BY <3>1
    <3> QED BY <3>2, <3>3, <3>4, <1>w, SMTT(20)
  <2>7. /\ Len(SubSeq(ts, m, n)) = n - m + 1
        /\ \A i \in 1..(n - m + 1) : SubSeq(ts, m, n)[i] = ts[i + m - 1]
    <3>1. m - 1 \in 0..Len(ts)
      BY SMTT(20)
    <3>2. /\ Len(SubSeq(ts, (m - 1) + 1, n)) = n - (m - 1)
          /\ \A i \in 1..(n - (m - 1)) : SubSeq(ts, (m - 1) + 1, n)[i] = ts[i + (m - 1)]
      BY <3>1, SuffixFacts
    <3>3. (m - 1) + 1 = m /\ n - (m - 1) = n - m + 1 /\ \A i \in Int : i + (m - 1) = i + m - 1
      BY <1>n, SMTT(20)
    <3> QED BY <3>2, <3>3, SMTT(30)
  <2> QED BY <2>5, <2>6, <2>7
<1> QED BY <1>1, <1>2
-----------------------------------------------------------------------------
(* Type correctness.                                                       *)

\* The next midnight is a time.
LEMMA MidnightType ==
    ASSUME NEW t \in Nat
    PROVE  NextMidnight(t) \in Nat
<1>1. DayLength \in Nat /\ DayLength > 0
  BY RiskConfigAssumption, SMTT(20)
<1>2. t \div DayLength \in Nat
  BY <1>1, SMTT(20)
<1>3. ASSUME NEW q \in Nat PROVE (q + 1) * DayLength \in Nat
  BY <1>1, SMTT(20)
<1> QED BY <1>2, <1>3 DEF NextMidnight

\* It lies ahead, on a day boundary.
LEMMA MidnightAhead ==
    ASSUME NEW t \in Nat
    PROVE  NextMidnight(t) > t /\ NextMidnight(t) % DayLength = 0
<1>1. DayLength \in Nat /\ DayLength > 0
  BY RiskConfigAssumption, SMTT(20)
<1>2. (t \div DayLength + 1) * DayLength > t
  BY <1>1, Z3T(60), SMTT(20)
<1>3. ASSUME NEW q \in Nat PROVE (q * DayLength) % DayLength = 0
  BY <1>1, Z3T(60), SMTT(20)
<1>4. t \div DayLength + 1 \in Nat
  BY <1>1, SMTT(20)
<1> QED BY <1>2, <1>3, <1>4 DEF NextMidnight

\* A step of any method keeps the types.
LEMMA TypeStep == TypeOK /\ [Next]_rmVars => TypeOK'
<1> USE RiskConfigAssumption
<1> SUFFICES ASSUME TypeOK, [Next]_rmVars PROVE TypeOK'
  OBVIOUS
<1> USE DEF TypeOK
<1>1. NextMidnight(now) \in Nat
  BY MidnightType
<1>2. ASSUME NEW s \in SystemState, notifyTrip(s)
      PROVE  state' \in SystemState /\ observed' \in SystemState
  BY <1>2 DEF notifyTrip, stateVars
<1>3. CASE Tick
  BY <1>3, SMTT(20) DEF Tick, stateVars, revertVars, dailyVars
<1>4. ASSUME NEW type \in RevertType, RecordRevert(type) PROVE TypeOK'
  <2>1. prune(recentBugReverts) \in Seq(Nat) /\ prune(recentCompReverts) \in Seq(Nat)
    BY PruneType
  <2>2. recentBugReverts' \in Seq(Nat) /\ recentCompReverts' \in Seq(Nat)
    BY <1>4, <2>1, SMTT(20) DEF RecordRevert
  <2>3. state' \in SystemState /\ observed' \in SystemState
    BY <1>4, <1>2 DEF RecordRevert, stateVars, SystemState
  <2>4. lastCompAlertTime' \in Int
    BY <1>4, SMTT(20) DEF RecordRevert
  <2> QED BY <1>4, <2>2, <2>3, <2>4 DEF RecordRevert, dailyVars
<1>5. ASSUME NEW v \in Volumes, NEW p \in PnLs, RecordTrade(v, p) PROVE TypeOK'
  <2>1. state' \in SystemState /\ observed' \in SystemState
    BY <1>5, <1>2 DEF RecordTrade, stateVars, SystemState
  <2>2. v \in Nat /\ p \in Int
    OBVIOUS
  <2>3. dailyVolume' \in Nat /\ dailyPnL' \in Int /\ dailyResetTime' \in Nat
    <3>1. /\ dailyVolume' = (IF now > dailyResetTime THEN 0 ELSE dailyVolume) + v
          /\ dailyPnL' = (IF now > dailyResetTime THEN 0 ELSE dailyPnL) + p
          /\ dailyResetTime' = IF now > dailyResetTime THEN NextMidnight(now) ELSE dailyResetTime
      BY <1>5 DEF RecordTrade
    <3>2. dailyVolume \in Nat /\ dailyPnL \in Int /\ dailyResetTime \in Nat
      OBVIOUS
    <3> HIDE RiskConfigAssumption DEF TypeOK
    <3> QED BY <1>1, <2>2, <3>1, <3>2, SMTT(20)
  <2>4. UNCHANGED <<now, revertVars, minProfit>>
    BY <1>5 DEF RecordTrade
  <2> QED BY <2>1, <2>3, <2>4 DEF revertVars
<1>6. CASE ResetFromHalted
  BY <1>6, <1>1, <1>2, SMTT(20) DEF ResetFromHalted, revertVars, SystemState
<1>7. CASE Resume
  BY <1>7, <1>2 DEF Resume, revertVars, dailyVars, SystemState
<1>8. CASE Pause
  BY <1>8, <1>2 DEF Pause, revertVars, dailyVars, SystemState
<1>9. ASSUME NEW eth \in MinProfits, SetMinProfitETH(eth) PROVE TypeOK'
  BY <1>9 DEF SetMinProfitETH, stateVars, revertVars, dailyVars
<1>10. CASE UNCHANGED rmVars
  BY <1>10 DEF rmVars, stateVars, revertVars, dailyVars
<1> QED BY <1>3, <1>4, <1>5, <1>6, <1>7, <1>8, <1>9, <1>10 DEF Next, Reverts, Trades

\* Every state of every configuration has the types of the RiskManager struct.
THEOREM TypeCorrect == Spec => []TypeOK
<1>1. Init => TypeOK
  BY RiskConfigAssumption, SMTT(20) DEF Init, TypeOK, SystemState, NextMidnight
<1> QED BY <1>1, TypeStep, PTL DEF Spec
-----------------------------------------------------------------------------
(* The loss breaker and the metrics observer.                              *)

\* A daily loss beyond the limit is only ever on the books of a Halted system:
\* RecordTrade halts whatever the state was, Resume refuses Halted, and
\* ResetFromHalted clears the loss it forgives.
THEOREM LossHalts == Spec => []LossImpliesHalted
<1> USE RiskConfigAssumption
<1>1. Init => LossImpliesHalted
  BY SMTT(20) DEF Init, LossImpliesHalted
<1>2. TypeOK /\ LossImpliesHalted /\ [Next]_rmVars => LossImpliesHalted'
  <2> SUFFICES ASSUME TypeOK, LossImpliesHalted, [Next]_rmVars PROVE LossImpliesHalted'
    OBVIOUS
  <2> USE DEF TypeOK, LossImpliesHalted, SystemState
  <2>1. CASE Tick
    BY <2>1 DEF Tick, stateVars, dailyVars
  <2>2. ASSUME NEW type \in RevertType, RecordRevert(type) PROVE LossImpliesHalted'
    <3>1. UNCHANGED dailyPnL
      BY <2>2 DEF RecordRevert, dailyVars
    <3>2. state = "Halted" => state' = "Halted"
      BY <2>2 DEF RecordRevert, notifyTrip, isValidTransition, stateVars
    <3> QED BY <3>1, <3>2
  <2>3. ASSUME NEW v \in Volumes, NEW p \in PnLs, RecordTrade(v, p)
        PROVE  LossImpliesHalted'
    <3>1. LossBreaker(dailyPnL') => notifyTrip("Halted")
      BY <2>3 DEF RecordTrade
    <3>2. notifyTrip("Halted") => state' = "Halted"
      BY DEF notifyTrip, isValidTransition, stateVars
    <3> QED BY <3>1, <3>2 DEF LossBreaker
  <2>4. CASE ResetFromHalted
    BY <2>4, SMTT(20) DEF ResetFromHalted
  <2>5. CASE Resume
    BY <2>5 DEF Resume, dailyVars
  <2>6. CASE Pause
    BY <2>6 DEF Pause, notifyTrip, isValidTransition, stateVars, dailyVars
  <2>7. ASSUME NEW eth \in MinProfits, SetMinProfitETH(eth) PROVE LossImpliesHalted'
    BY <2>7 DEF SetMinProfitETH, stateVars, dailyVars
  <2>8. CASE UNCHANGED rmVars
    BY <2>8 DEF rmVars, stateVars, dailyVars
  <2> QED BY <2>1, <2>2, <2>3, <2>4, <2>5, <2>6, <2>7, <2>8 DEF Next, Reverts, Trades
<1> QED BY <1>1, <1>2, TypeCorrect, PTL DEF Spec

\* The metrics layer always shows the state the breakers are in.
THEOREM ObserverInStep == Spec => []ObserverAgrees
<1>1. Init => ObserverAgrees
  BY DEF Init, ObserverAgrees
<1>2. ObserverAgrees /\ [Next]_rmVars => ObserverAgrees'
  <2> SUFFICES ASSUME ObserverAgrees, [Next]_rmVars PROVE ObserverAgrees'
    OBVIOUS
  <2> USE DEF ObserverAgrees, stateVars
  <2>1. ASSUME NEW s, notifyTrip(s) PROVE ObserverAgrees'
    BY <2>1 DEF notifyTrip
  <2>2. ASSUME NEW type \in RevertType, RecordRevert(type) PROVE ObserverAgrees'
    BY <2>1, <2>2 DEF RecordRevert
  <2>3. ASSUME NEW v \in Volumes, NEW p \in PnLs, RecordTrade(v, p) PROVE ObserverAgrees'
    BY <2>1, <2>3 DEF RecordTrade
  <2>4. CASE ResetFromHalted \/ Resume \/ Pause
    BY <2>1, <2>4 DEF ResetFromHalted, Resume, Pause
  <2>5. ASSUME NEW eth \in MinProfits, SetMinProfitETH(eth) PROVE ObserverAgrees'
    BY <2>5 DEF SetMinProfitETH
  <2>6. CASE Tick
    BY <2>6 DEF Tick
  <2>7. CASE UNCHANGED rmVars
    BY <2>7 DEF rmVars
  <2> QED BY <2>2, <2>3, <2>4, <2>5, <2>6, <2>7 DEF Next, Reverts, Trades
<1> QED BY <1>1, <1>2, PTL DEF Spec

-----------------------------------------------------------------------------
(* The revert window and the bug-revert breaker.                           *)

\* Pruning at the current time keeps a sound window sound.
LEMMA PruneSound ==
    ASSUME NEW ts \in Seq(Nat), now \in Nat, WindowSound(ts, now)
    PROVE  /\ WindowSound(prune(ts), now)
           /\ WindowSound(Append(prune(ts), now), now)
<1> DEFINE kept == prune(ts)
<1>w. RevertWindow \in Nat \ {0}
  BY RiskConfigAssumption
<1>1. PICK k \in 0..Len(ts) : /\ Len(kept) = Len(ts) - k
                              /\ \A i \in 1..Len(ts) - k : kept[i] = ts[i + k]
  BY PruneType
<1>2. kept \in Seq(Nat)
  BY PruneType
<1>3. \A i \in 1..Len(kept) : kept[i] > now - RevertWindow
  BY PruneKeepsWindow DEF WindowSound
<1>4. \A i \in 1..Len(kept) : kept[i] <= now
  <2> SUFFICES ASSUME NEW i \in 1..Len(kept) PROVE kept[i] <= now
    OBVIOUS
  <2>1. i + k \in 1..Len(ts) /\ kept[i] = ts[i + k]
    <3>1. i \in 1..Len(ts) - k /\ Len(ts) \in Nat
      BY <1>1, SMTT(20)
    <3> QED BY <3>1, <1>1, SMTT(20)
  <2>2. ts[i + k] <= now
    BY <2>1 DEF WindowSound
  <2> QED BY <2>1, <2>2
<1>5. Ordered(kept)
  <2> SUFFICES ASSUME NEW i \in 1..Len(kept), NEW j \in 1..Len(kept), i <= j
               PROVE  kept[i] <= kept[j]
    BY DEF Ordered
  <2>1. i + k \in 1..Len(ts) /\ j + k \in 1..Len(ts) /\ i + k <= j + k
    BY <1>1, SMTT(20)
  <2>2. ts[i + k] <= ts[j + k]
    BY <2>1 DEF WindowSound, Ordered
  <2> QED BY <1>1, <2>2, SMTT(20)
<1> HIDE DEF kept
<1>6. \A i \in 1..Len(kept) : kept[i] \in Nat
  BY <1>2, SMTT(20)
<1>7. WindowSound(kept, now)
  <2> SUFFICES ASSUME NEW i \in 1..Len(kept)
               PROVE  kept[i] <= now /\ kept[Len(kept)] - kept[i] < RevertWindow
    BY <1>5 DEF WindowSound
  <2>1. Len(kept) \in Nat
    BY <1>2, SMTT(20)
  <2>2. Len(kept) \in 1..Len(kept)
    BY <2>1, SMTT(20)
  <2>3. kept[Len(kept)] <= now /\ kept[Len(kept)] \in Nat /\ kept[i] \in Nat
    BY <2>2, <1>4, <1>6
  <2> QED BY <1>w, <1>3, <1>4, <2>3, SMTT(20)
<1>8. WindowSound(Append(kept, now), now)
  <2> DEFINE more == Append(kept, now)
  <2>1. /\ Len(more) = Len(kept) + 1
        /\ more[Len(kept) + 1] = now
        /\ \A i \in 1..Len(kept) : more[i] = kept[i]
    BY <1>2, SMTT(20)
  <2> HIDE DEF more
  <2>2. \A i \in 1..Len(more) : more[i] <= now /\ now - more[i] < RevertWindow
    <3> SUFFICES ASSUME NEW i \in 1..Len(more)
                 PROVE  more[i] <= now /\ now - more[i] < RevertWindow
      OBVIOUS
    <3>1. CASE i = Len(kept) + 1
      BY <3>1, <1>w, <2>1, SMTT(20)
    <3>2. CASE i # Len(kept) + 1
      <4>1. i \in 1..Len(kept)
        BY <3>2, <1>2, <2>1, SMTT(20)
      <4>2. more[i] = kept[i] /\ kept[i] <= now /\ kept[i] > now - RevertWindow /\ kept[i] \in Nat
        BY <4>1, <2>1, <1>3, <1>4, <1>6
      <4> QED BY <4>2, <1>w, SMTT(20)
    <3> QED BY <3>1, <3>2
  <2>3. Ordered(more)
    <3> SUFFICES ASSUME NEW i \in 1..Len(more), NEW j \in 1..Len(more), i <= j
                 PROVE  more[i] <= more[j]
      BY DEF Ordered
    <3>1. CASE j = Len(kept) + 1
      BY <3>1, <2>1, <2>2
    <3>2. CASE j # Len(kept) + 1
      <4>1. i \in 1..Len(kept) /\ j \in 1..Len(kept)
        BY <3>2, <1>2, <2>1, SMTT(20)
      <4>2. kept[i] <= kept[j]
        BY <4>1, <1>5 DEF Ordered
      <4> QED BY <4>1, <4>2, <2>1
    <3> QED BY <3>1, <3>2
  <2> QED BY <2>1, <2>2, <2>3, <1>2 DEF WindowSound, more
<1> QED BY <1>7, <1>8 DEF kept

\* Time that passes leaves a sound window sound.
LEMMA WindowLater ==
    ASSUME NEW ts \in Seq(Nat), NEW t \in Nat, WindowSound(ts, t)
    PROVE  WindowSound(ts, t + 1)
BY SMTT(20) DEF WindowSound

\* RecordRevert only ever counts reverts of one rolling window.
THEOREM WindowAlwaysSound == Spec => []RevertWindowSound
<1>1. Init => RevertWindowSound
  BY SMTT(20) DEF Init, RevertWindowSound, WindowSound, Ordered
<1>2. TypeOK /\ RevertWindowSound /\ [Next]_rmVars => RevertWindowSound'
  <2> SUFFICES ASSUME TypeOK, RevertWindowSound, [Next]_rmVars PROVE RevertWindowSound'
    OBVIOUS
  <2> USE DEF TypeOK, RevertWindowSound
  <2>1. CASE Tick
    BY <2>1, WindowLater DEF Tick, revertVars
  <2>2. ASSUME NEW type \in RevertType, RecordRevert(type) PROVE RevertWindowSound'
    <3>1. now' = now
      BY <2>2 DEF RecordRevert
    <3>2. /\ recentBugReverts' \in {prune(recentBugReverts), Append(prune(recentBugReverts), now)}
          /\ recentCompReverts' \in {prune(recentCompReverts), Append(prune(recentCompReverts), now)}
      BY <2>2 DEF RecordRevert
    <3>3. \A ts \in Seq(Nat) : WindowSound(ts, now) =>
             WindowSound(prune(ts), now) /\ WindowSound(Append(prune(ts), now), now)
      BY PruneSound
    <3> QED BY <3>1, <3>2, <3>3
  <2>3. CASE now' = now /\ UNCHANGED revertVars
    BY <2>3 DEF revertVars
  <2> QED BY <2>1, <2>2, <2>3 DEF Next, Reverts, Trades, RecordTrade, ResetFromHalted,
                                  Resume, Pause, SetMinProfitETH, rmVars
<1> QED BY <1>1, <1>2, TypeCorrect, PTL DEF Spec

\* Whenever a revert leaves ConsecutiveRevertsPause bug reverts in the window,
\* the system is not trading afterwards.
THEOREM BreakerAlwaysTrips == Spec => BreakerTrips
<1>1. ASSUME TypeOK, NEW type \in RevertType, RecordRevert(type),
             Cardinality({i \in 1..Len(recentBugReverts') :
                recentBugReverts'[i] > now - RevertWindow}) >= ConsecutiveRevertsPause
      PROVE  state' \in {"Paused", "Halted"}
  <2> DEFINE young == {i \in 1..Len(recentBugReverts') :
                          recentBugReverts'[i] > now - RevertWindow}
  <2>1. recentBugReverts' \in Seq(Nat)
    <3>1. prune(recentBugReverts) \in Seq(Nat)
      BY <1>1, PruneType DEF TypeOK
    <3> QED BY <1>1, <3>1, SMTT(20) DEF RecordRevert, TypeOK
  <2>2. Len(recentBugReverts') \in Nat
    BY <2>1, SMTT(20)
  <2>3. /\ IsFiniteSet(1..Len(recentBugReverts'))
        /\ Cardinality(1..Len(recentBugReverts')) = Len(recentBugReverts')
    BY <2>2, SegmentCardinality
  <2>4. /\ Cardinality(young) <= Cardinality(1..Len(recentBugReverts'))
        /\ Cardinality(young) \in Nat
    BY <2>3, FS_Subset, FS_CardinalityType
  <2>5. BugBreaker(recentBugReverts')
    BY <1>1, <2>2, <2>3, <2>4, RiskConfigAssumption, SMTT(20) DEF BugBreaker
  <2>6. notifyTrip("Paused")
    BY <1>1, <2>5 DEF RecordRevert
  <2> QED BY <1>1, <2>6 DEF notifyTrip, isValidTransition, stateVars, TypeOK, SystemState
<1>2. TypeOK /\ [Next]_rmVars =>
        [\A type \in RevertType :
          /\ RecordRevert(type)
          /\ Cardinality({i \in 1..Len(recentBugReverts') :
                recentBugReverts'[i] > now - RevertWindow}) >= ConsecutiveRevertsPause
          => state' \in {"Paused", "Halted"}]_rmVars
  BY <1>1
<1> QED BY <1>2, TypeCorrect, PTL DEF Spec, BreakerTrips

\* Only the operator's Resume and ResetFromHalted let trading start again.
THEOREM OnlyOperatorsRecover == Spec => OperatorOnlyRecovery
<1>1. TypeOK /\ [Next]_rmVars =>
        [/\ state \in {"Paused", "Halted"} /\ state' \in {"Running", "Degraded"}
                => Resume \/ ResetFromHalted
         /\ state = "Halted" /\ state' # "Halted" => ResetFromHalted]_rmVars
  <2> SUFFICES ASSUME TypeOK, Next, state \in {"Paused", "Halted"},
                      ~ResetFromHalted, ~Resume
               PROVE  state' \in {"Paused", "Halted"} /\ (state = "Halted" => state' = "Halted")
    BY DEF Resume
  <2> USE DEF stateVars
  <2>1. ASSUME NEW s \in {"Paused", "Halted"}, notifyTrip(s)
        PROVE  state' \in {"Paused", "Halted"} /\ (state = "Halted" => state' = "Halted")
    BY <2>1 DEF notifyTrip, isValidTransition
  <2>2. ASSUME NEW type \in RevertType, RecordRevert(type)
        PROVE  notifyTrip("Paused") \/ UNCHANGED stateVars
    BY <2>2 DEF RecordRevert
  <2>3. ASSUME NEW v \in Volumes, NEW p \in PnLs, RecordTrade(v, p)
        PROVE  notifyTrip("Halted") \/ UNCHANGED stateVars
    BY <2>3 DEF RecordTrade
  <2> QED BY <2>1, <2>2, <2>3 DEF Next, Reverts, Trades, Tick, Pause, SetMinProfitETH
<1> QED BY <1>1, TypeCorrect, PTL DEF Spec, OperatorOnlyRecovery

-----------------------------------------------------------------------------
(* The executor around it.                                                 *)

-----------------------------------------------------------------------------
\* What an approval guarantees at the instant PreflightCheck returns it.
LEMMA ApprovedMeans ==
    ASSUME NEW a, NEW gas, NEW tip, NEW balance,
           Verdict(a, gas, tip, balance) = "approved"
    PROVE  /\ state \in {"Running", "Degraded"}
           /\ dailyVolume + a.trade <= MaxDailyVolume
<1> DEFINE limits == Limits(a.profit, a.trade, gas, tip, balance)
           failed == {i \in 1..8 : ~limits[i][2]}
           first == CHOOSE i \in failed : \A j \in failed : i <= j
<1>1. \A i \in 1..8 : limits[i][1] # "approved"
  <2> SUFFICES ASSUME NEW i \in 1..8 PROVE limits[i][1] # "approved"
    OBVIOUS
  <2>1. i = 1 \/ i = 2 \/ i = 3 \/ i = 4 \/ i = 5 \/ i = 6 \/ i = 7 \/ i = 8
    BY SMTT(20)
  <2>2. CASE i = 1  BY <2>2 DEF Limits
  <2>3. CASE i = 2  BY <2>3 DEF Limits
  <2>4. CASE i = 3  BY <2>4 DEF Limits
  <2>5. CASE i = 4  BY <2>5 DEF Limits
  <2>6. CASE i = 5  BY <2>6 DEF Limits
  <2>7. CASE i = 6  BY <2>7 DEF Limits
  <2>8. CASE i = 7  BY <2>8 DEF Limits
  <2>9. CASE i = 8  BY <2>9 DEF Limits
  <2> QED BY <2>1, <2>2, <2>3, <2>4, <2>5, <2>6, <2>7, <2>8, <2>9
<1>2. failed # {} => first \in failed
  <2>1. failed # {} => \E i \in failed : \A j \in failed : i <= j
    <3> DEFINE bad(i) == ~limits[i][2]
    <3>1. failed = {i \in 1..8 : bad(i)}
      OBVIOUS
    <3> HIDE DEF bad, limits
    <3> QED BY <3>1, SMTT(20)
  <2> HIDE DEF failed
  <2> QED BY <2>1
<1>3. failed = {}
  <2> SUFFICES ASSUME failed # {} PROVE FALSE
    OBVIOUS
  <2>1. Verdict(a, gas, tip, balance) = limits[first][1]
    BY DEF Verdict, PreflightCheck
  <2>2. first \in 1..8
    BY <1>2
  <2> HIDE DEF limits, first
  <2> QED BY <1>1, <2>1, <2>2
<1>4. limits[1][2] /\ limits[5][2]
  <2>1. 1 \in 1..8 /\ 5 \in 1..8
    BY SMTT(20)
  <2> HIDE DEF limits
  <2> QED BY <1>3, <2>1
<1> QED BY <1>4 DEF Limits

\* What a call of RecordTrade with a non-negative PnL does to the books.
LEMMA TradeFacts ==
    ASSUME TypeOK, BooksNeverLose, NEW v \in Nat, NEW p \in Nat, RecordTrade(v, p)
    PROVE  /\ now' = now /\ UNCHANGED revertVars /\ UNCHANGED state
           /\ dailyPnL' >= 0 /\ dailyPnL' <= dailyPnL + p
           /\ \/ /\ now > dailyResetTime
                 /\ dailyVolume' = v /\ dailyResetTime' = NextMidnight(now)
              \/ /\ ~(now > dailyResetTime)
                 /\ dailyVolume' = dailyVolume + v /\ dailyResetTime' = dailyResetTime
<1> USE RiskConfigAssumption DEF TypeOK, BooksNeverLose
<1>1. dailyPnL' \in Int /\ dailyPnL' >= 0 /\ dailyPnL' <= dailyPnL + p
  <2>1. dailyPnL' = (IF now > dailyResetTime THEN 0 ELSE dailyPnL) + p
    BY DEF RecordTrade
  <2>2. dailyPnL \in Int /\ dailyPnL >= 0
    OBVIOUS
  <2> HIDE RiskConfigAssumption DEF TypeOK, BooksNeverLose
  <2> QED BY <2>1, <2>2, SMTT(20)
<1>2. ~LossBreaker(dailyPnL')
  <2>1. DailyLossHalt \in Nat
    OBVIOUS
  <2>2. ASSUME NEW x \in Int, x >= 0 PROVE ~(-x > DailyLossHalt)
    BY <2>1, <2>2, SMTT(20)
  <2> QED BY <1>1, <2>2 DEF LossBreaker
<1>3. UNCHANGED state
  BY <1>2 DEF RecordTrade, stateVars
<1> QED BY <1>1, <1>3, SMTT(20) DEF RecordTrade

\* A revert adds at most one entry to either window, and pauses at most.
LEMMA RevertFacts ==
    ASSUME TypeOK, NEW type \in RevertType, RecordRevert(type)
    PROVE  /\ now' = now /\ UNCHANGED dailyVars
           /\ state' \in {state, "Paused"}
           /\ Len(recentBugReverts') <= Len(recentBugReverts) + 1
           /\ Len(recentCompReverts') <= Len(recentCompReverts) + 1
<1> USE DEF TypeOK
<1>1. ASSUME NEW ts \in Seq(Nat)
      PROVE  /\ prune(ts) \in Seq(Nat) /\ Len(prune(ts)) <= Len(ts)
             /\ Len(Append(prune(ts), now)) <= Len(ts) + 1
  <2>1. PICK k \in 0..Len(ts) : Len(prune(ts)) = Len(ts) - k
    BY PruneType
  <2>2. prune(ts) \in Seq(Nat)
    BY PruneType
  <2>3. Len(Append(prune(ts), now)) = Len(prune(ts)) + 1
    BY <2>2, SMTT(20)
  <2> QED BY <2>1, <2>2, <2>3, SMTT(20)
<1>2. /\ Len(recentBugReverts') <= Len(recentBugReverts) + 1
      /\ Len(recentCompReverts') <= Len(recentCompReverts) + 1
  BY <1>1, SMTT(20) DEF RecordRevert
<1>3. state' \in {state, "Paused"}
  BY DEF RecordRevert, notifyTrip, stateVars
<1> QED BY <1>2, <1>3 DEF RecordRevert

-----------------------------------------------------------------------------
(* Every step of the executor is a step of its risk manager.               *)

\* processArb, the poller, the operator and the clock change the risk manager
\* only through its methods, with arguments RiskManager allows for.
LEMMA RiskStep == ExecInv /\ [ExecNext]_execVars => [Next]_rmVars
<1> SUFFICES ASSUME ExecInv, ExecNext PROVE [Next]_rmVars
  BY DEF execVars
<1>0. /\ MaxReverts \in Nat /\ VolumeBound \in Nat /\ PnLBound \in Nat
      /\ MaxDailyVolume \in Nat /\ MaxArbs \in Nat
      /\ MaxArbs <= MaxReverts /\ MaxDailyVolume <= VolumeBound
  BY RiskConfigAssumption, ExecutorAssumption
<1>v. /\ Len(recentBugReverts) \in Nat /\ Len(recentCompReverts) \in Nat
      /\ dailyVolume \in Nat /\ dailyPnL \in Int /\ dailyPnL >= 0 /\ dailyPnL <= PnLBound
      /\ dailyVolume <= MaxDailyVolume /\ state # "Halted"
  BY SMTT(20) DEF ExecInv, TypeOK, BooksNeverLose, VolumeCapHolds
<1>1. CASE UNCHANGED rmVars
  BY <1>1
<1>2. CASE SignerUnavailable \/ Admin
  BY <1>2 DEF SignerUnavailable, Admin, Next
<1>3. CASE recordSubmissionReverts
  <2>1. WorstRevert(results) \in {"none"} \union RevertType
    BY DEF WorstRevert, RevertType
  <2>2. Len(recentBugReverts) < MaxReverts /\ Len(recentCompReverts) < MaxReverts
    BY <1>0, <1>v, <1>3, SMTT(20) DEF ExecInv, recordSubmissionReverts, CountInv, InHand
  <2> QED BY <1>3, <2>1, <2>2 DEF recordSubmissionReverts, Next, Reverts
<1>4. CASE recordSubmittedTrade
  <2>1. arb \in Arbs /\ arb.trade \in Volumes /\ arb.trade \in Nat /\ 0 \in PnLs
    BY <1>4, ExecutorAssumption DEF ExecInv, recordSubmittedTrade, ArbInv
  <2>2. dailyVolume + arb.trade <= VolumeBound
    BY <1>0, <1>v, <1>4, <2>1, SMTT(20) DEF ExecInv, recordSubmittedTrade, ApprovedFits
  <2>3. dailyPnL + 0 \in -PnLBound .. PnLBound
    BY <1>0, <1>v, SMTT(20)
  <2> QED BY <1>4, <2>1, <2>2, <2>3 DEF recordSubmittedTrade, SubmittedVolume, Next, Trades
<1>5. ASSUME NEW b \in pendingQueue, SettleIncluded(b) PROVE Next
  <2>1. b[2] \in Arbs /\ b[2].profit \in PnLs /\ b[2].profit \in Nat /\ 0 \in Volumes
    BY ExecutorAssumption DEF ExecInv, ArbInv
  <2>2. dailyVolume + 0 <= VolumeBound
    BY <1>0, <1>v, SMTT(20)
  <2>3. dailyPnL + b[2].profit \in -PnLBound .. PnLBound
    BY <1>0, <1>v, <1>5, <2>1, SMTT(20) DEF SettleIncluded
  <2> QED BY <1>5, <2>1, <2>2, <2>3 DEF SettleIncluded, SettledVolume, SettledPnL, Next, Trades
<1>6. CASE handleAdminReset
  BY <1>6, <1>v DEF handleAdminReset
<1>7. CASE Clock
  BY <1>7 DEF Clock, Next
<1> QED BY <1>1, <1>2, <1>3, <1>4, <1>5, <1>6, <1>7
        DEF ExecNext, Receive, Gate, Build, Shadow, Submit, enqueuePendingBundle,
            SettleMissed, handleBackrunPromote
-----------------------------------------------------------------------------
(* The parts of the invariant, one lemma each.                             *)

\* UNCHANGED rmVars, spelled out.
LEMMA RiskUnchanged ==
    ASSUME UNCHANGED rmVars
    PROVE  /\ now' = now /\ state' = state
           /\ recentBugReverts' = recentBugReverts /\ recentCompReverts' = recentCompReverts
           /\ dailyVolume' = dailyVolume /\ dailyPnL' = dailyPnL
           /\ dailyResetTime' = dailyResetTime
BY DEF rmVars, stateVars, revertVars, dailyVars

\* The operator's commands leave the books and the windows alone, and from a
\* state that is not Halted they lead to none that is.
LEMMA AdminFacts ==
    ASSUME state # "Halted",
           Pause \/ Resume \/ \E eth \in MinProfits : SetMinProfitETH(eth)
    PROVE  /\ now' = now /\ state' # "Halted"
           /\ recentBugReverts' = recentBugReverts /\ recentCompReverts' = recentCompReverts
           /\ dailyVolume' = dailyVolume /\ dailyPnL' = dailyPnL
           /\ dailyResetTime' = dailyResetTime
<1>1. CASE Pause
  BY <1>1 DEF Pause, notifyTrip, stateVars, revertVars, dailyVars
<1>2. CASE Resume
  BY <1>2 DEF Resume, notifyTrip, stateVars, revertVars, dailyVars
<1>3. CASE \E eth \in MinProfits : SetMinProfitETH(eth)
  BY <1>3 DEF SetMinProfitETH, stateVars, revertVars, dailyVars
<1> QED BY <1>1, <1>2, <1>3

\* The arb in hand and the queue hold arbs of the stream.
LEMMA ArbStep == ExecInv /\ ExecNext => ArbInv'
<1> SUFFICES ASSUME ExecInv, ExecNext PROVE ArbInv'
  OBVIOUS
<1> USE DEF ArbInv
<1>0. ArbInv
  BY DEF ExecInv
<1> USE DEF Steps
<1>1. ASSUME NEW a \in Arbs, Receive(a) PROVE ArbInv'
  BY <1>0, <1>1 DEF Receive, Done
<1>2. CASE Gate
  BY <1>0, <1>2 DEF Gate, Done
<1>3. CASE Build
  BY <1>0, <1>3 DEF Build, Done
<1>4. CASE SignerUnavailable
  BY <1>0, <1>4 DEF SignerUnavailable, Done
<1>5. CASE Shadow
  BY <1>0, <1>5 DEF Shadow, Done
<1>6. CASE Submit
  BY <1>0, <1>6 DEF Submit
<1>7. CASE recordSubmissionReverts
  BY <1>0, <1>7 DEF recordSubmissionReverts
<1>8. CASE recordSubmittedTrade
  BY <1>0, <1>8 DEF recordSubmittedTrade
<1>9. CASE enqueuePendingBundle
  <2>1. \A b \in pendingQueue' : b \in pendingQueue \/ b = <<taken, arb>>
    BY <1>9 DEF enqueuePendingBundle
  <2>2. arb \in Arbs
    BY <1>0, <1>9 DEF enqueuePendingBundle
  <2> QED BY <1>0, <1>9, <2>1, <2>2, SMTT(20) DEF enqueuePendingBundle, Done
<1>10. ASSUME NEW b \in pendingQueue, SettleIncluded(b) \/ SettleMissed(b) PROVE ArbInv'
  BY <1>0, <1>10 DEF SettleIncluded, SettleMissed
<1>11. CASE Admin
  BY <1>0, <1>11 DEF Admin, arbVars
<1>12. CASE handleAdminReset
  BY <1>0, <1>12 DEF handleAdminReset, arbVars
<1>13. CASE handleBackrunPromote
  BY <1>0, <1>13 DEF handleBackrunPromote, arbVars
<1>14. CASE Clock
  BY <1>0, <1>14 DEF Clock, arbVars
<1> QED BY <1>1, <1>2, <1>3, <1>4, <1>5, <1>6, <1>7, <1>8, <1>9, <1>10, <1>11, <1>12,
           <1>13, <1>14 DEF ExecNext

\* Each arb taken from the stream records at most one revert.
LEMMA CountStep == ExecInv /\ ExecNext => CountInv'
<1> SUFFICES ASSUME ExecInv, ExecNext PROVE CountInv'
  OBVIOUS
<1>0. /\ CountInv /\ state # "Halted" /\ pc \in Steps
      /\ Len(recentBugReverts) \in Nat /\ Len(recentCompReverts) \in Nat
  BY SMTT(20) DEF ExecInv, BooksNeverLose, TypeOK, ArbInv
<1>m. MaxArbs \in Nat
  BY ExecutorAssumption
<1> USE <1>0, <1>m DEF CountInv, InHand, Steps
<1>1. ASSUME NEW a \in Arbs, Receive(a) PROVE CountInv'
  BY <1>1, RiskUnchanged, SMTT(20) DEF Receive, Done
<1>2. CASE Gate
  BY <1>2, RiskUnchanged, SMTT(20) DEF Gate, Done
<1>3. CASE Build
  BY <1>3, RiskUnchanged, SMTT(20) DEF Build, Done
<1>4. CASE SignerUnavailable
  BY <1>4, AdminFacts, SMTT(20) DEF SignerUnavailable, Done
<1>5. CASE Shadow
  BY <1>5, RiskUnchanged, SMTT(20) DEF Shadow, Done
<1>6. CASE Submit
  BY <1>6, RiskUnchanged DEF Submit
<1>7. CASE recordSubmissionReverts
  <2>1. WorstRevert(results) \in {"none"} \union RevertType
    BY DEF WorstRevert, RevertType
  <2>2. CASE UNCHANGED rmVars
    BY <1>7, <2>2, RiskUnchanged, SMTT(20) DEF recordSubmissionReverts
  <2>3. ASSUME NEW type \in RevertType, RecordRevert(type) PROVE CountInv'
    <3>1. TypeOK
      BY DEF ExecInv
    <3>2. /\ Len(recentBugReverts') <= Len(recentBugReverts) + 1
          /\ Len(recentCompReverts') <= Len(recentCompReverts) + 1
      BY <2>3, <3>1, RevertFacts
    <3>3. Len(recentBugReverts') \in Nat /\ Len(recentCompReverts') \in Nat
      <4>1. prune(recentBugReverts) \in Seq(Nat) /\ prune(recentCompReverts) \in Seq(Nat)
        BY <3>1, PruneType DEF TypeOK
      <4> QED BY <2>3, <3>1, <4>1, SMTT(20) DEF RecordRevert, TypeOK
    <3> QED BY <1>7, <3>2, <3>3, SMTT(20) DEF recordSubmissionReverts
  <2> QED BY <1>7, <2>1, <2>2, <2>3 DEF recordSubmissionReverts
<1>8. CASE recordSubmittedTrade
  BY <1>8 DEF recordSubmittedTrade, RecordTrade, revertVars
<1>9. CASE enqueuePendingBundle
  BY <1>9, RiskUnchanged DEF enqueuePendingBundle, Done
<1>10. ASSUME NEW b \in pendingQueue, SettleIncluded(b) PROVE CountInv'
  BY <1>10 DEF SettleIncluded, RecordTrade, revertVars
<1>11. ASSUME NEW b \in pendingQueue, SettleMissed(b) PROVE CountInv'
  BY <1>11, RiskUnchanged DEF SettleMissed
<1>12. CASE Admin
  BY <1>12, AdminFacts DEF Admin, arbVars
<1>13. CASE handleAdminReset
  BY <1>13, RiskUnchanged DEF handleAdminReset, arbVars
<1>14. CASE handleBackrunPromote
  BY <1>14, RiskUnchanged DEF handleBackrunPromote, arbVars
<1>15. CASE Clock
  BY <1>15 DEF Clock, Tick, arbVars, revertVars
<1> QED BY <1>1, <1>2, <1>3, <1>4, <1>5, <1>6, <1>7, <1>8, <1>9, <1>10, <1>11, <1>12,
           <1>13, <1>14, <1>15 DEF ExecNext

\* The arguments and the books of the two calls of RecordTrade.
LEMMA BookedTrades ==
    ASSUME ExecInv
    PROVE  /\ recordSubmittedTrade => /\ arb \in Arbs /\ arb.trade \in Nat
                                      /\ RecordTrade(arb.trade, 0)
           /\ \A b \in pendingQueue : SettleIncluded(b) =>
                 b[2].profit \in Nat /\ RecordTrade(0, b[2].profit)
<1>1. recordSubmittedTrade => arb \in Arbs /\ arb.trade \in Nat /\ RecordTrade(arb.trade, 0)
  BY ExecutorAssumption DEF ExecInv, ArbInv, recordSubmittedTrade, SubmittedVolume
<1>2. ASSUME NEW b \in pendingQueue, SettleIncluded(b)
      PROVE  b[2].profit \in Nat /\ RecordTrade(0, b[2].profit)
  BY <1>2, ExecutorAssumption DEF ExecInv, ArbInv, SettleIncluded, SettledVolume, SettledPnL
<1> QED BY <1>1, <1>2

\* The cap, the reservation of the arb in hand, and books without a loss.
BooksInv == BooksNeverLose /\ dailyPnL <= PnLBound /\ VolumeCapHolds /\ ApprovedFits

\* Only processArb adds volume, and what it adds was reserved by its preflight.
LEMMA BooksStep == ExecInv /\ ExecNext => BooksInv'
<1> SUFFICES ASSUME ExecInv, ExecNext PROVE BooksInv'
  OBVIOUS
<1>0. /\ BooksInv /\ pc \in Steps /\ (pc # "recv" => arb \in Arbs) /\ state \in SystemState
      /\ dailyVolume \in Nat /\ dailyPnL \in Int
  BY DEF ExecInv, BooksInv, TypeOK, ArbInv
<1>m. /\ MaxDailyVolume \in Nat /\ PnLBound \in Nat
      /\ \A a \in Arbs : a.trade \in Nat /\ a.profit \in Nat
  BY RiskConfigAssumption, ExecutorAssumption
<1>t. TypeOK /\ BooksNeverLose
  BY DEF ExecInv
<1> USE <1>0, <1>m DEF BooksInv, BooksNeverLose, VolumeCapHolds, ApprovedFits, Steps
<1>1. ASSUME NEW a \in Arbs, Receive(a) PROVE BooksInv'
  <2>1. UNCHANGED rmVars /\ pc = "recv"
    BY <1>1 DEF Receive
  <2>2. \/ pc' = "recv"
        \/ pc' = "gate" /\ arb' = a /\ dailyVolume + a.trade <= MaxDailyVolume
    BY <1>1, ApprovedMeans DEF Receive, Done
  <2> QED BY <2>1, <2>2, RiskUnchanged
<1>2. CASE Gate
  BY <1>2, RiskUnchanged DEF Gate, Done
<1>3. CASE Build
  BY <1>3, RiskUnchanged DEF Build, Done
<1>4. CASE SignerUnavailable
  BY <1>4, AdminFacts DEF SignerUnavailable, Done
<1>5. CASE Shadow
  BY <1>5, RiskUnchanged DEF Shadow, Done
<1>6. CASE Submit
  BY <1>6, RiskUnchanged DEF Submit
<1>7. CASE recordSubmissionReverts
  <2>1. WorstRevert(results) \in {"none"} \union RevertType
    BY DEF WorstRevert, RevertType
  <2>2. UNCHANGED dailyVars /\ state' # "Halted"
    BY <1>7, <1>t, <2>1, RevertFacts, RiskUnchanged DEF recordSubmissionReverts, dailyVars
  <2> QED BY <1>7, <2>2 DEF recordSubmissionReverts, dailyVars
<1>8. CASE recordSubmittedTrade
  <2>1. arb.trade \in Nat /\ RecordTrade(arb.trade, 0)
    BY <1>8, BookedTrades
  <2>2. /\ dailyPnL' >= 0 /\ dailyPnL' <= dailyPnL + 0 /\ UNCHANGED state
        /\ dailyVolume' \in {arb.trade, dailyVolume + arb.trade}
    BY <1>t, <2>1, TradeFacts
  <2>3. dailyPnL' \in Int
    BY <1>t, <2>1, SMTT(20) DEF RecordTrade
  <2>4. pc = "trade" /\ pc' = "enqueue"
    BY <1>8 DEF recordSubmittedTrade
  <2>5. dailyVolume + arb.trade <= MaxDailyVolume
    BY <2>4
  <2>6. dailyVolume' <= MaxDailyVolume
    BY <2>1, <2>2, <2>5, SMTT(20)
  <2>7. dailyVolume' \in Nat
    BY <2>1, <2>2, SMTT(20)
  <2>8. ApprovedFits'
    BY <2>4, <2>6, <2>7
  <2>9. dailyPnL' <= PnLBound
    BY <2>2, <2>3, SMTT(20)
  <2> QED BY <2>2, <2>6, <2>8, <2>9
<1>9. CASE enqueuePendingBundle
  BY <1>9, RiskUnchanged DEF enqueuePendingBundle, Done
<1>10. ASSUME NEW b \in pendingQueue, SettleIncluded(b) PROVE BooksInv'
  <2>1. b[2].profit \in Nat /\ RecordTrade(0, b[2].profit)
    BY <1>10, BookedTrades
  <2>2. /\ dailyPnL' >= 0 /\ dailyPnL' <= dailyPnL + b[2].profit /\ UNCHANGED state
        /\ dailyVolume' \in {0, dailyVolume}
    <3>1. /\ dailyPnL' >= 0 /\ dailyPnL' <= dailyPnL + b[2].profit /\ UNCHANGED state
          /\ dailyVolume' \in {0, dailyVolume + 0}
      BY <1>t, <2>1, TradeFacts
    <3> QED BY <3>1, SMTT(20)
  <2>3. dailyPnL' \in Int
    BY <1>t, <2>1, SMTT(20) DEF RecordTrade
  <2>4. UNCHANGED <<pc, arb>> /\ dailyPnL + b[2].profit <= PnLBound
    BY <1>10 DEF SettleIncluded
  <2>5. dailyPnL' <= PnLBound
    BY <2>1, <2>2, <2>3, <2>4, SMTT(20)
  <2>6. dailyVolume' <= dailyVolume /\ dailyVolume' \in Nat
    BY <2>2, SMTT(20)
  <2>7. ApprovedFits'
    <3>1. CASE pc \in {"recv", "enqueue"}
      BY <2>4, <3>1
    <3>2. CASE pc \notin {"recv", "enqueue"}
      <4>1. arb.trade \in Nat /\ dailyVolume + arb.trade <= MaxDailyVolume
        BY <3>2
      <4>2. dailyVolume' + arb.trade <= MaxDailyVolume
        BY <2>6, <4>1, SMTT(20)
      <4> QED BY <2>4, <4>2
    <3> QED BY <3>1, <3>2
  <2> QED BY <2>2, <2>5, <2>6, <2>7, SMTT(20)
<1>11. ASSUME NEW b \in pendingQueue, SettleMissed(b) PROVE BooksInv'
  BY <1>11, RiskUnchanged DEF SettleMissed
<1>12. CASE Admin
  BY <1>12, AdminFacts DEF Admin, arbVars
<1>13. CASE handleAdminReset
  BY <1>13, RiskUnchanged DEF handleAdminReset, arbVars
<1>14. CASE handleBackrunPromote
  BY <1>14, RiskUnchanged DEF handleBackrunPromote, arbVars
<1>15. CASE Clock
  BY <1>15 DEF Clock, Tick, arbVars, dailyVars, stateVars
<1> QED BY <1>1, <1>2, <1>3, <1>4, <1>5, <1>6, <1>7, <1>8, <1>9, <1>10, <1>11, <1>12,
           <1>13, <1>14, <1>15 DEF ExecNext

\* An arb is submitted at most once after a stop: it was approved before.
LEMMA StopStep == ExecInv /\ ExecNext => StopInv'
<1> SUFFICES ASSUME ExecInv, ExecNext PROVE StopInv'
  OBVIOUS
<1>0. StopInv /\ pc \in Steps /\ state \in SystemState /\ state # "Halted"
  BY DEF ExecInv, TypeOK, ArbInv, BooksNeverLose
<1>s. state' \in SystemState
  <2>1. TypeOK
    BY DEF ExecInv
  <2>2. [Next]_rmVars
    BY RiskStep
  <2>3. TypeOK'
    BY <2>1, <2>2, TypeStep
  <2> QED BY <2>3 DEF TypeOK
<1>k. state' \in {"Running", "Degraded"} <=> ~Stopped'
  BY <1>s DEF SystemState, Stopped
<1> USE <1>0, <1>k DEF StopInv, Steps, SystemState
<1>1. ASSUME NEW a \in Arbs, Receive(a) PROVE StopInv'
  <2>1. UNCHANGED state /\ UNCHANGED afterStop /\ pc = "recv"
    BY <1>1, RiskUnchanged DEF Receive
  <2>2. \/ pc' = "recv"
        \/ pc' = "gate" /\ state \in {"Running", "Degraded"}
    BY <1>1, ApprovedMeans DEF Receive, Done
  <2> QED BY <2>1, <2>2 DEF Stopped
<1>2. CASE Gate
  BY <1>2, RiskUnchanged DEF Gate, Done, history, Stopped
<1>3. CASE Build
  BY <1>3, RiskUnchanged DEF Build, Done, history, Stopped
<1>4. CASE SignerUnavailable
  BY <1>4 DEF SignerUnavailable, Done, KeepHistory
<1>5. CASE Shadow
  BY <1>5, RiskUnchanged DEF Shadow, Done, history, Stopped
<1>6. CASE Submit
  BY <1>6, RiskUnchanged, SMTT(20) DEF Submit, Stopped
<1>7. CASE recordSubmissionReverts
  BY <1>7, SMTT(20) DEF recordSubmissionReverts, KeepHistory
<1>8. CASE recordSubmittedTrade
  BY <1>8, SMTT(20) DEF recordSubmittedTrade
<1>9. CASE enqueuePendingBundle
  BY <1>9, RiskUnchanged DEF enqueuePendingBundle, Done, history, Stopped
<1>10. ASSUME NEW b \in pendingQueue, SettleIncluded(b) PROVE StopInv'
  BY <1>10, SMTT(20) DEF SettleIncluded
<1>11. ASSUME NEW b \in pendingQueue, SettleMissed(b) PROVE StopInv'
  BY <1>11, RiskUnchanged DEF SettleMissed, history, Stopped
<1>12. CASE Admin
  BY <1>12, SMTT(20) DEF Admin, KeepHistory, arbVars
<1>13. CASE handleAdminReset
  BY <1>13, RiskUnchanged DEF handleAdminReset, arbVars, history, Stopped
<1>14. CASE handleBackrunPromote
  BY <1>14, RiskUnchanged DEF handleBackrunPromote, arbVars, history, Stopped
<1>15. CASE Clock
  BY <1>15 DEF Clock, Tick, arbVars, stateVars, Stopped
<1> QED BY <1>1, <1>2, <1>3, <1>4, <1>5, <1>6, <1>7, <1>8, <1>9, <1>10, <1>11, <1>12,
           <1>13, <1>14, <1>15 DEF ExecNext

\* Today's submissions are on the books: when the roll-over is due there are
\* none yet, because it falls due exactly when a new day begins.
LEMMA DayStep == ExecInv /\ ExecNext => DayInv'
<1> SUFFICES ASSUME ExecInv, ExecNext PROVE DayInv'
  OBVIOUS
<1>0. /\ DayInv /\ now \in Nat /\ dailyVolume \in Nat /\ dailyResetTime \in Nat
      /\ state # "Halted"
  BY DEF ExecInv, TypeOK, BooksNeverLose
<1>t. TypeOK /\ BooksNeverLose
  BY DEF ExecInv
<1> USE <1>0 DEF DayInv
<1>1. CASE /\ UNCHANGED <<now, dailyVolume, dailyResetTime, volumeToday>>
  BY <1>1
<1>2. CASE UNCHANGED rmVars /\ UNCHANGED volumeToday
  <2>1. UNCHANGED <<now, dailyVolume, dailyResetTime, volumeToday>>
    BY <1>2, RiskUnchanged
  <2> QED BY <2>1, <1>1
<1>3. CASE SignerUnavailable \/ Admin
  <2>1. UNCHANGED <<now, dailyVolume, dailyResetTime, volumeToday>>
    BY <1>3, AdminFacts DEF SignerUnavailable, Admin, KeepHistory
  <2> QED BY <2>1, <1>1
<1>4. CASE recordSubmissionReverts
  <2>1. WorstRevert(results) \in {"none"} \union RevertType
    BY DEF WorstRevert, RevertType
  <2>2. UNCHANGED <<now, dailyVolume, dailyResetTime, volumeToday>>
    BY <1>4, <1>t, <2>1, RevertFacts, RiskUnchanged
       DEF recordSubmissionReverts, KeepHistory, dailyVars
  <2> QED BY <2>2, <1>1
<1>5. CASE recordSubmittedTrade
  <2>1. arb.trade \in Nat /\ RecordTrade(arb.trade, 0)
    BY <1>5, BookedTrades
  <2>2. /\ now' = now
        /\ \/ /\ now > dailyResetTime
              /\ dailyVolume' = arb.trade /\ dailyResetTime' = NextMidnight(now)
           \/ /\ ~(now > dailyResetTime)
              /\ dailyVolume' = dailyVolume + arb.trade /\ dailyResetTime' = dailyResetTime
    <3>1. 0 \in Nat
      OBVIOUS
    <3> QED BY <1>t, <2>1, <3>1, TradeFacts
  <2>3. volumeToday' = volumeToday + arb.trade
    BY <1>5 DEF recordSubmittedTrade
  <2>4. /\ NextMidnight(now) > now /\ NextMidnight(now) % DayLength = 0
        /\ NextMidnight(now) \in Nat
    BY MidnightAhead, MidnightType
  <2>5. CASE now > dailyResetTime
    BY <2>1, <2>2, <2>3, <2>4, <2>5, SMTT(20)
  <2>6. CASE ~(now > dailyResetTime)
    BY <2>1, <2>2, <2>3, <2>6, SMTT(20)
  <2> QED BY <2>5, <2>6
<1>6. ASSUME NEW b \in pendingQueue, SettleIncluded(b) PROVE DayInv'
  <2>1. b[2].profit \in Nat /\ RecordTrade(0, b[2].profit)
    BY <1>6, BookedTrades
  <2>2. /\ now' = now
        /\ \/ /\ now > dailyResetTime
              /\ dailyVolume' = 0 /\ dailyResetTime' = NextMidnight(now)
           \/ /\ ~(now > dailyResetTime)
              /\ dailyVolume' = dailyVolume + 0 /\ dailyResetTime' = dailyResetTime
    <3>1. 0 \in Nat
      OBVIOUS
    <3> QED BY <1>t, <2>1, <3>1, TradeFacts
  <2>3. volumeToday' = volumeToday
    BY <1>6 DEF SettleIncluded
  <2>4. /\ NextMidnight(now) > now /\ NextMidnight(now) % DayLength = 0
        /\ NextMidnight(now) \in Nat
    BY MidnightAhead, MidnightType
  <2>5. CASE now > dailyResetTime
    BY <2>2, <2>3, <2>4, <2>5, SMTT(20)
  <2>6. CASE ~(now > dailyResetTime)
    BY <2>2, <2>3, <2>6, SMTT(20)
  <2> QED BY <2>5, <2>6
<1>7. CASE handleAdminReset
  BY <1>7, <1>2 DEF handleAdminReset, history
<1>8. CASE Clock
  <2>1. /\ now' = now + 1 /\ UNCHANGED <<dailyVolume, dailyResetTime>>
        /\ IF now > 0 /\ now % DayLength = 0 THEN volumeToday' = 0
           ELSE volumeToday' = volumeToday
    BY <1>8 DEF Clock, Tick, dailyVars
  <2>2. CASE now = dailyResetTime
    BY <2>1, <2>2, SMTT(20)
  <2>3. CASE now # dailyResetTime
    BY <2>1, <2>3, SMTT(20)
  <2> QED BY <2>2, <2>3
<1> QED BY <1>1, <1>2, <1>3, <1>4, <1>5, <1>6, <1>7, <1>8
        DEF ExecNext, Receive, Gate, Build, Shadow, Submit, enqueuePendingBundle,
            SettleMissed, handleBackrunPromote, history

-----------------------------------------------------------------------------
(* The theorems.                                                           *)

\* The inductive invariant holds in every state.
LEMMA ExecInvariant == ExecSpec => []ExecInv
<1>1. ExecInit => ExecInv
  <2> SUFFICES ASSUME ExecInit PROVE ExecInv
    OBVIOUS
  <2>0. /\ MaxArbs \in Nat /\ MaxDailyVolume \in Nat /\ PnLBound \in Nat
        /\ RevertWindow \in Nat /\ NextMidnight(0) \in Nat
    BY RiskConfigAssumption, ExecutorAssumption, MidnightType
  <2> USE <2>0 DEF ExecInit, Init
  <2>1. TypeOK
    BY SMTT(20) DEF TypeOK, SystemState
  <2>2. ArbInv /\ CountInv /\ StopInv
    BY SMTT(20) DEF ArbInv, CountInv, InHand, StopInv, Steps
  <2>3. BooksNeverLose /\ dailyPnL <= PnLBound /\ VolumeCapHolds /\ ApprovedFits
    BY SMTT(20) DEF BooksNeverLose, VolumeCapHolds, ApprovedFits
  <2>4. NextMidnight(0) > 0 /\ NextMidnight(0) % DayLength = 0
    BY MidnightAhead
  <2>5. DayInv
    BY <2>4, SMTT(20) DEF DayInv
  <2> QED BY <2>1, <2>2, <2>3, <2>5 DEF ExecInv
<1>2. ExecInv /\ [ExecNext]_execVars => ExecInv'
  <2> SUFFICES ASSUME ExecInv, [ExecNext]_execVars PROVE ExecInv'
    OBVIOUS
  <2>1. CASE ExecNext
    <3>1. TypeOK'
      <4>1. TypeOK
        BY DEF ExecInv
      <4>2. [Next]_rmVars
        BY RiskStep
      <4> QED BY <4>1, <4>2, TypeStep
    <3>2. ArbInv' /\ CountInv' /\ StopInv' /\ DayInv' /\ BooksInv'
      BY <2>1, ArbStep, CountStep, StopStep, DayStep, BooksStep
    <3> QED BY <3>1, <3>2 DEF ExecInv, BooksInv
  <2>2. CASE UNCHANGED execVars
    <3>1. UNCHANGED rmVars /\ UNCHANGED arbVars /\ UNCHANGED history
      BY <2>2 DEF execVars
    <3>2. TypeOK'
      BY <3>1 DEF ExecInv, TypeOK, rmVars, stateVars, revertVars, dailyVars
    <3>3. ArbInv' /\ CountInv'
      BY <3>1, RiskUnchanged DEF ExecInv, ArbInv, CountInv, InHand, arbVars
    <3>4. StopInv' /\ DayInv'
      BY <3>1, RiskUnchanged DEF ExecInv, StopInv, DayInv, Stopped, arbVars, history
    <3>5. BooksInv'
      BY <3>1, RiskUnchanged DEF ExecInv, BooksInv, BooksNeverLose, VolumeCapHolds,
                                 ApprovedFits, arbVars
    <3> QED BY <3>2, <3>3, <3>4, <3>5 DEF ExecInv, BooksInv
  <2> QED BY <2>1, <2>2
<1> QED BY <1>1, <1>2, PTL DEF ExecSpec

\* The revert breaker guards the running executor: whatever processArb, the poller,
\* the operator and the clock do in between, a revert that finds the threshold in
\* its window never leaves the executor trading.
THEOREM BreakerGuardsExecutor == ExecSpec => BreakerTrips
<1>1. ExecInit => Init
  BY DEF ExecInit
<1>2. ExecSpec => Spec
  BY <1>1, RiskStep, ExecInvariant, PTL DEF ExecSpec, Spec
<1> QED BY <1>2, BreakerAlwaysTrips, PTL

\* The daily volume cap is never exceeded.
THEOREM VolumeCapAlwaysHolds == ExecSpec => []VolumeCapHolds
<1>1. ExecInv => VolumeCapHolds
  BY DEF ExecInv
<1> QED BY <1>1, ExecInvariant, PTL

\* After a breaker or the operator stops trading, at most one bundle goes out.
THEOREM StopIsEffective == ExecSpec => []AtMostOneAfterStop
<1>1. ExecInv => AtMostOneAfterStop
  BY SMTT(20) DEF ExecInv, StopInv, AtMostOneAfterStop
<1> QED BY <1>1, ExecInvariant, PTL

\* Every submission of the day is on the books the cap is checked against.
THEOREM BooksAlwaysCoverDay == ExecSpec => []BooksCoverDay
<1>1. ExecInv => BooksCoverDay
  BY DEF ExecInv, TypeOK, DayInv, BooksCoverDay
<1> QED BY <1>1, ExecInvariant, PTL

\* Together: whatever the builders, the poller and the operator do, the volume
\* submitted in a day stays below max_daily_volume_eth.
THEOREM DayAlwaysWithinCap == ExecSpec => []DayWithinCap
<1>1. VolumeCapHolds /\ BooksCoverDay => DayWithinCap
  BY DEF DayWithinCap
<1> QED BY <1>1, VolumeCapAlwaysHolds, BooksAlwaysCoverDay, PTL

\* In the executor the daily-loss breaker never trips, for any stream of arbs
\* and any answers of builders and relay.
THEOREM LossBreakerNeverTrips == ExecSpec => []BooksNeverLose
<1>1. ExecInv => BooksNeverLose
  BY DEF ExecInv
<1> QED BY <1>1, ExecInvariant, PTL
=============================================================================
