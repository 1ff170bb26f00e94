---------------------------- MODULE LedgerProofs ----------------------------
(***************************************************************************)
(* The ledger's books balance (PgLedger).  What is due is the set of rows  *)
(* that the producers still have to enqueue, that wait in the channel,     *)
(* that dispatch holds or that a writer executes: a row is in one of these *)
(* places only, and each counter is the number of bundles whose roll-up    *)
(* row is no longer among them.                                            *)
(***************************************************************************)
EXTENDS PgLedger, QueueProofs

\* How long a solver may take for a leaf.
USE ZenonT(20), SMTT(20)

(* The rows due.                                                           *)

\* The rows that are on their way to Postgres, and the sets they are in.
ArbRows == Range(todo["arb"])
PollerRows == Range(todo["poller"])
ChanRows == Range(ch)
HeldRows == Range(hold)
RowsDue == ArbRows \cup PollerRows \cup ChanRows \cup HeldRows \cup inflight

\* No row is in both.
Apart(A, B) == A \cap B = {}

\* A row is in one place at a time.
OnePlace ==
    /\ Distinct(todo["arb"]) /\ Distinct(todo["poller"]) /\ Distinct(ch)
    /\ Apart(ArbRows, PollerRows) /\ Apart(ArbRows \cup PollerRows, ChanRows \cup HeldRows \cup inflight)
    /\ Apart(ChanRows, HeldRows \cup inflight) /\ Apart(HeldRows, inflight)

\* What the rows on their way are about.
RowsMeant ==
    /\ \A op \in RowsDue :
          /\ op.bundle \in submitted
          /\ op.row \in {"landed", "missed"} => resolvedAs[op.bundle] = op.row
    /\ \A b \in LedgerBundles : resolvedAs[b] # "no" => b \in submitted
    /\ bundles \subseteq submitted /\ IsFiniteSet(submitted)

\* Where the dispatcher is and what is left to it.
Phases ==
    /\ hold = <<>> <=> dispatcher \notin {"count", "acquire"}
    /\ \A p \in announced : todo[p] # <<>>
    /\ closing # "open" => \A p \in Producers : todo[p] = <<>>
    /\ dispatcher \in {"wait", "exited"} => closing # "open" /\ (ch = <<>> \/ cancelled)
    /\ dispatcher = "exited" => inflight = {}
    /\ closing = "clean" => dispatcher = "exited"
    /\ IsFiniteSet(inflight)

\* The bundles whose roll-up row is no longer due: what the daily counters count.
CountedSubmitted == {b \in submitted : UpsertPnLDaily(b, "submitted") \notin RowsDue}
CountedLanded == {b \in LedgerBundles : resolvedAs[b] = "landed" /\ UpsertPnLDaily(b, "landed") \notin RowsDue}

\* The tables and the rows on their way make up the whole.
Accounted ==
    Healthy =>
        /\ \A b \in submitted : b \in bundles \/ InsertBundle(b) \in RowsDue
        /\ bundle_count = Cardinality(CountedSubmitted)
        /\ inclusion_count = Cardinality(CountedLanded)

\* The inductive invariant of the ledger.
LedgerInv == LedgerTypeOK /\ OnePlace /\ RowsMeant /\ Phases /\ GaugeCoversQueue /\ Accounted

\* What stays when no row moves.
LEMMA SameRows ==
    UNCHANGED <<todo, ch, hold, inflight>> =>
        /\ UNCHANGED <<ArbRows, PollerRows, ChanRows, HeldRows, RowsDue>>
        /\ OnePlace => OnePlace'
<1>0. SUFFICES ASSUME UNCHANGED <<todo, ch, hold, inflight>>
               PROVE  /\ UNCHANGED <<ArbRows, PollerRows, ChanRows, HeldRows, RowsDue>>
                      /\ OnePlace => OnePlace'
  OBVIOUS
<1>1. /\ ArbRows' = ArbRows /\ PollerRows' = PollerRows /\ ChanRows' = ChanRows /\ HeldRows' = HeldRows
      /\ todo' = todo /\ ch' = ch /\ inflight' = inflight
  BY <1>0 DEF ArbRows, PollerRows, ChanRows, HeldRows
<1>2. RowsDue' = RowsDue
  BY <1>1 DEF RowsDue
<1> QED
  BY <1>1, <1>2 DEF OnePlace

\* The books are kept by a step that leaves the rows on their way and the tables.
LEMMA BooksKept ==
    /\ RowsDue' = RowsDue /\ UNCHANGED <<submitted, resolvedAs, bundles, bundle_count, inclusion_count>>
    /\ Healthy' => Healthy
    /\ RowsMeant /\ Accounted
    => RowsMeant' /\ Accounted'
<1>0. SUFFICES ASSUME RowsDue' = RowsDue, UNCHANGED <<submitted, resolvedAs, bundles, bundle_count, inclusion_count>>,
                      Healthy' => Healthy, RowsMeant, Accounted
               PROVE  RowsMeant' /\ Accounted'
  OBVIOUS
<1>1. RowsMeant'
  BY <1>0 DEF RowsMeant
<1>2. CountedSubmitted' = CountedSubmitted /\ CountedLanded' = CountedLanded
  BY <1>0 DEF CountedSubmitted, CountedLanded
<1>3. Accounted'
  BY <1>0, <1>2 DEF Accounted
<1> QED
  BY <1>1, <1>3

\* The facts about an empty queue of rows.
LEMMA NoRows ==
    ASSUME NEW s \in Seq(Ops)
    PROVE  s = <<>> => Range(s) = {} /\ Distinct(s)
<1> SUFFICES ASSUME s = <<>> PROVE Range(s) = {} /\ Distinct(s)
  OBVIOUS
<1>1. Len(s) = 0
  OBVIOUS
<1> QED
  BY <1>1, NoElements

\* No row has been made yet: the books start balanced.
LEMMA LedgerInvInit == LedgerInit => LedgerInv
<1>0. SUFFICES ASSUME LedgerInit PROVE LedgerInv
  OBVIOUS
<1>1. /\ todo["arb"] = <<>> /\ todo["poller"] = <<>> /\ \A p \in Producers : todo[p] = <<>>
      /\ ch = <<>> /\ hold = <<>> /\ inflight = {} /\ announced = {}
  BY <1>0 DEF LedgerInit, Producers
<1>2. <<>> \in Seq(Ops) /\ Len(<<>>) = 0
  BY SMTT(20)
<1>3. ArbRows = {} /\ PollerRows = {} /\ ChanRows = {} /\ HeldRows = {} /\ Distinct(<<>>)
  BY <1>1, <1>2, NoRows DEF ArbRows, PollerRows, ChanRows, HeldRows
<1>4. RowsDue = {}
  BY <1>1, <1>3 DEF RowsDue
<1>5. OnePlace
  BY <1>1, <1>3 DEF OnePlace, Apart
<1>6. IsFiniteSet({}) /\ Cardinality({}) = 0
  BY FS_EmptySet
<1>7. /\ queueDepth = 0 /\ submitted = {} /\ bundles = {} /\ bundle_count = 0 /\ inclusion_count = 0
      /\ dispatcher = "recv" /\ closing = "open" /\ dropped = FALSE /\ dbFault = FALSE
      /\ \A b \in LedgerBundles : resolvedAs[b] = "no"
  BY <1>0 DEF LedgerInit
<1>8. RowsMeant
  BY <1>4, <1>6, <1>7 DEF RowsMeant
<1>9. Phases
  BY <1>1, <1>6, <1>7 DEF Phases
<1>10. GaugeCoversQueue
  <2>1. Len(ch) = 0
    BY <1>1, <1>2
  <2> QED
    BY <1>1, <1>6, <1>7, <2>1, SMTT(20) DEF GaugeCoversQueue, inHand
<1>11. CountedSubmitted = {} /\ CountedLanded = {}
  BY <1>7 DEF CountedSubmitted, CountedLanded
<1>12. Accounted
  BY <1>6, <1>7, <1>11 DEF Accounted
<1>13. LedgerTypeOK
  <2>1. todo \in [Producers -> Seq(Ops)]
    BY <1>0, <1>2 DEF LedgerInit
  <2>2. ch \in Seq(Ops) /\ Len(ch) <= LedgerCapacity /\ hold \in Seq(Ops) /\ Len(hold) <= 1
    BY <1>1, <1>2, LedgerAssumption, SMTT(20)
  <2>3. inflight \subseteq Ops /\ Cardinality(inflight) <= LedgerMaxInflight
    BY <1>1, <1>6, LedgerAssumption, SMTT(20)
  <2>4. /\ resolvedAs \in [LedgerBundles -> {"no", "landed", "missed"}]
        /\ inclusion_results \in [LedgerBundles -> {"none", "submitted", "landed", "missed"}]
    BY <1>0 DEF LedgerInit
  <2>5. dropped \in BOOLEAN /\ dbFault \in BOOLEAN
    BY <1>7
  <2>6. /\ announced \subseteq Producers /\ bundles \subseteq LedgerBundles /\ submitted \subseteq LedgerBundles
        /\ queueDepth \in Int /\ bundle_count \in Nat /\ inclusion_count \in Nat
        /\ dispatcher \in {"recv", "count", "acquire", "wait", "exited"}
        /\ closing \in {"open", "drain", "clean", "cancelled", "closed"}
    BY <1>1, <1>7, SMTT(20)
  <2> QED
    BY <2>1, <2>2, <2>3, <2>4, <2>5, <2>6 DEF LedgerTypeOK
<1> QED
  BY <1>5, <1>8, <1>9, <1>10, <1>12, <1>13 DEF LedgerInv

\* A step that changes only the phases of the dispatcher and of Close.
LEMMA PhaseStep ==
    ASSUME LedgerInv, UNCHANGED <<producerVars, chVars, hold, inflight, writerVars>>,
           dispatcher' \in {"recv", "count", "acquire", "wait", "exited"},
           closing' \in {"open", "drain", "clean", "cancelled", "closed"},
           dispatcher' = "count" <=> dispatcher = "count", cancelled => cancelled', Phases'
    PROVE  LedgerInv'
<1>1. /\ UNCHANGED <<todo, announced, resolvedAs, submitted, ch, queueDepth, dropped, hold, inflight>>
      /\ UNCHANGED <<bundles, inclusion_results, bundle_count, inclusion_count, dbFault>>
  BY DEF producerVars, chVars, writerVars, tables
<1>2. LedgerTypeOK /\ OnePlace /\ RowsMeant /\ GaugeCoversQueue /\ Accounted
  BY DEF LedgerInv
<1>3. LedgerTypeOK'
  BY <1>1, <1>2 DEF LedgerTypeOK
<1>4. OnePlace' /\ RowsDue' = RowsDue
  BY <1>1, <1>2, SameRows
<1>5. GaugeCoversQueue'
  BY <1>1, <1>2 DEF GaugeCoversQueue, inHand
<1>6. Healthy' => Healthy
  BY <1>1 DEF Healthy
<1>7. RowsMeant' /\ Accounted'
  BY <1>1, <1>2, <1>4, <1>6, BooksKept
<1> QED
  BY <1>3, <1>4, <1>5, <1>7 DEF LedgerInv

\* Close, its drain timeout and the exit of the dispatcher move no row.
LEMMA ClosingStep ==
    LedgerInv /\ (dispatchEnd \/ dispatchExit \/ CloseChannel \/ CloseDrained \/ CloseTimeout \/ PoolClose) => LedgerInv'
<1>0. SUFFICES ASSUME LedgerInv,
                      dispatchEnd \/ dispatchExit \/ CloseChannel \/ CloseDrained \/ CloseTimeout \/ PoolClose
               PROVE  LedgerInv'
  OBVIOUS
<1>1. Phases /\ LedgerTypeOK
  BY <1>0 DEF LedgerInv
<1>2. UNCHANGED <<producerVars, chVars, hold, inflight, writerVars>>
  BY <1>0 DEF dispatchEnd, dispatchExit, CloseChannel, CloseDrained, CloseTimeout, PoolClose
<1>3. UNCHANGED <<todo, announced, ch, hold, inflight>>
  BY <1>2 DEF producerVars, chVars
<1>4. /\ dispatcher' \in {"recv", "count", "acquire", "wait", "exited"}
      /\ closing' \in {"open", "drain", "clean", "cancelled", "closed"}
      /\ dispatcher' = "count" <=> dispatcher = "count"
      /\ cancelled => cancelled'
  BY <1>0, <1>1 DEF LedgerTypeOK, dispatchEnd, dispatchExit, CloseChannel, CloseDrained, CloseTimeout,
        PoolClose, cancelled
<1>5. Phases'
  <2>1. CASE dispatchEnd
    BY <1>1, <1>3, <2>1 DEF Phases, dispatchEnd, cancelled
  <2>2. CASE dispatchExit
    BY <1>1, <1>3, <2>2 DEF Phases, dispatchExit, cancelled, writersDone
  <2>3. CASE CloseChannel
    BY <1>1, <1>3, <2>3 DEF Phases, CloseChannel, cancelled
  <2>4. CASE CloseDrained
    BY <1>1, <1>3, <2>4 DEF Phases, CloseDrained, cancelled
  <2>5. CASE CloseTimeout
    BY <1>1, <1>3, <2>5 DEF Phases, CloseTimeout, cancelled
  <2>6. CASE PoolClose
    BY <1>1, <1>3, <2>6 DEF Phases, PoolClose, cancelled
  <2> QED
    BY <1>0, <2>1, <2>2, <2>3, <2>4, <2>5, <2>6
<1> QED
  BY <1>0, <1>2, <1>4, <1>5, PhaseStep

\* At most the two producers are between the gauge and the send.
LEMMA AnnouncedFinite == LedgerTypeOK => IsFiniteSet(announced)
<1>1. IsFiniteSet({"arb"}) /\ IsFiniteSet({"arb"} \cup {"poller"})
  BY FS_Singleton, FS_AddElement
<1>2. Producers = {"arb"} \cup {"poller"}
  BY DEF Producers
<1> QED
  BY <1>1, <1>2, FS_Subset DEF LedgerTypeOK

\* enqueue raises the gauge before it tries the channel: the row stays where it is
\* and its producer counts as announced.
LEMMA AnnounceStep ==
    \A p \in Producers : LedgerInv /\ enqueueInc(p) => LedgerInv'
<1>0. SUFFICES ASSUME NEW p, p \in Producers, LedgerInv, enqueueInc(p) PROVE LedgerInv'
  OBVIOUS
<1>1. LedgerTypeOK /\ OnePlace /\ RowsMeant /\ Phases /\ GaugeCoversQueue /\ Accounted
  BY <1>0 DEF LedgerInv
<1>2. /\ todo[p] # <<>> /\ p \notin announced /\ announced' = announced \cup {p} /\ queueDepth' = queueDepth + 1
      /\ UNCHANGED <<todo, resolvedAs, submitted, ch, dropped, dispatcher, hold, inflight, closing>>
      /\ UNCHANGED <<bundles, inclusion_results, bundle_count, inclusion_count, dbFault>>
  BY <1>0 DEF enqueueInc, writerVars, tables
<1>3. LedgerTypeOK'
  BY <1>0, <1>1, <1>2, SMTT(20) DEF LedgerTypeOK
<1>4. OnePlace' /\ RowsDue' = RowsDue
  BY <1>1, <1>2, SameRows
<1>5. Healthy' => Healthy
  BY <1>2 DEF Healthy, cancelled
<1>6. RowsMeant' /\ Accounted'
  BY <1>1, <1>2, <1>4, <1>5, BooksKept
<1>7. Phases'
  BY <1>1, <1>2 DEF Phases, cancelled
<1>8. IsFiniteSet(announced)
  BY <1>1, AnnouncedFinite
<1>9. Cardinality(announced') = Cardinality(announced) + 1 /\ Cardinality(announced) \in Nat
  BY <1>2, <1>8, FS_AddElement, FS_CardinalityType
<1>10. GaugeCoversQueue'
  <2>1. Len(ch) \in Nat /\ queueDepth = Len(ch) + Cardinality(announced) + inHand
    BY <1>1, SMTT(20) DEF LedgerTypeOK, GaugeCoversQueue
  <2>2. inHand \in {0, 1} /\ inHand' = inHand
    BY <1>2 DEF inHand
  <2> QED
    BY <1>2, <1>9, <2>1, <2>2, SMTT(20) DEF GaugeCoversQueue
<1> QED
  BY <1>3, <1>4, <1>6, <1>7, <1>10 DEF LedgerInv

\* The non-blocking send: the row leaves its producer for the channel, or is dropped
\* with the gauge put back when the channel is full.
LEMMA SendStep ==
    \A p \in Producers : LedgerInv /\ enqueueSend(p) => LedgerInv'
<1>0. SUFFICES ASSUME NEW p, p \in Producers, LedgerInv, enqueueSend(p) PROVE LedgerInv'
  OBVIOUS
<1> DEFINE h == Head(todo[p])
<1>1. LedgerTypeOK /\ OnePlace /\ RowsMeant /\ Phases /\ GaugeCoversQueue /\ Accounted
  BY <1>0 DEF LedgerInv
<1>2. /\ p \in announced /\ announced' = announced \ {p} /\ todo' = [todo EXCEPT ![p] = Tail(@)]
      /\ \/ hasRoom /\ ch' = Append(ch, h) /\ UNCHANGED <<queueDepth, dropped>>
         \/ ch' = ch /\ queueDepth' = queueDepth - 1 /\ dropped' = TRUE
      /\ UNCHANGED <<resolvedAs, submitted, dispatcher, hold, inflight, closing>>
      /\ UNCHANGED <<bundles, inclusion_results, bundle_count, inclusion_count, dbFault>>
  BY <1>0 DEF enqueueSend, writerVars, tables
<1>3. /\ todo \in [Producers -> Seq(Ops)] /\ ch \in Seq(Ops) /\ todo[p] \in Seq(Ops) /\ todo[p] # <<>>
      /\ Len(ch) \in Nat /\ Len(ch) <= LedgerCapacity
  BY <1>0, <1>1, <1>2, SMTT(20) DEF LedgerTypeOK, Phases
<1>4. /\ Range(todo[p]) = {h} \cup Range(Tail(todo[p])) /\ h \in Ops /\ Tail(todo[p]) \in Seq(Ops)
  BY <1>3, RangeTail
<1>5. Distinct(todo[p]) => Distinct(Tail(todo[p])) /\ h \notin Range(Tail(todo[p]))
  BY <1>3, DistinctTail
<1> HIDE DEF h
<1>6. HeldRows' = HeldRows /\ inflight' = inflight
  BY <1>2 DEF HeldRows
<1>7. p = "arb" \/ p = "poller"
  BY <1>0 DEF Producers
<1>8. /\ p = "arb" => /\ todo'["arb"] = Tail(todo["arb"]) /\ todo'["poller"] = todo["poller"]
                      /\ PollerRows' = PollerRows /\ ArbRows = {h} \cup ArbRows' /\ h \notin ArbRows' /\ Distinct(todo'["arb"])
                      /\ Distinct(todo'["poller"])
      /\ p = "poller" => /\ todo'["poller"] = Tail(todo["poller"]) /\ todo'["arb"] = todo["arb"]
                         /\ ArbRows' = ArbRows /\ PollerRows = {h} \cup PollerRows' /\ h \notin PollerRows' /\ Distinct(todo'["poller"])
                         /\ Distinct(todo'["arb"])
  <2>0. todo'["arb"] = (IF p = "arb" THEN Tail(todo["arb"]) ELSE todo["arb"])
        /\ todo'["poller"] = (IF p = "poller" THEN Tail(todo["poller"]) ELSE todo["poller"])
    BY <1>2, <1>3 DEF Producers
  <2>1. Distinct(todo["arb"]) /\ Distinct(todo["poller"])
    BY <1>1 DEF OnePlace
  <2>2. CASE p = "arb"
    BY <1>4, <1>5, <2>0, <2>1, <2>2 DEF ArbRows, PollerRows
  <2>3. CASE p = "poller"
    BY <1>4, <1>5, <2>0, <2>1, <2>3 DEF ArbRows, PollerRows
  <2> QED
    BY <1>7, <2>2, <2>3
<1>9. ArbRows \cup PollerRows = {h} \cup ArbRows' \cup PollerRows' /\ h \notin ArbRows' \cup PollerRows' /\ Apart(ArbRows', PollerRows')
  <2>1. Apart(ArbRows, PollerRows)
    BY <1>1 DEF OnePlace
  <2> QED
    BY <1>7, <1>8, <2>1 DEF Apart
<1>10. closing = "open" /\ dispatcher \in {"recv", "count", "acquire"}
  BY <1>0, <1>1, <1>3 DEF Phases, LedgerTypeOK
<1>11. /\ Apart(ArbRows \cup PollerRows, ChanRows \cup HeldRows \cup inflight) /\ Distinct(ch)
       /\ Apart(ChanRows, HeldRows \cup inflight) /\ Apart(HeldRows, inflight)
  BY <1>1 DEF OnePlace
<1>12. Phases'
  <2>1. \A q \in announced' : todo'[q] # <<>>
    <3>1. \A q \in announced : q \in Producers /\ todo[q] # <<>>
      BY <1>1 DEF Phases, LedgerTypeOK
    <3> QED
      BY <1>2, <1>3, <3>1
  <2> QED
    BY <1>1, <1>2, <1>10, <2>1 DEF Phases, cancelled
<1>13. /\ todo' \in [Producers -> Seq(Ops)] /\ announced' \subseteq Producers
  BY <1>1, <1>2, <1>3, <1>4 DEF LedgerTypeOK
<1>14. Cardinality(announced') = Cardinality(announced) - 1 /\ Cardinality(announced) \in Nat
  BY <1>1, <1>2, AnnouncedFinite, FS_RemoveElement, FS_CardinalityType
<1>15. /\ queueDepth = Len(ch) + Cardinality(announced) + inHand
       /\ inHand \in {0, 1} /\ inHand' = inHand
  BY <1>1, <1>2 DEF GaugeCoversQueue, inHand
<1>16. CASE hasRoom /\ ch' = Append(ch, h) /\ UNCHANGED <<queueDepth, dropped>>
  <2>1. ChanRows' = ChanRows \cup {h} /\ ch' \in Seq(Ops) /\ Len(ch') = Len(ch) + 1
    BY <1>3, <1>4, <1>16, RangeAppend, SMTT(20) DEF ChanRows
  <2>2. h \notin ChanRows /\ h \notin HeldRows /\ h \notin inflight
    BY <1>9, <1>11 DEF Apart
  <2>3. Distinct(ch')
    BY <1>3, <1>4, <1>11, <1>16, <2>2, DistinctAppend DEF ChanRows
  <2>4. OnePlace'
    <3>1. Distinct(todo'["arb"]) /\ Distinct(todo'["poller"])
      BY <1>7, <1>8
    <3>2. Apart(ArbRows' \cup PollerRows', ChanRows' \cup HeldRows' \cup inflight') /\ Apart(ChanRows', HeldRows' \cup inflight')
          /\ Apart(HeldRows', inflight')
      BY <1>6, <1>9, <1>11, <2>1, <2>2 DEF Apart
    <3> QED
      BY <1>9, <2>3, <3>1, <3>2 DEF OnePlace, Apart
  <2>5. RowsDue' = RowsDue
    BY <1>6, <1>9, <2>1 DEF RowsDue
  <2>6. Healthy' => Healthy
    BY <1>2, <1>16 DEF Healthy, cancelled
  <2>7. RowsMeant' /\ Accounted'
    BY <1>1, <1>2, <2>5, <2>6, BooksKept
  <2>8. GaugeCoversQueue'
    BY <1>3, <1>14, <1>15, <1>16, <2>1, SMTT(20) DEF GaugeCoversQueue
  <2>9. Len(ch') <= LedgerCapacity
    BY <1>3, <1>16, <2>1, LedgerAssumption, SMTT(20) DEF hasRoom
  <2>10. LedgerTypeOK'
    BY <1>1, <1>2, <1>13, <1>16, <2>1, <2>9 DEF LedgerTypeOK
  <2> QED
    BY <1>12, <2>4, <2>7, <2>8, <2>10 DEF LedgerInv
<1>17. CASE ch' = ch /\ queueDepth' = queueDepth - 1 /\ dropped' = TRUE
  <2>1. ChanRows' = ChanRows
    BY <1>17 DEF ChanRows
  <2>2. OnePlace'
    <3>1. Distinct(todo'["arb"]) /\ Distinct(todo'["poller"])
      BY <1>7, <1>8
    <3>2. Apart(ArbRows' \cup PollerRows', ChanRows' \cup HeldRows' \cup inflight') /\ Apart(ChanRows', HeldRows' \cup inflight')
          /\ Apart(HeldRows', inflight')
      BY <1>6, <1>9, <1>11, <2>1 DEF Apart
    <3> QED
      BY <1>9, <1>11, <1>17, <3>1, <3>2 DEF OnePlace, Apart
  <2>3. RowsDue' \subseteq RowsDue
    BY <1>6, <1>9, <2>1 DEF RowsDue
  <2>4. RowsMeant'
    BY <1>1, <1>2, <2>3 DEF RowsMeant
  <2>5. Accounted'
    BY <1>17 DEF Accounted, Healthy
  <2>6. GaugeCoversQueue'
    BY <1>3, <1>14, <1>15, <1>17, SMTT(20) DEF GaugeCoversQueue
  <2>7. queueDepth' \in Int /\ dropped' \in BOOLEAN
    BY <1>1, <1>17, SMTT(20) DEF LedgerTypeOK
  <2>8. LedgerTypeOK'
    BY <1>1, <1>2, <1>13, <1>17, <2>7 DEF LedgerTypeOK
  <2> QED
    BY <1>12, <2>2, <2>4, <2>5, <2>6, <2>8 DEF LedgerInv
<1> QED
  BY <1>2, <1>16, <1>17

\* dispatch takes the oldest row of the channel; the gauge still counts it.
LEMMA ReceiveStep == LedgerInv /\ dispatchRecv => LedgerInv'
<1>0. SUFFICES ASSUME LedgerInv, dispatchRecv PROVE LedgerInv'
  OBVIOUS
<1> DEFINE h == Head(ch)
<1>1. LedgerTypeOK /\ OnePlace /\ RowsMeant /\ Phases /\ GaugeCoversQueue /\ Accounted
  BY <1>0 DEF LedgerInv
<1>2. /\ dispatcher = "recv" /\ ch # <<>> /\ hold' = <<h>> /\ ch' = Tail(ch) /\ queueDepth' = queueDepth
      /\ dispatcher' = "count"
      /\ UNCHANGED <<todo, announced, resolvedAs, submitted, dropped, inflight, closing>>
      /\ UNCHANGED <<bundles, inclusion_results, bundle_count, inclusion_count, dbFault>>
  BY <1>0 DEF dispatchRecv, producerVars, writerVars, tables
<1>3. ch \in Seq(Ops) /\ Len(ch) \in Nat /\ Len(ch) <= LedgerCapacity /\ Len(ch) >= 1
  BY <1>1, <1>2, SMTT(20) DEF LedgerTypeOK
<1>4. /\ Range(ch) = {h} \cup Range(Tail(ch)) /\ h \in Ops /\ Tail(ch) \in Seq(Ops) /\ Len(Tail(ch)) = Len(ch) - 1
  BY <1>2, <1>3, RangeTail, SMTT(20)
<1>5. Distinct(Tail(ch)) /\ h \notin Range(Tail(ch))
  <2>1. Distinct(ch)
    BY <1>1 DEF OnePlace
  <2> QED
    BY <1>2, <1>3, <2>1, DistinctTail
<1> HIDE DEF h
<1>6. ArbRows' = ArbRows /\ PollerRows' = PollerRows /\ inflight' = inflight /\ todo' = todo
  BY <1>2 DEF ArbRows, PollerRows
<1>7. hold' \in Seq(Ops) /\ Len(hold') = 1 /\ hold' # <<>> /\ HeldRows' = {h}
  <2>1. <<h>> \in Seq(Ops) /\ Len(<<h>>) = 1 /\ <<h>> # <<>> /\ Range(<<h>>) = {h}
    BY <1>4, SMTT(20) DEF Range
  <2> QED
    BY <1>2, <2>1 DEF HeldRows
<1>8. HeldRows = {}
  <2>1. hold = <<>> /\ hold \in Seq(Ops)
    BY <1>1, <1>2 DEF Phases, LedgerTypeOK
  <2> QED
    BY <2>1, NoRows DEF HeldRows
<1>9. ChanRows = {h} \cup ChanRows' /\ h \notin ChanRows'
  BY <1>2, <1>4, <1>5 DEF ChanRows
<1>10. OnePlace'
  <2>1. /\ Apart(ArbRows, PollerRows) /\ Apart(ArbRows \cup PollerRows, ChanRows \cup HeldRows \cup inflight)
        /\ Apart(ChanRows, HeldRows \cup inflight) /\ Distinct(todo["arb"]) /\ Distinct(todo["poller"])
    BY <1>1 DEF OnePlace
  <2>2. /\ Apart(ArbRows', PollerRows') /\ Apart(ArbRows' \cup PollerRows', ChanRows' \cup HeldRows' \cup inflight')
        /\ Apart(ChanRows', HeldRows' \cup inflight') /\ Apart(HeldRows', inflight')
    BY <1>6, <1>7, <1>8, <1>9, <2>1 DEF Apart
  <2>3. Distinct(ch') /\ Distinct(todo'["arb"]) /\ Distinct(todo'["poller"])
    BY <1>2, <1>5, <2>1
  <2> QED
    BY <2>2, <2>3 DEF OnePlace, Apart
<1>11. RowsDue' = RowsDue
  BY <1>6, <1>7, <1>8, <1>9 DEF RowsDue
<1>12. Healthy' => Healthy
  BY <1>2 DEF Healthy, cancelled
<1>13. RowsMeant' /\ Accounted'
  BY <1>1, <1>2, <1>11, <1>12, BooksKept
<1>14. Phases'
  BY <1>1, <1>2, <1>7 DEF Phases, cancelled
<1>15. GaugeCoversQueue'
  <2>1. Cardinality(announced) \in Nat /\ queueDepth = Len(ch) + Cardinality(announced) + inHand
    BY <1>1, AnnouncedFinite, FS_CardinalityType DEF GaugeCoversQueue
  <2>2. inHand = 0 /\ inHand' = 1
    BY <1>2 DEF inHand
  <2> QED
    BY <1>2, <1>3, <1>4, <2>1, <2>2, SMTT(20) DEF GaugeCoversQueue
<1>16. ch' \in Seq(Ops) /\ Len(ch') <= LedgerCapacity
  BY <1>2, <1>3, <1>4, LedgerAssumption, SMTT(20)
<1>17. LedgerTypeOK'
  BY <1>1, <1>2, <1>7, <1>16, SMTT(20) DEF LedgerTypeOK
<1> QED
  BY <1>10, <1>13, <1>14, <1>15, <1>17 DEF LedgerInv

\* The gauge falls for the row in dispatch's hand.
LEMMA CountStep == LedgerInv /\ dispatchCount => LedgerInv'
<1>0. SUFFICES ASSUME LedgerInv, dispatchCount PROVE LedgerInv'
  OBVIOUS
<1>1. LedgerTypeOK /\ OnePlace /\ RowsMeant /\ Phases /\ GaugeCoversQueue /\ Accounted
  BY <1>0 DEF LedgerInv
<1>2. /\ dispatcher = "count" /\ dispatcher' = "acquire" /\ queueDepth' = queueDepth - 1
      /\ UNCHANGED <<todo, announced, resolvedAs, submitted, ch, dropped, hold, inflight, closing>>
      /\ UNCHANGED <<bundles, inclusion_results, bundle_count, inclusion_count, dbFault>>
  BY <1>0 DEF dispatchCount, producerVars, writerVars, tables
<1>3. LedgerTypeOK'
  BY <1>1, <1>2, SMTT(20) DEF LedgerTypeOK
<1>4. OnePlace' /\ RowsDue' = RowsDue
  BY <1>1, <1>2, SameRows
<1>5. Healthy' => Healthy
  BY <1>2 DEF Healthy, cancelled
<1>6. RowsMeant' /\ Accounted'
  BY <1>1, <1>2, <1>4, <1>5, BooksKept
<1>7. Phases'
  BY <1>1, <1>2 DEF Phases, cancelled
<1>8. GaugeCoversQueue'
  <2>1. /\ Len(ch) \in Nat /\ Cardinality(announced) \in Nat
        /\ queueDepth = Len(ch) + Cardinality(announced) + inHand
    BY <1>1, AnnouncedFinite, FS_CardinalityType, SMTT(20) DEF LedgerTypeOK, GaugeCoversQueue
  <2>2. inHand = 1 /\ inHand' = 0
    BY <1>2 DEF inHand
  <2> QED
    BY <1>2, <2>1, <2>2, SMTT(20) DEF GaugeCoversQueue
<1> QED
  BY <1>3, <1>4, <1>6, <1>7, <1>8 DEF LedgerInv

\* The row in dispatch's hand goes to a writer, or is abandoned when the context is
\* cancelled while it waits for a slot.
LEMMA HandStep == LedgerInv /\ (dispatchSpawn \/ dispatchCancelled) => LedgerInv'
<1>0. SUFFICES ASSUME LedgerInv, dispatchSpawn \/ dispatchCancelled PROVE LedgerInv'
  OBVIOUS
<1> DEFINE h == hold[1]
<1>1. LedgerTypeOK /\ OnePlace /\ RowsMeant /\ Phases /\ GaugeCoversQueue /\ Accounted
  BY <1>0 DEF LedgerInv
<1>2. /\ dispatcher = "acquire" /\ hold' = <<>>
      /\ UNCHANGED <<todo, announced, resolvedAs, submitted, ch, queueDepth, dropped, closing>>
      /\ UNCHANGED <<bundles, inclusion_results, bundle_count, inclusion_count, dbFault>>
      /\ \/ slotFree /\ inflight' = inflight \cup {h} /\ dispatcher' = "recv"
         \/ cancelled /\ inflight' = inflight /\ dispatcher' = "wait"
  BY <1>0 DEF dispatchSpawn, dispatchCancelled, producerVars, chVars, writerVars, tables
<1>3. hold \in Seq(Ops) /\ Len(hold) = 1 /\ h \in Ops
  <2>1. hold \in Seq(Ops) /\ Len(hold) <= 1 /\ hold # <<>>
    BY <1>1, <1>2 DEF LedgerTypeOK, Phases
  <2>2. Len(hold) = 1
    <3>1. Len(hold) \in Nat /\ Len(hold) # 0
      BY <2>1, EmptySeq, LenProperties
    <3> QED
      BY <2>1, <3>1, SMTT(20)
  <2> QED
    BY <2>1, <2>2, SMTT(20)
<1>4. HeldRows = {h}
  <2>1. DOMAIN hold = {1}
    BY <1>3, SMTT(20)
  <2> QED
    BY <2>1 DEF HeldRows, Range
<1> HIDE DEF h
<1>5. hold' \in Seq(Ops) /\ Len(hold') = 0 /\ HeldRows' = {}
  <2>1. <<>> \in Seq(Ops) /\ Len(<<>>) = 0
    BY SMTT(20)
  <2> QED
    BY <1>2, <2>1, NoElements DEF HeldRows
<1>6. ArbRows' = ArbRows /\ PollerRows' = PollerRows /\ ChanRows' = ChanRows /\ todo' = todo /\ ch' = ch
  BY <1>2 DEF ArbRows, PollerRows, ChanRows
<1>7. /\ Apart(ArbRows, PollerRows) /\ Apart(ArbRows \cup PollerRows, ChanRows \cup HeldRows \cup inflight)
      /\ Apart(ChanRows, HeldRows \cup inflight) /\ Apart(HeldRows, inflight)
      /\ Distinct(todo["arb"]) /\ Distinct(todo["poller"]) /\ Distinct(ch)
  BY <1>1 DEF OnePlace
<1>8. OnePlace'
  <2>1. /\ Apart(ArbRows', PollerRows') /\ Apart(ArbRows' \cup PollerRows', ChanRows' \cup HeldRows' \cup inflight')
        /\ Apart(ChanRows', HeldRows' \cup inflight') /\ Apart(HeldRows', inflight')
    BY <1>2, <1>4, <1>5, <1>6, <1>7 DEF Apart
  <2> QED
    BY <1>6, <1>7, <2>1 DEF OnePlace, Apart
<1>9. GaugeCoversQueue'
  BY <1>1, <1>2 DEF GaugeCoversQueue, inHand
<1>10. CASE slotFree /\ inflight' = inflight \cup {h} /\ dispatcher' = "recv"
  <2>1. RowsDue' = RowsDue
    BY <1>4, <1>5, <1>6, <1>10 DEF RowsDue
  <2>2. RowsMeant' /\ Accounted'
    <3>1. Healthy' => Healthy
      BY <1>2 DEF Healthy, cancelled
    <3> QED
      BY <1>1, <1>2, <2>1, <3>1, BooksKept
  <2>3. IsFiniteSet(inflight) /\ h \notin inflight
    BY <1>1, <1>4, <1>7 DEF Phases, Apart
  <2>4. /\ IsFiniteSet(inflight') /\ Cardinality(inflight') = Cardinality(inflight) + 1
        /\ Cardinality(inflight) \in Nat
    BY <1>10, <2>3, FS_AddElement, FS_CardinalityType
  <2>5. Cardinality(inflight') <= LedgerMaxInflight /\ inflight' \subseteq Ops
    BY <1>1, <1>3, <1>10, <2>4, LedgerAssumption, SMTT(20) DEF slotFree, LedgerTypeOK
  <2>6. Phases'
    BY <1>1, <1>2, <1>10, <2>4 DEF Phases, cancelled
  <2>7. LedgerTypeOK'
    BY <1>1, <1>2, <1>5, <1>10, <2>5, SMTT(20) DEF LedgerTypeOK
  <2> QED
    BY <1>8, <1>9, <2>2, <2>6, <2>7 DEF LedgerInv
<1>11. CASE cancelled /\ inflight' = inflight /\ dispatcher' = "wait"
  <2>1. RowsDue' \subseteq RowsDue
    BY <1>5, <1>6, <1>11 DEF RowsDue
  <2>2. RowsMeant'
    BY <1>1, <1>2, <2>1 DEF RowsMeant
  <2>3. Accounted'
    BY <1>2, <1>11 DEF Accounted, Healthy, cancelled
  <2>4. Phases'
    BY <1>1, <1>2, <1>11 DEF Phases, cancelled
  <2>5. LedgerTypeOK'
    BY <1>1, <1>2, <1>5, <1>11, SMTT(20) DEF LedgerTypeOK
  <2> QED
    BY <1>8, <1>9, <2>2, <2>3, <2>4, <2>5 DEF LedgerInv
<1> QED
  BY <1>2, <1>10, <1>11

\* The bundles counted so far are finitely many.
LEMMA CountedFinite ==
    RowsMeant => IsFiniteSet(CountedSubmitted) /\ IsFiniteSet(CountedLanded)
<1>0. SUFFICES ASSUME RowsMeant PROVE IsFiniteSet(CountedSubmitted) /\ IsFiniteSet(CountedLanded)
  OBVIOUS
<1>1. CountedSubmitted \subseteq submitted /\ CountedLanded \subseteq submitted
  BY <1>0 DEF RowsMeant, CountedSubmitted, CountedLanded
<1>2. IsFiniteSet(submitted)
  BY <1>0 DEF RowsMeant
<1> QED
  BY <1>1, <1>2, FS_Subset

\* A row is known by its three fields.
LEMMA RowIs ==
    ASSUME NEW op \in Ops, NEW b, NEW r
    PROVE  /\ op = UpsertPnLDaily(b, r) <=> op.kind = "upsert_pnl_daily" /\ op.bundle = b /\ op.row = r
           /\ op = InsertBundle(b) => op.kind = "insert_bundle" /\ op.bundle = b
BY SMTT(20) DEF Ops, UpsertPnLDaily, InsertBundle

\* A roll-up row that is no longer due adds its bundle to those its counter counts.
LEMMA RollUpStep ==
    ASSUME RowsMeant, NEW op \in RowsDue, op \in Ops, op.kind = "upsert_pnl_daily",
           op.bundle \in submitted, op.row = "landed" => resolvedAs[op.bundle] = "landed",
           RowsDue' = RowsDue \ {op}, UNCHANGED <<submitted, resolvedAs>>
    PROVE  /\ Cardinality(CountedSubmitted') = Cardinality(CountedSubmitted) + (IF op.row = "submitted" THEN 1 ELSE 0)
           /\ Cardinality(CountedLanded') = Cardinality(CountedLanded) + (IF op.row = "landed" THEN 1 ELSE 0)
<1>1. \A b, r : UpsertPnLDaily(b, r) \in RowsDue' <=>
                    UpsertPnLDaily(b, r) \in RowsDue /\ ~(op.bundle = b /\ op.row = r)
  BY RowIs, SMTT(20)
<1>2. /\ UpsertPnLDaily(op.bundle, op.row) \in RowsDue
      /\ op.bundle \in LedgerBundles /\ op.row \in {"submitted", "landed", "missed"}
  BY RowIs, SMTT(20) DEF Ops
<1>3. /\ IsFiniteSet(CountedSubmitted) /\ IsFiniteSet(CountedLanded)
      /\ Cardinality(CountedSubmitted) \in Nat /\ Cardinality(CountedLanded) \in Nat
  BY CountedFinite, FS_CardinalityType
<1>4. CASE op.row = "submitted"
  <2>1. CountedSubmitted' = CountedSubmitted \cup {op.bundle} /\ op.bundle \notin CountedSubmitted
    BY <1>1, <1>2, <1>4 DEF CountedSubmitted
  <2>2. CountedLanded' = CountedLanded
    BY <1>1, <1>4 DEF CountedLanded
  <2>3. Cardinality(CountedSubmitted') = Cardinality(CountedSubmitted) + 1
    BY <1>3, <2>1, FS_AddElement
  <2> QED
    BY <1>3, <1>4, <2>2, <2>3, SMTT(20)
<1>5. CASE op.row = "landed"
  <2>1. CountedLanded' = CountedLanded \cup {op.bundle} /\ op.bundle \notin CountedLanded
    BY <1>1, <1>2, <1>5 DEF CountedLanded
  <2>2. CountedSubmitted' = CountedSubmitted
    BY <1>1, <1>5 DEF CountedSubmitted
  <2>3. Cardinality(CountedLanded') = Cardinality(CountedLanded) + 1
    BY <1>3, <2>1, FS_AddElement
  <2> QED
    BY <1>3, <1>5, <2>2, <2>3, SMTT(20)
<1>6. CASE op.row = "missed"
  <2>1. CountedLanded' = CountedLanded /\ CountedSubmitted' = CountedSubmitted
    BY <1>1, <1>6 DEF CountedSubmitted, CountedLanded
  <2> QED
    BY <1>3, <1>6, <2>1, SMTT(20)
<1> QED
  BY <1>2, <1>4, <1>5, <1>6

\* A writer finishes: its row leaves the rows due exactly when the table it is for
\* has counted it, unless a fault is on record.
LEMMA WriteStep ==
    \A op \in inflight : LedgerInv /\ runOne(op) => LedgerInv'
<1>0. SUFFICES ASSUME NEW op, op \in inflight, LedgerInv, runOne(op) PROVE LedgerInv'
  OBVIOUS
<1>1. LedgerTypeOK /\ OnePlace /\ RowsMeant /\ Phases /\ GaugeCoversQueue /\ Accounted
  BY <1>0 DEF LedgerInv
<1>2. /\ inflight' = inflight \ {op}
      /\ UNCHANGED <<todo, announced, resolvedAs, submitted, ch, queueDepth, dropped, dispatcher, hold, closing>>
  BY <1>0 DEF runOne, producerVars, chVars
<1>3. op \in Ops /\ op \in inflight /\ op.bundle \in LedgerBundles /\ op.row \in {"submitted", "landed", "missed"}
  BY <1>0, <1>1 DEF LedgerTypeOK, Ops
<1>4. /\ ArbRows' = ArbRows /\ PollerRows' = PollerRows /\ ChanRows' = ChanRows /\ HeldRows' = HeldRows /\ todo' = todo /\ ch' = ch
  BY <1>2 DEF ArbRows, PollerRows, ChanRows, HeldRows
<1>5. /\ Apart(ArbRows, PollerRows) /\ Apart(ArbRows \cup PollerRows, ChanRows \cup HeldRows \cup inflight)
      /\ Apart(ChanRows, HeldRows \cup inflight) /\ Apart(HeldRows, inflight)
      /\ Distinct(todo["arb"]) /\ Distinct(todo["poller"]) /\ Distinct(ch)
  BY <1>1 DEF OnePlace
<1>6. RowsDue' = RowsDue \ {op} /\ op \in RowsDue
  BY <1>2, <1>3, <1>4, <1>5 DEF RowsDue, Apart
<1>7. OnePlace'
  <2>1. /\ Apart(ArbRows', PollerRows') /\ Apart(ArbRows' \cup PollerRows', ChanRows' \cup HeldRows' \cup inflight')
        /\ Apart(ChanRows', HeldRows' \cup inflight') /\ Apart(HeldRows', inflight')
    BY <1>2, <1>4, <1>5 DEF Apart
  <2> QED
    BY <1>4, <1>5, <2>1 DEF OnePlace, Apart
<1>8. GaugeCoversQueue'
  BY <1>1, <1>2 DEF GaugeCoversQueue, inHand
<1>9. IsFiniteSet(inflight') /\ Cardinality(inflight') <= LedgerMaxInflight /\ inflight' \subseteq Ops
  <2>1. IsFiniteSet(inflight) /\ Cardinality(inflight) <= LedgerMaxInflight /\ inflight \subseteq Ops
    BY <1>1 DEF Phases, LedgerTypeOK
  <2>2. /\ IsFiniteSet(inflight') /\ Cardinality(inflight') = Cardinality(inflight) - 1
        /\ Cardinality(inflight) \in Nat
    BY <1>2, <1>3, <2>1, FS_RemoveElement, FS_CardinalityType
  <2> QED
    BY <1>2, <2>1, <2>2, LedgerAssumption, SMTT(20)
<1>10. Phases'
  BY <1>1, <1>2, <1>3, <1>9 DEF Phases, cancelled
<1>11. op.bundle \in submitted /\ (op.row = "landed" => resolvedAs[op.bundle] = "landed")
  BY <1>1, <1>6 DEF RowsMeant
<1>12. ASSUME bundles' \subseteq submitted PROVE RowsMeant'
  BY <1>1, <1>2, <1>6, <1>12 DEF RowsMeant
<1>13. /\ bundles \subseteq submitted /\ submitted \subseteq LedgerBundles
       /\ bundle_count \in Nat /\ inclusion_count \in Nat
       /\ inclusion_results \in [LedgerBundles -> {"none", "submitted", "landed", "missed"}]
       /\ dbFault \in BOOLEAN
  BY <1>1 DEF RowsMeant, LedgerTypeOK
<1>14. ASSUME bundles' \subseteq submitted, bundle_count' \in Nat, inclusion_count' \in Nat, dbFault' \in BOOLEAN,
              inclusion_results' \in [LedgerBundles -> {"none", "submitted", "landed", "missed"}]
       PROVE  LedgerTypeOK'
  <2>1. bundles' \subseteq LedgerBundles
    BY <1>13, <1>14
  <2> QED
    BY <1>1, <1>2, <1>9, <1>14, <2>1 DEF LedgerTypeOK
<1>15. \A b, r : /\ UpsertPnLDaily(b, r) \in RowsDue' <=>
                        /\ UpsertPnLDaily(b, r) \in RowsDue
                        /\ ~(op.kind = "upsert_pnl_daily" /\ op.bundle = b /\ op.row = r)
                 /\ InsertBundle(b) \in RowsDue =>
                        InsertBundle(b) \in RowsDue' \/ (op.kind = "insert_bundle" /\ op.bundle = b)
  BY <1>3, <1>6, RowIs, SMTT(20)
<1>16. ASSUME Healthy' => Healthy, bundles \subseteq bundles', op.kind # "upsert_pnl_daily",
              op.kind = "insert_bundle" => op.bundle \in bundles',
              UNCHANGED <<bundle_count, inclusion_count>>
       PROVE  Accounted'
  <2>1. CountedSubmitted' = CountedSubmitted /\ CountedLanded' = CountedLanded
    BY <1>2, <1>15, <1>16 DEF CountedSubmitted, CountedLanded
  <2>2. Healthy => \A b \in submitted : b \in bundles' \/ InsertBundle(b) \in RowsDue'
    BY <1>1, <1>15, <1>16 DEF Accounted
  <2> QED
    BY <1>1, <1>2, <1>16, <2>1, <2>2 DEF Accounted
<1>17. CASE closing # "closed" /\ accepts(op) /\ execute(op) /\ dbFault' \in {dbFault, TRUE}
  <2>0. dbFault' = dbFault \/ dbFault' = TRUE
    BY <1>17
  <2>1. dbFault' \in BOOLEAN /\ (dbFault => dbFault')
    BY <1>13, <2>0
  <2>2. Healthy' => Healthy
    BY <1>2, <2>1 DEF Healthy, cancelled
  <2>3. CASE op.kind = "insert_bundle" /\ insertBundleInner(op.bundle)
    <3>1. /\ bundles' = bundles \cup {op.bundle} /\ UNCHANGED <<inclusion_results, bundle_count, inclusion_count>>
          /\ op.kind = "insert_bundle"
      BY <2>3 DEF insertBundleInner
    <3>2. bundles' \subseteq submitted
      BY <1>11, <1>13, <3>1
    <3>3. LedgerTypeOK'
      BY <1>13, <1>14, <2>1, <3>1, <3>2
    <3>4. Accounted'
      BY <1>16, <2>2, <3>1
    <3> QED
      BY <1>7, <1>8, <1>10, <1>12, <3>2, <3>3, <3>4 DEF LedgerInv
  <2>4. CASE op.kind = "insert_inclusion" /\ insertInclusionInner(op.bundle, op.row)
    <3>1. /\ inclusion_results' = [inclusion_results EXCEPT ![op.bundle] = op.row]
          /\ UNCHANGED <<bundles, bundle_count, inclusion_count>> /\ op.kind = "insert_inclusion"
      BY <2>4 DEF insertInclusionInner
    <3>2. inclusion_results' \in [LedgerBundles -> {"none", "submitted", "landed", "missed"}]
      BY <1>3, <1>13, <3>1
    <3>3. LedgerTypeOK'
      BY <1>13, <1>14, <2>1, <3>1, <3>2
    <3>4. Accounted'
      BY <1>16, <2>2, <3>1
    <3> QED
      BY <1>7, <1>8, <1>10, <1>12, <1>13, <3>1, <3>3, <3>4 DEF LedgerInv
  <2>5. CASE op.kind = "upsert_pnl_daily" /\ upsertPnLDailyInner(op.row)
    <3>1. /\ bundle_count' = bundle_count + (IF op.row = "submitted" THEN 1 ELSE 0)
          /\ inclusion_count' = inclusion_count + (IF op.row = "landed" THEN 1 ELSE 0)
          /\ UNCHANGED <<bundles, inclusion_results>> /\ op.kind = "upsert_pnl_daily"
      BY <2>5 DEF upsertPnLDailyInner
    <3>2. LedgerTypeOK'
      BY <1>13, <1>14, <2>1, <3>1, SMTT(20)
    <3>3. /\ Cardinality(CountedSubmitted') = Cardinality(CountedSubmitted) + (IF op.row = "submitted" THEN 1 ELSE 0)
          /\ Cardinality(CountedLanded') = Cardinality(CountedLanded) + (IF op.row = "landed" THEN 1 ELSE 0)
      BY <1>1, <1>2, <1>3, <1>6, <1>11, <3>1, RollUpStep
    <3>4. Healthy => \A b \in submitted : b \in bundles' \/ InsertBundle(b) \in RowsDue'
      BY <1>1, <1>15, <3>1 DEF Accounted
    <3>5. Accounted'
      <4>1. Healthy => bundle_count = Cardinality(CountedSubmitted) /\ inclusion_count = Cardinality(CountedLanded)
        BY <1>1 DEF Accounted
      <4>2. Healthy => bundle_count' = Cardinality(CountedSubmitted') /\ inclusion_count' = Cardinality(CountedLanded')
        BY <3>1, <3>3, <4>1
      <4> QED
        BY <1>2, <2>2, <3>4, <4>2 DEF Accounted
    <3> QED
      BY <1>7, <1>8, <1>10, <1>12, <1>13, <3>1, <3>2, <3>5 DEF LedgerInv
  <2> QED
    BY <1>17, <2>3, <2>4, <2>5 DEF execute
<1>18. CASE ~accepts(op) /\ UNCHANGED <<tables, dbFault>>
  <2>1. op.kind = "insert_inclusion" /\ UNCHANGED <<bundles, inclusion_results, bundle_count, inclusion_count, dbFault>>
    BY <1>18 DEF accepts, tables
  <2>2. Healthy' => Healthy
    BY <1>2, <2>1 DEF Healthy, cancelled
  <2>3. LedgerTypeOK'
    BY <1>13, <1>14, <2>1
  <2>4. Accounted'
    BY <1>16, <2>1, <2>2
  <2> QED
    BY <1>7, <1>8, <1>10, <1>12, <1>13, <2>1, <2>3, <2>4 DEF LedgerInv
<1>19. CASE dbFault' = TRUE /\ UNCHANGED tables
  <2>1. UNCHANGED <<bundles, inclusion_results, bundle_count, inclusion_count>> /\ dbFault' \in BOOLEAN
    BY <1>19 DEF tables
  <2>2. LedgerTypeOK'
    BY <1>13, <1>14, <2>1
  <2>3. Accounted'
    BY <1>19 DEF Accounted, Healthy
  <2> QED
    BY <1>7, <1>8, <1>10, <1>12, <1>13, <2>1, <2>2, <2>3 DEF LedgerInv
<1> QED
  BY <1>0, <1>17, <1>18, <1>19 DEF runOne

\* A producer that had nothing left to enqueue gets new rows, none of them on its
\* way already.
LEMMA RowsAdded ==
    ASSUME LedgerTypeOK, OnePlace, NEW p \in Producers, NEW s \in Seq(Ops), Distinct(s),
           todo[p] = <<>>, todo' = [todo EXCEPT ![p] = s], \A x \in Range(s) : x \notin RowsDue,
           UNCHANGED <<ch, hold, inflight>>
    PROVE  OnePlace' /\ RowsDue' = RowsDue \cup Range(s) /\ todo' \in [Producers -> Seq(Ops)]
<1>1. todo \in [Producers -> Seq(Ops)] /\ todo' \in [Producers -> Seq(Ops)]
  BY DEF LedgerTypeOK
<1>2. /\ todo'["arb"] = (IF p = "arb" THEN s ELSE todo["arb"])
      /\ todo'["poller"] = (IF p = "poller" THEN s ELSE todo["poller"])
      /\ p = "arb" \/ p = "poller"
  BY <1>1 DEF Producers
<1>3. ChanRows' = ChanRows /\ HeldRows' = HeldRows /\ inflight' = inflight /\ ch' = ch
  BY DEF ChanRows, HeldRows
<1>4. Range(todo[p]) = {}
  BY <1>1, NoRows
<1>5. /\ ArbRows' = (IF p = "arb" THEN Range(s) ELSE ArbRows) /\ (p = "arb" => ArbRows = {})
      /\ PollerRows' = (IF p = "poller" THEN Range(s) ELSE PollerRows) /\ (p = "poller" => PollerRows = {})
  BY <1>2, <1>4, SMTT(20) DEF ArbRows, PollerRows
<1>6. /\ Apart(ArbRows, PollerRows) /\ Apart(ArbRows \cup PollerRows, ChanRows \cup HeldRows \cup inflight)
      /\ Apart(ChanRows, HeldRows \cup inflight) /\ Apart(HeldRows, inflight)
      /\ Distinct(todo["arb"]) /\ Distinct(todo["poller"]) /\ Distinct(ch)
  BY DEF OnePlace
<1>7. Distinct(todo'["arb"]) /\ Distinct(todo'["poller"]) /\ Distinct(ch')
  BY <1>2, <1>3, <1>6
<1>8. /\ Apart(ArbRows', PollerRows') /\ Apart(ArbRows' \cup PollerRows', ChanRows' \cup HeldRows' \cup inflight')
      /\ Apart(ChanRows', HeldRows' \cup inflight') /\ Apart(HeldRows', inflight')
  BY <1>2, <1>3, <1>5, <1>6 DEF Apart, RowsDue
<1>9. RowsDue' = RowsDue \cup Range(s)
  BY <1>2, <1>3, <1>5 DEF RowsDue
<1> QED
  BY <1>1, <1>7, <1>8, <1>9 DEF OnePlace, Apart

\* processArb submits a bundle: three new rows are due.
LEMMA SubmitStep ==
    \A b \in LedgerBundles : LedgerInv /\ processArb(b) => LedgerInv'
<1>0. SUFFICES ASSUME NEW b, b \in LedgerBundles, LedgerInv, processArb(b) PROVE LedgerInv'
  OBVIOUS
<1> DEFINE i == InsertBundle(b)
           j == InsertInclusion(b, "submitted")
           k == UpsertPnLDaily(b, "submitted")
           s == <<i, j, k>>
<1>1. LedgerTypeOK /\ OnePlace /\ RowsMeant /\ Phases /\ GaugeCoversQueue /\ Accounted
  BY <1>0 DEF LedgerInv
<1>2. /\ closing = "open" /\ todo["arb"] = <<>> /\ b \notin submitted /\ submitted' = submitted \cup {b}
      /\ todo' = [todo EXCEPT !["arb"] = s]
      /\ UNCHANGED <<announced, resolvedAs, ch, queueDepth, dropped, dispatcher, hold, inflight, closing>>
      /\ UNCHANGED <<bundles, inclusion_results, bundle_count, inclusion_count, dbFault>>
  BY <1>0 DEF processArb, chVars, writerVars, tables
<1>3. /\ i \in Ops /\ j \in Ops /\ k \in Ops /\ i # j /\ i # k /\ j # k
      /\ i.bundle = b /\ j.bundle = b /\ k.bundle = b
      /\ i.row = "submitted" /\ j.row = "submitted" /\ k.row = "submitted"
  BY <1>0 DEF Ops, InsertBundle, InsertInclusion, UpsertPnLDaily
<1> HIDE DEF i, j, k
<1>4. s \in Seq(Ops) /\ DOMAIN s = {1, 2, 3} /\ s[1] = i /\ s[2] = j /\ s[3] = k
  BY <1>3, SMTT(20)
<1>5. Range(s) = {i, j, k} /\ Distinct(s)
  BY <1>3, <1>4 DEF Range, Distinct
<1>6. s # <<>>
  BY <1>3
<1> HIDE DEF s
<1>7. \A x \in Range(s) : x \notin RowsDue
  BY <1>1, <1>2, <1>3, <1>5 DEF RowsMeant
<1>8. OnePlace' /\ RowsDue' = RowsDue \cup {i, j, k} /\ todo' \in [Producers -> Seq(Ops)]
  <2>1. "arb" \in Producers
    BY DEF Producers
  <2> QED
    BY <1>1, <1>2, <1>4, <1>5, <1>7, <2>1, RowsAdded
<1>9. /\ \A op \in RowsDue : op.bundle \in submitted
      /\ \A x, r : (UpsertPnLDaily(x, r) \in RowsDue' <=> UpsertPnLDaily(x, r) \in RowsDue \/ (x = b /\ r = "submitted"))
  <2>1. \A op \in RowsDue : op.bundle \in submitted
    BY <1>1 DEF RowsMeant
  <2>2. \A x, r : UpsertPnLDaily(x, r).bundle = x /\ UpsertPnLDaily(x, r).row = r
                  /\ UpsertPnLDaily(x, r).kind = "upsert_pnl_daily"
    BY DEF UpsertPnLDaily
  <2>3. i.kind # "upsert_pnl_daily" /\ j.kind # "upsert_pnl_daily"
    BY DEF i, j, InsertBundle, InsertInclusion
  <2>4. ASSUME NEW x, NEW r
        PROVE  UpsertPnLDaily(x, r) \in RowsDue' <=> UpsertPnLDaily(x, r) \in RowsDue \/ (x = b /\ r = "submitted")
    <3>1. UpsertPnLDaily(x, r) = k <=> x = b /\ r = "submitted"
      <4>1. UpsertPnLDaily(x, r) = k => x = b /\ r = "submitted"
        BY <1>3, <2>2, SMTT(20)
      <4>2. x = b /\ r = "submitted" => UpsertPnLDaily(x, r) = k
        BY DEF k
      <4> QED
        BY <4>1, <4>2
    <3>2. UpsertPnLDaily(x, r) # i /\ UpsertPnLDaily(x, r) # j
      BY <2>2, <2>3, SMTT(20)
    <3> QED
      BY <1>8, <3>1, <3>2
  <2> QED
    BY <2>1, <2>4
<1>10. RowsMeant'
  <2>1. IsFiniteSet(submitted')
    BY <1>1, <1>2, FS_AddElement DEF RowsMeant
  <2>2. ASSUME NEW op \in RowsDue'
        PROVE  op.bundle \in submitted' /\ (op.row \in {"landed", "missed"} => resolvedAs'[op.bundle] = op.row)
    <3>1. CASE op \in RowsDue
      BY <1>1, <1>2, <3>1 DEF RowsMeant
    <3>2. CASE op \in {i, j, k}
      BY <1>2, <1>3, <3>2
    <3> QED
      BY <1>8, <3>1, <3>2
  <2> QED
    BY <1>1, <1>2, <2>1, <2>2 DEF RowsMeant
<1>11. Phases'
  <2>1. \A q \in announced' : todo'[q] # <<>>
    <3>1. \A q \in announced : q \in Producers /\ todo[q] # <<>>
      BY <1>1 DEF Phases, LedgerTypeOK
    <3>2. todo \in [Producers -> Seq(Ops)]
      BY <1>1 DEF LedgerTypeOK
    <3> QED
      BY <1>2, <1>6, <3>1, <3>2
  <2> QED
    BY <1>1, <1>2, <2>1 DEF Phases, cancelled
<1>12. GaugeCoversQueue'
  BY <1>1, <1>2 DEF GaugeCoversQueue, inHand
<1>13. LedgerTypeOK'
  BY <1>0, <1>1, <1>2, <1>8 DEF LedgerTypeOK
<1>14. Accounted'
  <2>1. CountedSubmitted' = CountedSubmitted
    BY <1>2, <1>9, SMTT(20) DEF CountedSubmitted
  <2>2. CountedLanded' = CountedLanded
    BY <1>2, <1>9 DEF CountedLanded
  <2>3. Healthy' => Healthy
    BY <1>2 DEF Healthy, cancelled
  <2>4. Healthy => \A x \in submitted' : x \in bundles \/ InsertBundle(x) \in RowsDue'
    BY <1>1, <1>2, <1>8 DEF Accounted, i
  <2> QED
    BY <1>1, <1>2, <2>1, <2>2, <2>3, <2>4 DEF Accounted
<1> QED
  BY <1>8, <1>10, <1>11, <1>12, <1>13, <1>14 DEF LedgerInv

\* The poller settles a bundle: its outcome row, and the roll-up of one that landed,
\* are due.
LEMMA SettleStep ==
    \A b \in LedgerBundles : \A o \in {"landed", "missed"} : LedgerInv /\ resolveInclusionRows(b, o) => LedgerInv'
<1>0. SUFFICES ASSUME NEW b, NEW o, b \in LedgerBundles, o \in {"landed", "missed"},
                      LedgerInv, resolveInclusionRows(b, o)
               PROVE  LedgerInv'
  OBVIOUS
<1> DEFINE j == InsertInclusion(b, o)
           k == UpsertPnLDaily(b, o)
           s == <<j>> \o IF o = "landed" THEN <<k>> ELSE <<>>
<1>1. LedgerTypeOK /\ OnePlace /\ RowsMeant /\ Phases /\ GaugeCoversQueue /\ Accounted
  BY <1>0 DEF LedgerInv
<1>2. /\ closing = "open" /\ todo["poller"] = <<>> /\ b \in submitted /\ resolvedAs[b] = "no"
      /\ resolvedAs' = [resolvedAs EXCEPT ![b] = o]
      /\ todo' = [todo EXCEPT !["poller"] = s]
      /\ UNCHANGED <<announced, submitted, ch, queueDepth, dropped, dispatcher, hold, inflight, closing>>
      /\ UNCHANGED <<bundles, inclusion_results, bundle_count, inclusion_count, dbFault>>
  BY <1>0 DEF resolveInclusionRows, chVars, writerVars, tables
<1>3. /\ j \in Ops /\ k \in Ops /\ j # k /\ j.bundle = b /\ k.bundle = b /\ j.row = o /\ k.row = o
      /\ j.kind = "insert_inclusion"
  BY <1>0 DEF Ops, InsertInclusion, UpsertPnLDaily
<1>r. resolvedAs \in [LedgerBundles -> {"no", "landed", "missed"}] /\ o \in {"landed", "missed"} /\ b \in LedgerBundles
  BY <1>0, <1>1 DEF LedgerTypeOK
<1> HIDE DEF j, k
<1>4. s \in Seq(Ops) /\ s # <<>> /\ Distinct(s) /\ Range(s) = IF o = "landed" THEN {j, k} ELSE {j}
  <2>1. CASE o = "landed"
    <3>0. s = <<j>> \o <<k>>
      BY <2>1
    <3>1. s \in Seq(Ops) /\ Len(s) = 2 /\ s[1] = j /\ s[2] = k
      BY <1>3, <3>0, SMTT(20)
    <3> HIDE DEF s
    <3>2. DOMAIN s = {1, 2} /\ s[1] = j /\ s[2] = k
      BY <3>1, SMTT(20)
    <3>3. s # <<>>
      BY <3>1, SMTT(20)
    <3>4. Range(s) = {j, k} /\ Distinct(s)
      BY <1>3, <3>2 DEF Range, Distinct
    <3> QED
      BY <2>1, <3>1, <3>3, <3>4
  <2>2. CASE o # "landed"
    <3>1. s = <<j>> /\ s \in Seq(Ops)
      BY <1>3, <2>2, SMTT(20)
    <3>2. DOMAIN s = {1} /\ s[1] = j
      BY <3>1, SMTT(20)
    <3>3. s # <<>>
      BY <3>1, SMTT(20)
    <3> HIDE DEF s
    <3>4. Range(s) = {j} /\ Distinct(s)
      BY <3>2 DEF Range, Distinct
    <3> QED
      BY <2>2, <3>1, <3>3, <3>4
  <2> QED
    BY <2>1, <2>2
<1> HIDE DEF s
<1>5. \A op \in RowsDue : op.row \in {"landed", "missed"} => op.bundle # b
  BY <1>1, <1>2 DEF RowsMeant
<1>6. \A x \in Range(s) : x \notin RowsDue
  BY <1>3, <1>4, <1>5, <1>r
<1>7. OnePlace' /\ RowsDue' = RowsDue \cup Range(s) /\ todo' \in [Producers -> Seq(Ops)]
  <2>1. "poller" \in Producers
    BY DEF Producers
  <2> QED
    BY <1>1, <1>2, <1>4, <1>6, <2>1, RowsAdded
<1>8. \A x, r : UpsertPnLDaily(x, r) \in RowsDue' <=>
                    UpsertPnLDaily(x, r) \in RowsDue \/ (x = b /\ r = "landed" /\ o = "landed")
  <2>1. \A x, r : UpsertPnLDaily(x, r).bundle = x /\ UpsertPnLDaily(x, r).row = r
                  /\ UpsertPnLDaily(x, r).kind = "upsert_pnl_daily"
    BY DEF UpsertPnLDaily
  <2>2. ASSUME NEW x, NEW r
        PROVE  UpsertPnLDaily(x, r) \in Range(s) <=> (x = b /\ r = "landed" /\ o = "landed")
    <3>1. UpsertPnLDaily(x, r) = k <=> x = b /\ r = o
      <4>1. UpsertPnLDaily(x, r) = k => x = b /\ r = o
        BY <1>3, <2>1, SMTT(20)
      <4>2. x = b /\ r = o => UpsertPnLDaily(x, r) = k
        BY DEF k
      <4> QED
        BY <4>1, <4>2
    <3>2. UpsertPnLDaily(x, r) # j
      BY <1>3, <2>1
    <3> QED
      BY <1>4, <3>1, <3>2
  <2> QED
    BY <1>7, <2>2
<1>9. RowsMeant'
  <2>1. ASSUME NEW op \in RowsDue'
        PROVE  op.bundle \in submitted' /\ (op.row \in {"landed", "missed"} => resolvedAs'[op.bundle] = op.row)
    <3>1. CASE op \in RowsDue
      <4>1. op.bundle \in submitted /\ (op.row \in {"landed", "missed"} => resolvedAs[op.bundle] = op.row)
        BY <1>1, <3>1 DEF RowsMeant
      <4>2. op.row \in {"landed", "missed"} => op.bundle # b
        BY <1>5, <3>1
      <4>3. op.bundle \in LedgerBundles
        BY <1>1, <4>1 DEF LedgerTypeOK
      <4> QED
        BY <1>2, <1>r, <4>1, <4>2, <4>3
    <3>2. CASE op \in Range(s)
      <4>1. op.bundle = b /\ op.row = o
        BY <1>3, <1>4, <3>2
      <4> QED
        BY <1>2, <1>r, <4>1
    <3> QED
      BY <1>7, <3>1, <3>2
  <2>2. \A x \in LedgerBundles : resolvedAs'[x] # "no" => x \in submitted'
    <3>1. \A x \in LedgerBundles : resolvedAs[x] # "no" => x \in submitted
      BY <1>1 DEF RowsMeant
    <3> QED
      BY <1>2, <1>r, <3>1
  <2> QED
    BY <1>1, <1>2, <2>1, <2>2 DEF RowsMeant
<1>10. Phases'
  <2>1. \A q \in announced' : todo'[q] # <<>>
    <3>1. \A q \in announced : q \in Producers /\ todo[q] # <<>>
      BY <1>1 DEF Phases, LedgerTypeOK
    <3>2. todo \in [Producers -> Seq(Ops)]
      BY <1>1 DEF LedgerTypeOK
    <3> QED
      BY <1>2, <1>4, <3>1, <3>2
  <2> QED
    BY <1>1, <1>2, <2>1 DEF Phases, cancelled
<1>11. GaugeCoversQueue'
  BY <1>1, <1>2 DEF GaugeCoversQueue, inHand
<1>12. LedgerTypeOK'
  <2>1. resolvedAs' \in [LedgerBundles -> {"no", "landed", "missed"}]
    BY <1>2, <1>r
  <2> QED
    BY <1>1, <1>2, <1>7, <2>1 DEF LedgerTypeOK
<1>13. Accounted'
  <2>1. CountedSubmitted' = CountedSubmitted
    BY <1>2, <1>8, SMTT(20) DEF CountedSubmitted
  <2>2. CountedLanded' = CountedLanded
    <3>1. ASSUME NEW x \in LedgerBundles
          PROVE  (resolvedAs'[x] = "landed" /\ UpsertPnLDaily(x, "landed") \notin RowsDue')
                    <=> (resolvedAs[x] = "landed" /\ UpsertPnLDaily(x, "landed") \notin RowsDue)
      <4>1. CASE x = b
        BY <1>2, <1>8, <1>r, <4>1
      <4>2. CASE x # b
        BY <1>2, <1>8, <1>r, <4>2
      <4> QED
        BY <4>1, <4>2
    <3> QED
      BY <3>1 DEF CountedLanded
  <2>3. Healthy' => Healthy
    BY <1>2 DEF Healthy, cancelled
  <2>4. Healthy => \A x \in submitted' : x \in bundles \/ InsertBundle(x) \in RowsDue'
    BY <1>1, <1>2, <1>7 DEF Accounted
  <2> QED
    BY <1>1, <1>2, <2>1, <2>2, <2>3, <2>4 DEF Accounted
<1> QED
  BY <1>7, <1>9, <1>10, <1>11, <1>12, <1>13 DEF LedgerInv

\* Every step of the producers, dispatch, the writers and Close preserves the
\* invariant.
LEMMA LedgerInvStep == LedgerInv /\ [LedgerNext]_ledgerVars => LedgerInv'
<1> SUFFICES ASSUME LedgerInv, [LedgerNext]_ledgerVars PROVE LedgerInv'
  OBVIOUS
<1>1. CASE UNCHANGED ledgerVars
  <2>1. UNCHANGED <<producerVars, chVars, hold, inflight, writerVars, dispatcher, closing, todo, announced, ch>>
    BY <1>1 DEF ledgerVars, producerVars, chVars
  <2>2. Phases' /\ LedgerTypeOK
    BY <2>1 DEF LedgerInv, Phases, cancelled
  <2> QED
    BY <2>1, <2>2, PhaseStep DEF LedgerTypeOK, cancelled
<1>2. CASE Stopped
  <2>1. UNCHANGED ledgerVars
    BY <1>2 DEF Stopped
  <2> QED
    BY <1>1, <2>1
<1> QED
  BY <1>1, <1>2, SubmitStep, SettleStep, AnnounceStep, SendStep, ReceiveStep, CountStep,
     HandStep, ClosingStep, WriteStep
     DEF LedgerNext

\* The invariant says that the books balance once nothing is due, and that a clean
\* close leaves nothing.
LEMMA LedgerInvBalances ==
    LedgerInv => LedgerTypeOK /\ BooksBalance /\ GaugeCoversQueue /\ CleanCloseDrains
<1> SUFFICES ASSUME LedgerInv PROVE BooksBalance /\ CleanCloseDrains
  BY DEF LedgerInv
<1>1. LedgerTypeOK /\ RowsMeant /\ Phases /\ Accounted
  BY DEF LedgerInv
<1>2. CleanCloseDrains
  BY <1>1 DEF CleanCloseDrains, Phases, cancelled
<1>3. BooksBalance
  <2> SUFFICES ASSUME Quiet, Healthy
               PROVE  /\ bundles = submitted /\ bundle_count = Cardinality(submitted)
                      /\ inclusion_count = Cardinality({b \in LedgerBundles : resolvedAs[b] = "landed"})
    BY DEF BooksBalance
  <2>1. todo["arb"] = <<>> /\ todo["poller"] = <<>> /\ ch = <<>> /\ hold = <<>> /\ inflight = {}
    BY DEF Quiet, Producers
  <2>2. todo["arb"] \in Seq(Ops) /\ todo["poller"] \in Seq(Ops) /\ ch \in Seq(Ops) /\ hold \in Seq(Ops)
    BY <1>1 DEF LedgerTypeOK, Producers
  <2>3. RowsDue = {}
    BY <2>1, <2>2, NoRows DEF RowsDue, ArbRows, PollerRows, ChanRows, HeldRows
  <2>4. CountedSubmitted = submitted /\ CountedLanded = {b \in LedgerBundles : resolvedAs[b] = "landed"}
    BY <2>3 DEF CountedSubmitted, CountedLanded
  <2>5. bundles \subseteq submitted /\ submitted \subseteq bundles
    BY <1>1, <2>3 DEF RowsMeant, Accounted
  <2> QED
    BY <1>1, <2>4, <2>5 DEF Accounted
<1> QED
  BY <1>2, <1>3

\* With a healthy Postgres and no drop every bundle is counted exactly once when the
\* ledger is quiet, the gauge covers the queue at every moment, and a Close that did
\* not time out leaves no writer and no untried row, for any number of bundles, any
\* channel capacity and any number of writers.
THEOREM LedgerAlwaysBalanced ==
    LedgerSpec => [](LedgerTypeOK /\ BooksBalance /\ GaugeCoversQueue /\ CleanCloseDrains)
BY LedgerInvBalances, LedgerInvInit, LedgerInvStep, PTL DEF LedgerSpec
=============================================================================
