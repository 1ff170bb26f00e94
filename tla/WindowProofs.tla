---------------------------- MODULE WindowProofs ----------------------------
(***************************************************************************)
(* What the services decide by a window, for every value of the constants: *)
(* the mempool gate's freshness and expiry, the reconciler's blocks before *)
(* a prediction counts as dropped, and the join before cleanup closes the  *)
(* ledger.                                                                 *)
(***************************************************************************)
EXTENDS MempoolGate, Reconciler, ExecutorShutdown, FiniteSetTheorems, SequenceTheorems, TLAPS

\* How long a solver may take for a leaf.
USE ZenonT(20), SMTT(20)

(* The mempool gate (MempoolGate).                                          *)

\* The approvals of a target block, their victims, and the time of the first.
TakenFor(tb) == {i \in Approvals : approved[i][1] = tb}
VictimsOf(tb) == {approved[i][2] : i \in TakenFor(tb)}
IsFirst(tb, t) ==
    /\ \E i \in TakenFor(tb) : approved[i][3] = t
    /\ \A i \in TakenFor(tb) : t <= approved[i][3]

\* Until the block's first approval expires the tracker's entry is the whole
\* history of the block.
Tracked(tb, t) ==
    t + Expiry >= gateNow =>
        /\ tb \in DOMAIN entries /\ entries[tb].firstSet = t
        /\ entries[tb].victims = VictimsOf(tb)
        /\ Cardinality(entries[tb].victims) = Cardinality(TakenFor(tb))

\* The tracker holds the blocks of unexpired first approvals, each with its whole
\* history.
GateInv ==
    /\ GateTypeOK /\ OnlyFreshVictims /\ MapStaysSmall
    /\ approved \in Seq(Blocks \X Victims \X Nat \X Int) /\ gateNow <= GateMaxTime
    /\ \A i \in Approvals : approved[i][3] <= gateNow
    /\ \A tb \in DOMAIN entries : TakenFor(tb) # {} /\ IsFiniteSet(entries[tb].victims)
    /\ \A tb \in Blocks : TakenFor(tb) # {} => \E t \in Nat : IsFirst(tb, t) /\ Tracked(tb, t)
    /\ NoDuplicateBeforeExpiry /\ CapBeforeExpiry

\* The age test in 64-bit arithmetic: a small age is itself, a negative one is huge.
LEMMA FreshAge ==
    ASSUME NEW d \in Int, NEW lag \in Nat, NEW skew \in Nat, NEW top \in Nat, NEW w \in Nat,
           0 - skew <= d, d <= top, top + lag + skew < w, d % w <= lag
    PROVE  d \in 0..lag
<1>1. CASE d >= 0
  <2>1. d % w = d
    BY <1>1, SMTT(20)
  <2> QED
    BY <1>1, <2>1, SMTT(20)
<1>2. CASE d < 0
  <2>1. d % w = d + w
    BY <1>2, SMTT(20)
  <2> QED
    BY <1>2, <2>1, SMTT(20)
<1> QED
  BY <1>1, <1>2, SMTT(20)

\* FirstOf is the time of the first approval of the block.
LEMMA FirstOfIs ==
    ASSUME NEW i \in Approvals, NEW t \in Nat, IsFirst(approved[i][1], t),
           \A j \in Approvals : approved[j][3] \in Nat
    PROVE  FirstOf(i) = t
<1> DEFINE S == {approved[j][3] : j \in {k \in Approvals : approved[k][1] = approved[i][1]}}
           Least(x) == \A j \in Approvals : approved[j][1] = approved[i][1] => x <= approved[j][3]
<1>1. t \in S /\ Least(t)
  BY DEF IsFirst, TakenFor
<1>2. FirstOf(i) = CHOOSE x \in S : Least(x)
  BY DEF FirstOf
<1>3. FirstOf(i) \in S /\ Least(FirstOf(i))
  BY <1>1, <1>2
<1>4. \A x \in S : x \in Nat /\ (Least(x) => x <= t)
  BY DEF IsFirst, TakenFor
<1>5. t <= FirstOf(i) /\ FirstOf(i) <= t /\ FirstOf(i) \in Nat
  BY <1>3, <1>4, <1>1 DEF IsFirst, TakenFor
<1> QED
  BY <1>5, SMTT(20)

\* The same in the next state.
LEMMA FirstOfIsNext ==
    (\A i \in Approvals : \A t \in Nat :
        IsFirst(approved[i][1], t) /\ (\A j \in Approvals : approved[j][3] \in Nat) => FirstOf(i) = t)'
<1>1. \A i \in Approvals : \A t \in Nat :
        IsFirst(approved[i][1], t) /\ (\A j \in Approvals : approved[j][3] \in Nat) => FirstOf(i) = t
  BY FirstOfIs
<1> QED
  BY <1>1, PTL

\* The tracker starts empty.
LEMMA GateInvInit == GateInit => GateInv
<1> SUFFICES ASSUME GateInit PROVE GateInv
  OBVIOUS
<1> USE GateAssumption
<1>1. Len(approved) = 0 /\ approved \in Seq(Blocks \X Victims \X Nat \X Int) /\ DOMAIN entries = {}
  BY SMTT(20) DEF GateInit
<1>2. Approvals = {} /\ gateNow = 0 /\ decision = "none"
  BY <1>1, SMTT(20) DEF Approvals, GateInit
<1>3. GateTypeOK
  BY <1>1, <1>2, SMTT(20) DEF GateTypeOK
<1> QED
  BY <1>1, <1>2, <1>3, SMTT(20) DEF GateInv, OnlyFreshVictims, MapStaysSmall, TakenFor,
        NoDuplicateBeforeExpiry, CapBeforeExpiry

\* An approval keeps the tracker in step with the history.
LEMMA ApprovalTracked ==
    \A tb \in Blocks : \A v \in Victims : \A age \in 0..MaxVictimFreshness :
        /\ GateInv
        /\ Len(approved) < MaxApprovals /\ ~Seen(tb, v) /\ ~AtCap(tb) /\ Record(tb, v)
        /\ decision' = "approved" /\ gateNow' = gateNow
        /\ approved' = Append(approved, <<tb, v, gateNow, age>>)
        => GateInv'
<1>0. SUFFICES ASSUME NEW tb, NEW v, NEW age, tb \in Blocks, v \in Victims, age \in 0..MaxVictimFreshness,
               GateInv,
               Len(approved) < MaxApprovals, ~Seen(tb, v), ~AtCap(tb), Record(tb, v),
               decision' = "approved", gateNow' = gateNow,
               approved' = Append(approved, <<tb, v, gateNow, age>>)
        PROVE  GateInv'
  OBVIOUS
<1> DEFINE n == Len(approved)
           all == [b \in DOMAIN entries \union {tb} |-> IF b = tb THEN Taken(tb, v) ELSE entries[b]]
<1>c. /\ Expiry \in Nat /\ MaxInflight \in Nat \ {0} /\ MaxVictimFreshness \in Nat
      /\ MaxApprovals \in Nat
  BY GateAssumption
<1>g. GateInv
  BY <1>0
<1>h. /\ gateNow' = gateNow /\ tb \in Blocks /\ v \in Victims
      /\ age \in 0..MaxVictimFreshness
  BY <1>0
<1>1. /\ gateNow \in Nat /\ n \in Nat /\ Expiry \in Nat /\ MaxInflight \in Nat \ {0}
      /\ approved \in Seq(Blocks \X Victims \X Nat \X Int)
      /\ <<tb, v, gateNow, age>> \in Blocks \X Victims \X Nat \X Int
  BY <1>0, <1>c, SMTT(20) DEF GateInv, GateTypeOK
<1>2. /\ approved' \in Seq(Blocks \X Victims \X Nat \X Int) /\ Len(approved') = n + 1
      /\ approved'[n + 1] = <<tb, v, gateNow, age>>
      /\ \A i \in 1..n : approved'[i] = approved[i]
  BY <1>0, <1>1, SMTT(20)
<1>3. /\ Approvals = 1..n /\ Approvals' = 1..(n + 1) /\ n + 1 \notin 1..n
      /\ \A i \in 1..(n + 1) : i \in 1..n \/ i = n + 1
      /\ \A i \in 1..n : i \in 1..(n + 1)
  BY <1>1, <1>2, SMTT(20) DEF Approvals
<1>4. /\ approved'[n + 1][1] = tb /\ approved'[n + 1][2] = v
      /\ approved'[n + 1][3] = gateNow /\ approved'[n + 1][4] = age
  BY <1>2, SMTT(20)
<1>5. \A i \in 1..n : /\ approved[i][1] \in Blocks /\ approved[i][2] \in Victims
                      /\ approved[i][3] \in Nat /\ approved[i][3] <= gateNow
  BY <1>g, <1>1, <1>3, SMTT(20) DEF GateInv
<1> HIDE DEF n
<1>6. /\ TakenFor(tb)' = TakenFor(tb) \cup {n + 1}
      /\ \A x : x # tb => TakenFor(x)' = TakenFor(x)
  <2>1. ASSUME NEW x, NEW i
        PROVE  i \in TakenFor(x)' <=> i \in TakenFor(x) \/ (i = n + 1 /\ x = tb)
    <3>1. i \in TakenFor(x)' <=> i \in 1..(n + 1) /\ approved'[i][1] = x
      BY <1>3 DEF TakenFor
    <3>2. i \in TakenFor(x) <=> i \in 1..n /\ approved[i][1] = x
      BY <1>3 DEF TakenFor
    <3>3. CASE i \in 1..n
      BY <1>2, <1>3, <3>1, <3>2, <3>3
    <3>4. CASE i = n + 1
      BY <1>1, <1>3, <1>4, <3>1, <3>2, <3>4, SMTT(20)
    <3>5. CASE i \notin 1..n /\ i # n + 1
      BY <1>3, <3>1, <3>2, <3>5
    <3> QED
      BY <3>3, <3>4, <3>5
  <2> QED
    BY <2>1, SMTT(20)
<1>7. /\ VictimsOf(tb)' = VictimsOf(tb) \cup {v}
      /\ \A x : x # tb => VictimsOf(x)' = VictimsOf(x)
  <2>1. \A x : TakenFor(x) \subseteq 1..n
    BY <1>3 DEF TakenFor
  <2> QED
    <3>1. \A x : \A i \in TakenFor(x) : approved'[i][2] = approved[i][2]
      BY <1>2, <2>1
    <3>2. \A x : x # tb => VictimsOf(x)' = VictimsOf(x)
      <4> SUFFICES ASSUME NEW x, x # tb PROVE VictimsOf(x)' = VictimsOf(x)
        OBVIOUS
      <4>1. TakenFor(x)' = TakenFor(x)
        BY <1>6
      <4>2. VictimsOf(x)' = {approved'[i][2] : i \in TakenFor(x)}
        BY <4>1 DEF VictimsOf
      <4> QED
        BY <3>1, <4>2 DEF VictimsOf
    <3>3. VictimsOf(tb)' = {approved'[i][2] : i \in TakenFor(tb) \cup {n + 1}}
      BY <1>6 DEF VictimsOf
    <3>4. VictimsOf(tb)' = VictimsOf(tb) \cup {v}
      BY <1>4, <3>1, <3>3 DEF VictimsOf
    <3> QED
      BY <3>2, <3>4
<1>8. \A x : \A t \in Nat : IsFirst(x, t) => IsFirst(x, t)'
  <2> SUFFICES ASSUME NEW x, NEW t \in Nat, IsFirst(x, t) PROVE IsFirst(x, t)'
    OBVIOUS
  <2>1. PICK i \in TakenFor(x) : approved[i][3] = t
    BY DEF IsFirst
  <2>2. i \in 1..n /\ t <= gateNow /\ i \in TakenFor(x)' /\ approved'[i][3] = t
    BY <1>2, <1>3, <1>5, <1>6, <2>1 DEF TakenFor
  <2>3. ASSUME NEW k \in TakenFor(x)' PROVE t <= approved'[k][3]
    <3>1. k = n + 1 \/ k \in TakenFor(x)
      BY <1>6
    <3>2. CASE k = n + 1
      BY <1>4, <2>2, <3>2
    <3>3. CASE k \in TakenFor(x)
      BY <1>2, <1>3, <3>3 DEF IsFirst, TakenFor
    <3> QED
      BY <3>1, <3>2, <3>3
  <2> QED
    BY <2>2, <2>3 DEF IsFirst
<1>9. TakenFor(tb) = {} => IsFirst(tb, gateNow)'
  <2> SUFFICES ASSUME TakenFor(tb) = {} PROVE IsFirst(tb, gateNow)'
    OBVIOUS
  <2>1. TakenFor(tb)' = {n + 1}
    BY <1>6
  <2> QED
    BY <1>1, <1>4, <1>h, <2>1, SMTT(20) DEF IsFirst
<1>10. /\ entries' = [b \in {x \in DOMAIN all : ~ExpiredEntry(all[x])} |-> all[b]]
       /\ DOMAIN all = DOMAIN entries \cup {tb} /\ all[tb] = Taken(tb, v)
       /\ \A x \in DOMAIN entries : x # tb => all[x] = entries[x]
  BY <1>0 DEF Record
<1> HIDE DEF all
<1>11. /\ DOMAIN entries' = {x \in DOMAIN entries \cup {tb} : ~ExpiredEntry(all[x])}
       /\ \A x \in DOMAIN entries' : entries'[x] = all[x]
  BY <1>10
<1>12. /\ Taken(tb, v).victims = (IF tb \in DOMAIN entries THEN entries[tb].victims ELSE {}) \cup {v}
       /\ Taken(tb, v).firstSet = IF tb \in DOMAIN entries THEN entries[tb].firstSet ELSE gateNow
  BY DEF Taken
<1>13. /\ DOMAIN entries \subseteq Blocks
       /\ \A x \in DOMAIN entries : /\ entries[x].victims \subseteq Victims /\ entries[x].victims # {}
                                    /\ entries[x].firstSet \in Nat /\ entries[x].firstSet <= gateNow
                                    /\ IsFiniteSet(entries[x].victims) /\ TakenFor(x) # {}
  BY <1>g, <1>1, SMTT(20) DEF GateInv, GateTypeOK
<1>14. /\ Taken(tb, v).victims \subseteq Victims /\ Taken(tb, v).victims # {}
       /\ Taken(tb, v).firstSet \in Nat /\ Taken(tb, v).firstSet <= gateNow
       /\ IsFiniteSet(Taken(tb, v).victims)
  <2>1. IsFiniteSet(IF tb \in DOMAIN entries THEN entries[tb].victims ELSE {})
    BY <1>13, FS_EmptySet
  <2>2. IsFiniteSet((IF tb \in DOMAIN entries THEN entries[tb].victims ELSE {}) \cup {v})
    BY <2>1, FS_AddElement
  <2> QED
    BY <1>1, <1>12, <1>13, <1>h, <2>2, SMTT(20)
<1>15. /\ GateTypeOK'
       /\ \A x \in DOMAIN entries' : TakenFor(x)' # {} /\ IsFiniteSet(entries'[x].victims)
  <2>1. \A x \in DOMAIN entries' : \/ x = tb /\ entries'[x] = Taken(tb, v)
                                   \/ x \in DOMAIN entries /\ x # tb /\ entries'[x] = entries[x]
    BY <1>10, <1>11
  <2>2. \A x \in DOMAIN entries' :
           /\ entries'[x].victims \subseteq Victims /\ entries'[x].victims # {}
           /\ entries'[x].firstSet \in 0..gateNow
           /\ TakenFor(x)' # {} /\ IsFiniteSet(entries'[x].victims)
    <3> SUFFICES ASSUME NEW x \in DOMAIN entries'
                 PROVE  /\ entries'[x].victims \subseteq Victims /\ entries'[x].victims # {}
                        /\ entries'[x].firstSet \in 0..gateNow
                        /\ TakenFor(x)' # {} /\ IsFiniteSet(entries'[x].victims)
      OBVIOUS
    <3>1. CASE x = tb /\ entries'[x] = Taken(tb, v)
      <4>1. TakenFor(tb)' # {}
        BY <1>6
      <4>2. Taken(tb, v).firstSet \in 0..gateNow
        BY <1>1, <1>14, SMTT(20)
      <4> QED
        BY <1>14, <3>1, <4>1, <4>2
    <3>2. CASE x \in DOMAIN entries /\ x # tb /\ entries'[x] = entries[x]
      BY <1>1, <1>6, <1>13, <3>2, SMTT(20)
    <3> QED
      BY <2>1, <3>1, <3>2
  <2>3. DOMAIN entries' \subseteq Blocks
    BY <1>11, <1>13, <1>h
  <2>4. Len(approved') <= MaxApprovals
    BY <1>0, <1>1, <1>2, <1>c, SMTT(20) DEF n
  <2> QED
    BY <1>0, <1>1, <2>2, <2>3, <2>4 DEF GateTypeOK
<1>16. OnlyFreshVictims'
  <2>1. \A i \in 1..n : approved[i][4] \in 0..MaxVictimFreshness
    BY <1>g, <1>3 DEF GateInv, OnlyFreshVictims
  <2> QED
    BY <1>2, <1>3, <1>4, <1>h, <2>1 DEF OnlyFreshVictims
<1>17. MapStaysSmall'
  <2>1. \A x \in DOMAIN entries' : ~(all[x].firstSet < gateNow - Expiry) /\ entries'[x] = all[x]
    BY <1>11 DEF ExpiredEntry
  <2>2. \A x \in DOMAIN entries' : entries'[x].firstSet \in Nat
    BY <1>15, SMTT(20) DEF GateTypeOK
  <2>3. \A x \in DOMAIN entries' : entries'[x].firstSet + Expiry >= gateNow
    BY <1>1, <2>1, <2>2, SMTT(20)
  <2> QED
    BY <1>2, <1>4, <2>3 DEF MapStaysSmall
<1>18. IsFiniteSet(TakenFor(tb)) /\ n + 1 \notin TakenFor(tb)
  <2>1. IsFiniteSet(1..n) /\ TakenFor(tb) \subseteq 1..n
    <3>1. 1 \in Int /\ n \in Int
      BY <1>1, SMTT(20)
    <3>2. IsFiniteSet(1..n)
      BY <3>1, FS_Interval
    <3> QED BY <1>3, <3>2 DEF TakenFor
  <2> QED
    BY <1>3, <2>1, FS_Subset
<1>19. ASSUME NEW x \in Blocks, TakenFor(x)' # {}
       PROVE  \E t \in Nat : IsFirst(x, t)' /\ Tracked(x, t)'
  <2>1. CASE x # tb
    <3>1. TakenFor(x) # {} /\ TakenFor(x)' = TakenFor(x) /\ VictimsOf(x)' = VictimsOf(x)
      BY <1>6, <1>7, <1>19, <2>1
    <3>2. PICK t \in Nat : IsFirst(x, t) /\ Tracked(x, t)
      BY <1>g, <3>1 DEF GateInv
    <3>3. ASSUME t + Expiry >= gateNow
          PROVE  x \in DOMAIN entries' /\ entries'[x] = entries[x]
      <4>1. x \in DOMAIN entries /\ entries[x].firstSet = t
        BY <3>2, <3>3 DEF Tracked
      <4>2. all[x] = entries[x] /\ ~ExpiredEntry(all[x])
        BY <1>1, <1>10, <2>1, <3>3, <4>1, SMTT(20) DEF ExpiredEntry
      <4> QED
        BY <1>11, <4>1, <4>2
    <3>4. Tracked(x, t)'
      BY <1>h, <3>1, <3>2, <3>3 DEF Tracked
    <3> QED
      BY <1>8, <3>2, <3>4
  <2>2. CASE x = tb /\ TakenFor(tb) # {}
    <3>1. PICK t \in Nat : IsFirst(tb, t) /\ Tracked(tb, t)
      BY <1>g, <2>2 DEF GateInv
    <3>2. ASSUME t + Expiry >= gateNow
          PROVE  /\ tb \in DOMAIN entries' /\ entries'[tb].firstSet = t
                 /\ entries'[tb].victims = VictimsOf(tb)'
                 /\ Cardinality(entries'[tb].victims) = Cardinality(TakenFor(tb)')
      <4>1. /\ tb \in DOMAIN entries /\ entries[tb].firstSet = t /\ entries[tb].victims = VictimsOf(tb)
            /\ Cardinality(entries[tb].victims) = Cardinality(TakenFor(tb))
        BY <3>1, <3>2 DEF Tracked
      <4>2. all[tb].firstSet = t /\ all[tb].victims = entries[tb].victims \cup {v}
        BY <1>10, <1>12, <4>1
      <4>3. tb \in DOMAIN entries' /\ entries'[tb] = all[tb]
        BY <1>1, <1>11, <3>2, <4>2, SMTT(20) DEF ExpiredEntry
      <4>4. v \notin entries[tb].victims
        BY <1>0, <4>1 DEF Seen
      <4>5. Cardinality(entries[tb].victims \cup {v}) = Cardinality(entries[tb].victims) + 1
        BY <1>13, <4>1, <4>4, FS_AddElement
      <4>6. Cardinality(TakenFor(tb) \cup {n + 1}) = Cardinality(TakenFor(tb)) + 1
        BY <1>18, FS_AddElement
      <4> QED
        BY <1>6, <1>7, <4>1, <4>2, <4>3, <4>5, <4>6
    <3>3. Tracked(tb, t)'
      BY <1>h, <3>2 DEF Tracked
    <3> QED
      BY <1>8, <2>2, <3>1, <3>3
  <2>3. CASE x = tb /\ TakenFor(tb) = {}
    <3>1. tb \notin DOMAIN entries
      BY <1>13, <2>3
    <3>2. all[tb].firstSet = gateNow /\ all[tb].victims = {v}
      BY <1>10, <1>12, <3>1
    <3>3. tb \in DOMAIN entries' /\ entries'[tb] = all[tb]
      BY <1>1, <1>11, <3>2, SMTT(20) DEF ExpiredEntry
    <3>4. TakenFor(tb)' = {n + 1} /\ VictimsOf(tb)' = {v}
      BY <1>6, <1>7, <2>3 DEF VictimsOf
    <3>5. Cardinality({v}) = Cardinality({n + 1})
      BY FS_Singleton
    <3>6. Tracked(tb, gateNow)'
      BY <1>h, <3>2, <3>3, <3>4, <3>5 DEF Tracked
    <3> QED
      BY <1>1, <1>9, <1>h, <2>3, <3>6
  <2> QED
    BY <2>1, <2>2, <2>3
<1>20. \A i \in 1..(n + 1) : approved'[i][3] \in Nat
  BY <1>1, <1>2, <1>3, <1>4, <1>5
<1>21. ASSUME NEW i \in 1..n
       PROVE  FirstOf(i)' = FirstOf(i)
  <2>1. i \in TakenFor(approved[i][1]) /\ approved[i][1] \in Blocks
    BY <1>3, <1>5 DEF TakenFor
  <2>2. PICK t \in Nat : IsFirst(approved[i][1], t)
    BY <1>g, <2>1 DEF GateInv
  <2>3. FirstOf(i) = t
    BY <1>3, <1>5, <2>2, FirstOfIs
  <2>4. IsFirst(approved[i][1], t)'
    BY <1>2, <1>8, <2>2
  <2>5. FirstOf(i)' = t
    BY <1>3, <1>20, <2>4, FirstOfIsNext
  <2> QED
    BY <2>3, <2>5
<1>22. ASSUME NEW t \in Nat, IsFirst(tb, t), NEW j, j = n + 1
       PROVE  FirstOf(j)' = t
  <2>1. IsFirst(tb, t)'
    BY <1>8, <1>22
  <2>2. j \in Approvals' /\ approved'[j][1] = tb
    BY <1>1, <1>3, <1>4, <1>22, SMTT(20)
  <2>3. IsFirst(approved[j][1], t)'
    BY <2>1, <2>2
  <2> QED
    BY <1>3, <1>20, <2>2, <2>3, FirstOfIsNext
<1>23. NoDuplicateBeforeExpiry'
  <2> SUFFICES ASSUME NEW i \in 1..(n + 1), NEW j \in 1..(n + 1), i < j,
                      approved'[i][1] = approved'[j][1], approved'[i][2] = approved'[j][2]
               PROVE  approved'[j][3] > FirstOf(j)' + Expiry
    BY <1>3 DEF NoDuplicateBeforeExpiry
  <2>1. CASE j \in 1..n
    <3>1. i \in 1..n
      BY <1>1, <2>1, SMTT(20)
    <3> QED
      BY <1>g, <1>2, <1>3, <1>21, <2>1, <3>1 DEF GateInv, NoDuplicateBeforeExpiry
  <2>2. CASE j = n + 1
    <3>0. i \in 1..n
      BY <1>1, <2>2, SMTT(20)
    <3>1. i \in 1..n /\ approved[i][1] = tb /\ approved[i][2] = v
      BY <1>2, <1>4, <2>2, <3>0
    <3>2. i \in TakenFor(tb)
      BY <1>3, <3>1 DEF TakenFor
    <3>3. PICK t \in Nat : IsFirst(tb, t) /\ Tracked(tb, t)
      BY <1>g, <1>h, <3>2 DEF GateInv
    <3>4. v \in VictimsOf(tb)
      BY <3>1, <3>2 DEF VictimsOf
    <3>5. ~(t + Expiry >= gateNow)
      BY <1>0, <3>3, <3>4 DEF Tracked, Seen
    <3> QED
      <4>1. FirstOf(j)' = t /\ approved'[j][3] = gateNow
        BY <1>4, <1>22, <2>2, <3>3
      <4> QED
        BY <1>1, <3>5, <4>1, SMTT(20)
  <2> QED
    BY <1>3, <2>1, <2>2
<1>24. CapBeforeExpiry'
  <2> SUFFICES ASSUME NEW j \in 1..(n + 1), approved'[j][3] <= FirstOf(j)' + Expiry
               PROVE  Cardinality({i \in 1..j : approved'[i][1] = approved'[j][1]}) <= MaxInflight
    BY <1>3 DEF CapBeforeExpiry
  <2>1. CASE j \in 1..n
    <3>1. \A i \in 1..j : i \in 1..n
      BY <1>1, <2>1, SMTT(20)
    <3>2. {i \in 1..j : approved'[i][1] = approved'[j][1]} = {i \in 1..j : approved[i][1] = approved[j][1]}
      BY <1>2, <2>1, <3>1
    <3>3. approved[j][3] <= FirstOf(j) + Expiry
      BY <1>2, <1>21, <2>1
    <3> QED
      BY <1>g, <1>3, <2>1, <3>2, <3>3 DEF GateInv, CapBeforeExpiry
  <2>2. CASE j = n + 1
    <3>0. \A i : i \in 1..j <=> i \in 1..(n + 1)
      BY <2>2
    <3> DEFINE C == {i \in 1..j : approved'[i][1] = approved'[j][1]}
    <3>1. C = TakenFor(tb) \cup {n + 1}
      BY <1>3, <1>4, <1>6, <2>2 DEF TakenFor
    <3> HIDE DEF C
    <3>2. Cardinality(C) = Cardinality(TakenFor(tb)) + 1
      BY <1>18, <3>1, FS_AddElement
    <3> SUFFICES Cardinality(C) <= MaxInflight
      BY DEF C
    <3>f. approved'[j][3] = gateNow
      BY <1>4, <2>2
    <3>3. CASE TakenFor(tb) = {}
      <4>1. Cardinality(TakenFor(tb)) = 0
        BY <3>3, FS_EmptySet
      <4> QED
        BY <1>1, <3>2, <4>1, SMTT(20)
    <3>4. CASE TakenFor(tb) # {}
      <4>1. PICK t \in Nat : IsFirst(tb, t) /\ Tracked(tb, t)
        BY <1>g, <1>h, <3>4 DEF GateInv
      <4>2. t + Expiry >= gateNow
        <5>1. FirstOf(j)' = t
          BY <1>22, <2>2, <4>1
        <5> QED
          BY <1>1, <3>f, <5>1
      <4>3. /\ tb \in DOMAIN entries /\ Cardinality(entries[tb].victims) = Cardinality(TakenFor(tb))
        BY <4>1, <4>2 DEF Tracked
      <4>4. ~(Cardinality(TakenFor(tb)) >= MaxInflight)
        BY <1>0, <4>3 DEF AtCap, CountForBlock
      <4>5. Cardinality(TakenFor(tb)) \in Nat
        BY <1>18, FS_CardinalityType
      <4> QED
        BY <1>1, <3>2, <4>4, <4>5, SMTT(20)
    <3> QED
      BY <3>3, <3>4
  <2> QED
    BY <1>3, <2>1, <2>2
<1>25. \A i \in Approvals' : approved'[i][3] <= gateNow
  <2> SUFFICES ASSUME NEW i \in 1..(n + 1) PROVE approved'[i][3] <= gateNow
    BY <1>3
  <2>1. CASE i \in 1..n
    BY <1>2, <1>5, <2>1
  <2>2. CASE i = n + 1
    BY <1>1, <1>4, <2>2, SMTT(20)
  <2> QED
    BY <1>3, <2>1, <2>2
<1>26. gateNow' <= GateMaxTime /\ (\A i \in Approvals' : approved'[i][3] <= gateNow')
  BY <1>g, <1>h, <1>25 DEF GateInv
<1>27. \A x \in Blocks : TakenFor(x)' # {} => \E t \in Nat : IsFirst(x, t)' /\ Tracked(x, t)'
  BY <1>19
<1>28. approved' \in Seq(Blocks \X Victims \X Nat \X Int)
  BY <1>2
<1> QED
  <2>1. (GateTypeOK /\ OnlyFreshVictims /\ MapStaysSmall)'
    BY <1>15, <1>16, <1>17
  <2>2. (/\ approved \in Seq(Blocks \X Victims \X Nat \X Int) /\ gateNow <= GateMaxTime
         /\ \A i \in Approvals : approved[i][3] <= gateNow)'
    BY <1>26, <1>28
  <2>3. (\A x \in DOMAIN entries : TakenFor(x) # {} /\ IsFiniteSet(entries[x].victims))'
    BY <1>15
  <2>4. (\A x \in Blocks : TakenFor(x) # {} => \E t \in Nat : IsFirst(x, t) /\ Tracked(x, t))'
    BY <1>27
  <2>5. (NoDuplicateBeforeExpiry /\ CapBeforeExpiry)'
    BY <1>23, <1>24
  <2> QED
    BY <2>1, <2>2, <2>3, <2>4, <2>5 DEF GateInv

\* Time, a rejection and an approval, the eviction of expired blocks included,
\* preserve the invariant.
LEMMA GateInvStep == GateInv /\ [GateNext]_gateVars => GateInv'
<1> SUFFICES ASSUME GateInv, [GateNext]_gateVars PROVE GateInv'
  OBVIOUS
<1> USE GateAssumption
<1>0. gateNow \in Nat /\ Expiry \in Nat
  BY DEF GateInv, GateTypeOK
<1>1. ASSUME UNCHANGED <<entries, approved>>, gateNow' \in Nat, gateNow' >= gateNow, gateNow' <= GateMaxTime,
             decision' \in Reasons \cup {"none", "approved"}
      PROVE  GateInv'
  <2>1. /\ Approvals' = Approvals
        /\ OnlyFreshVictims' /\ MapStaysSmall' /\ approved' \in Seq(Blocks \X Victims \X Nat \X Int)
    BY <1>1 DEF GateInv, Approvals, OnlyFreshVictims, MapStaysSmall
  <2>2. \A x : TakenFor(x)' = TakenFor(x) /\ VictimsOf(x)' = VictimsOf(x)
    BY <1>1, <2>1 DEF TakenFor, VictimsOf
  <2>3. \A x, t : IsFirst(x, t)' <=> IsFirst(x, t)
    BY <1>1, <2>2 DEF IsFirst
  <2>4. \A i \in Approvals : FirstOf(i)' = FirstOf(i)
    BY <1>1, <2>1 DEF FirstOf
  <2>5. NoDuplicateBeforeExpiry'
    BY <1>1, <2>1, <2>4 DEF GateInv, NoDuplicateBeforeExpiry
  <2>6. CapBeforeExpiry'
    BY <1>1, <2>1, <2>4 DEF GateInv, CapBeforeExpiry
  <2>7. GateTypeOK'
    BY <1>0, <1>1, SMTT(20) DEF GateInv, GateTypeOK
  <2>8. \A x \in Blocks : \A t \in Nat : Tracked(x, t) => Tracked(x, t)'
    BY <1>0, <1>1, <2>2, SMTT(20) DEF Tracked
  <2>9. \A x \in Blocks : TakenFor(x)' # {} => \E t \in Nat : IsFirst(x, t)' /\ Tracked(x, t)'
    BY <2>2, <2>3, <2>8 DEF GateInv
  <2>10. \A i \in Approvals : approved[i][3] <= gateNow'
    <3>1. \A i \in Approvals : approved[i][3] \in Nat /\ approved[i][3] <= gateNow
      <4>1. approved \in Seq(Blocks \X Victims \X Nat \X Int)
        BY DEF GateInv
      <4>2. \A i \in Approvals : approved[i] \in Blocks \X Victims \X Nat \X Int
        BY <4>1, SMTT(20) DEF Approvals
      <4>3. \A i \in Approvals : approved[i][3] \in Nat
        BY <4>2
      <4> QED
        BY <4>3 DEF GateInv
    <3> QED
      BY <1>0, <1>1, <3>1, SMTT(20)
  <2>11. \A x \in DOMAIN entries' : TakenFor(x)' # {} /\ IsFiniteSet(entries'[x].victims)
    BY <1>1, <2>2 DEF GateInv
  <2> QED
    BY <1>1, <2>1, <2>5, <2>6, <2>7, <2>9, <2>10, <2>11 DEF GateInv
<1>2. CASE GateTick
  <2>1. /\ UNCHANGED <<entries, approved>> /\ gateNow' \in Nat /\ gateNow' >= gateNow /\ gateNow' <= GateMaxTime
        /\ decision' \in Reasons \cup {"none", "approved"}
    BY <1>0, <1>2, SMTT(20) DEF GateTick, GateInv, GateTypeOK
  <2> QED
    BY <1>1, <2>1
<1>3. ASSUME NEW net \in GateProfits, NEW tip \in TipShares, NEW tb \in Blocks, NEW v \in Victims,
             NEW seenAt \in 0..gateNow + MaxSkew, MempoolRiskGate(net, tip, seenAt, tb, v)
      PROVE  GateInv'
  <2>1. CASE UNCHANGED <<gateNow, entries, approved>> /\ decision' \in Reasons
    <3>1. gateNow' >= gateNow /\ gateNow <= GateMaxTime
      BY <1>0, <2>1, SMTT(20) DEF GateInv
    <3> QED
      BY <1>0, <1>1, <2>1, <3>1
  <2>2. CASE /\ ~(fresh(seenAt) > MaxVictimFreshness) /\ ~Seen(tb, v) /\ ~AtCap(tb)
             /\ Record(tb, v) /\ decision' = "approved" /\ gateNow' = gateNow
             /\ approved' = Append(approved, <<tb, v, gateNow, gateNow - seenAt>>)
             /\ Len(approved) < MaxApprovals
    <3>1. gateNow - seenAt \in 0..MaxVictimFreshness
      <4>1. /\ MaxVictimFreshness \in Nat /\ MaxVictimFreshness \in Int
            /\ MaxSkew \in Nat /\ GateMaxTime \in Nat /\ Word \in Nat
            /\ GateMaxTime + MaxVictimFreshness + MaxSkew < Word /\ gateNow <= GateMaxTime
        BY SMTT(20) DEF GateInv
      <4>2. gateNow - seenAt \in Int /\ 0 - MaxSkew <= gateNow - seenAt /\ gateNow - seenAt <= GateMaxTime
        BY <1>0, <4>1, SMTT(20)
      <4>3. (gateNow - seenAt) % Word \in Int
        BY <4>1, <4>2, SMTT(20)
      <4>4. \A x, y \in Int : ~(x > y) => x <= y
        BY SMTT(20)
      <4>5. (gateNow - seenAt) % Word <= MaxVictimFreshness
        BY <2>2, <4>1, <4>3, <4>4 DEF fresh
      <4> QED
        BY <4>1, <4>2, <4>5, FreshAge
    <3> QED
      BY <2>2, <3>1, ApprovalTracked
  <2> QED
    BY <1>3, <2>1, <2>2 DEF MempoolRiskGate, Reject, Reasons
<1>4. CASE UNCHANGED gateVars
  <2>1. /\ UNCHANGED <<entries, approved>> /\ gateNow' \in Nat /\ gateNow' >= gateNow /\ gateNow' <= GateMaxTime
        /\ decision' \in Reasons \cup {"none", "approved"}
    BY <1>0, <1>4, SMTT(20) DEF gateVars, GateInv, GateTypeOK
  <2> QED
    BY <1>1, <2>1
<1> QED
  BY <1>2, <1>3, <1>4 DEF GateNext

\* The invariant contains the promises of the gate.
LEMMA GateInvSound ==
    GateInv => /\ GateTypeOK /\ NoDuplicateBeforeExpiry /\ CapBeforeExpiry
               /\ OnlyFreshVictims /\ MapStaysSmall
BY DEF GateInv

\* Until its block's entry expires no victim is backrun twice in a block and at most
\* MaxInflight backruns are taken for it, all of fresh victims, and the tracker holds
\* only the blocks of the last Expiry slots.
THEOREM GateAlwaysSound ==
    GateSpec => [](/\ GateTypeOK /\ NoDuplicateBeforeExpiry /\ CapBeforeExpiry
                   /\ OnlyFreshVictims /\ MapStaysSmall)
BY GateInvSound, GateInvInit, GateInvStep, PTL DEF GateSpec

-----------------------------------------------------------------------------
(* The reconciler (Reconciler).                                             *)

\* A send leaves waiting what waited, and the new element.
LEMMA InQueueAppend ==
    ASSUME NEW S, NEW q \in Seq(S), NEW e \in S, NEW x, InQueue(q, x) \/ x = e
    PROVE  InQueue(Append(q, e), x)
<1> DEFINE t == Append(q, e)
<1>1. /\ Len(q) \in Nat /\ DOMAIN q = 1..Len(q) /\ DOMAIN t = 1..(Len(q) + 1)
      /\ t[Len(q) + 1] = e /\ \A i \in 1..Len(q) : t[i] = q[i]
  BY SMTT(20)
<1> HIDE DEF t
<1>2. CASE x = e
  <2>1. Len(q) + 1 \in DOMAIN t
    BY <1>1, SMTT(20)
  <2> QED
    BY <1>1, <1>2, <2>1 DEF InQueue, t
<1>3. CASE InQueue(q, x)
  <2>1. PICK i \in DOMAIN q : q[i] = x
    BY <1>3 DEF InQueue
  <2>2. i \in DOMAIN t /\ t[i] = x
    BY <1>1, <2>1, SMTT(20)
  <2> QED
    BY <2>2 DEF InQueue, t
<1> QED
  BY <1>2, <1>3

\* A receive leaves waiting all that waited but the head.
LEMMA InQueueTail ==
    ASSUME NEW S, NEW q \in Seq(S), q # <<>>, NEW x, InQueue(q, x), x # Head(q)
    PROVE  InQueue(Tail(q), x)
<1>1. PICK i \in DOMAIN q : q[i] = x
  BY DEF InQueue
<1>2. /\ Len(q) \in Nat /\ Len(q) >= 1 /\ DOMAIN q = 1..Len(q) /\ Head(q) = q[1]
      /\ DOMAIN Tail(q) = 1..(Len(q) - 1)
      /\ \A j \in 1..(Len(q) - 1) : Tail(q)[j] = q[j + 1]
  BY SMTT(20)
<1>3. i # 1 /\ i - 1 \in 1..(Len(q) - 1) /\ (i - 1) + 1 = i
  BY <1>1, <1>2, SMTT(20)
<1> QED
  BY <1>1, <1>2, <1>3 DEF InQueue

\* Two queues joined hold what either held.
LEMMA InQueueConcat ==
    ASSUME NEW S, NEW q \in Seq(S), NEW r \in Seq(S), NEW x, InQueue(q, x) \/ InQueue(r, x)
    PROVE  InQueue(q \o r, x)
<1> DEFINE t == q \o r
<1>1. /\ Len(q) \in Nat /\ DOMAIN q = 1..Len(q) /\ Len(r) \in Nat /\ DOMAIN r = 1..Len(r)
      /\ t \in Seq(S) /\ Len(t) = Len(q) + Len(r)
      /\ \A i \in 1..Len(t) : t[i] = IF i <= Len(q) THEN q[i] ELSE r[i - Len(q)]
  BY ConcatProperties, SMTT(20)
<1> HIDE DEF t
<1>0. DOMAIN t = 1..Len(t)
  BY <1>1, SMTT(20)
<1>2. CASE InQueue(q, x)
  <2>1. PICK i \in 1..Len(q) : q[i] = x
    BY <1>1, <1>2 DEF InQueue
  <2>2. i \in 1..Len(t) /\ t[i] = x
    BY <1>1, <2>1, SMTT(20)
  <2> QED
    BY <1>0, <2>2 DEF InQueue, t
<1>3. CASE InQueue(r, x)
  <2>1. PICK i \in 1..Len(r) : r[i] = x
    BY <1>1, <1>3 DEF InQueue
  <2>2. Len(q) + i \in 1..Len(t) /\ ~(Len(q) + i <= Len(q)) /\ (Len(q) + i) - Len(q) = i
    BY <1>1, <2>1, SMTT(20)
  <2>3. t[Len(q) + i] = x
    BY <1>1, <2>1, <2>2
  <2> QED
    BY <1>0, <2>2, <2>3 DEF InQueue, t
<1> QED
  BY <1>2, <1>3

\* On its way to an outcome, stored or not yet.
OnItsWay(p) == InQueue(headers, landed[p]) \/ InQueue(reconCh, p) \/ p \in late

\* The sweep's head is not ahead of the chain; as long as no call has failed the
\* process and its header loop run, and every landed prediction, stored or not, is
\* on its way to its outcome.
ReconInv ==
    /\ ReconTypeOK
    /\ sweepHead <= head
    /\ \A p \in Predictions : landed[p] <= head
    /\ \A p \in Predictions : p \in stored \/ outcome[p] = "dropped" => target[p] # 0
    /\ DroppedOnlyAfterWindow
    /\ ~fault => up /\ headerLoop = "running"
    /\ \A p \in Predictions : landed[p] # 0 /\ outcome[p] = "none" /\ ~fault => OnItsWay(p)

\* Nothing has landed and no sweep has read a head.
LEMMA ReconInvInit == ReconInit => ReconInv
<1> SUFFICES ASSUME ReconInit PROVE ReconInv
  OBVIOUS
<1>1. headers \in Seq(Nat) /\ reconCh \in Seq(Predictions) /\ Len(reconCh) = 0
  BY SMTT(20) DEF ReconInit
<1>2. ReconTypeOK
  <2>1. /\ head = 1 /\ sweepHead = 0 /\ stored = {} /\ late = {}
        /\ target = [p \in Predictions |-> 0] /\ landed = [p \in Predictions |-> 0]
        /\ up = TRUE /\ fault = FALSE /\ headerLoop = "running"
        /\ outcome = [p \in Predictions |-> "none"]
    BY DEF ReconInit
  <2> QED
    <3>1. target \in [Predictions -> Nat] /\ landed \in [Predictions -> Nat]
      BY <2>1
    <3>2. outcome \in [Predictions -> {"none", "confirmed", "dropped"}]
      BY <2>1
    <3>3. Len(reconCh) <= ReconCapacity
      BY <1>1, ReconcilerAssumption, SMTT(20)
    <3>4. head \in Nat /\ sweepHead \in Nat /\ headerLoop \in {"running", "returned"}
      BY <2>1
    <3>5. up \in BOOLEAN /\ fault \in BOOLEAN /\ stored \subseteq Predictions /\ late \subseteq Predictions
      BY <2>1
    <3> QED
      BY <1>1, <3>1, <3>2, <3>3, <3>4, <3>5 DEF ReconTypeOK
<1> QED
  BY <1>2, SMTT(20) DEF ReconInit, ReconInv, DroppedOnlyAfterWindow

\* Blocks, headers, the store, the two loops, failures and restarts preserve the
\* invariant.
LEMMA ReconInvStep == ReconInv /\ [ReconNext]_reconVars => ReconInv'
<1> SUFFICES ASSUME ReconInv, [ReconNext]_reconVars PROVE ReconInv'
  OBVIOUS
<1> USE ReconcilerAssumption
<1>0. /\ head \in Nat /\ sweepHead \in Nat /\ headers \in Seq(Nat) /\ reconCh \in Seq(Predictions)
      /\ target \in [Predictions -> Nat] /\ landed \in [Predictions -> Nat]
      /\ outcome \in [Predictions -> {"none", "confirmed", "dropped"}]
      /\ fault \in BOOLEAN /\ up \in BOOLEAN
  BY DEF ReconInv, ReconTypeOK
<1>1. ASSUME NEW p \in Predictions, Predict(p)
      PROVE  ReconInv'
  <2>1. ReconTypeOK'
    BY <1>0, <1>1, SMTT(20) DEF Predict, process, ReconInv, ReconTypeOK
  <2>2. DroppedOnlyAfterWindow'
    <3> SUFFICES ASSUME NEW q \in Predictions, outcome[q] = "dropped"
                 PROVE  head >= target'[q] + Window
      BY <1>1 DEF Predict, DroppedOnlyAfterWindow
    <3>1. q # p
      BY <1>0, <1>1 DEF Predict, ReconInv, DroppedOnlyAfterWindow
    <3> QED
      BY <1>0, <1>1, <3>1 DEF Predict, ReconInv, DroppedOnlyAfterWindow
  <2> QED
    BY <1>1, <2>1, <2>2, SMTT(20) DEF Predict, process, ReconInv, OnItsWay
<1>2. ASSUME NEW p \in Predictions, Store(p)
      PROVE  ReconInv'
  BY <1>2 DEF Store, chain, process, ReconInv, ReconTypeOK, DroppedOnlyAfterWindow, OnItsWay
<1>3. ASSUME NEW txs \in SUBSET Predictions, NewBlock(txs)
      PROVE  ReconInv'
  <2>0. head + 1 \in Nat
    BY <1>0, SMTT(20)
  <2>1. headers' \in Seq(Nat)
    BY <1>0, <1>3, SMTT(20) DEF NewBlock
  <2>2. ReconTypeOK'
    BY <1>0, <1>3, <2>1, SMTT(20) DEF NewBlock, ReconInv, ReconTypeOK
  <2>3. DroppedOnlyAfterWindow'
    BY <1>0, <1>3, SMTT(20) DEF NewBlock, ReconInv, DroppedOnlyAfterWindow
  <2>4. \A p \in Predictions : landed'[p] <= head'
    BY <1>0, <1>3, SMTT(20) DEF NewBlock, ReconInv
  <2>5. ASSUME NEW p \in Predictions, landed'[p] # 0, outcome[p] = "none", ~fault
        PROVE  OnItsWay(p)'
    <3>1. headers' = Append(headers, head + 1)
      BY <1>3, <2>5 DEF NewBlock, ReconInv
    <3>2. CASE p \in txs
      <4>1. landed'[p] = head + 1
        BY <1>3, <3>2 DEF NewBlock
      <4>2. InQueue(headers', landed'[p])
        BY <1>0, <2>0, <3>1, <4>1, InQueueAppend
      <4> QED
        BY <4>2 DEF OnItsWay
    <3>3. CASE p \notin txs
      <4>1. landed'[p] = landed[p] /\ reconCh' = reconCh /\ late' = late
        BY <1>3, <3>3 DEF NewBlock
      <4>2. OnItsWay(p)
        BY <2>5, <4>1 DEF ReconInv
      <4>3. InQueue(headers, landed[p]) => InQueue(headers', landed[p])
        BY <1>0, <2>0, <3>1, InQueueAppend
      <4> QED
        BY <4>1, <4>2, <4>3 DEF OnItsWay
    <3> QED
      BY <3>2, <3>3
  <2> QED
    BY <1>0, <1>3, <2>2, <2>3, <2>4, <2>5, SMTT(20) DEF NewBlock, ReconInv
<1>4. CASE SkipHeader \/ SubscriptionError \/ Stop
  <2>1. fault' = TRUE /\ UNCHANGED <<head, target, landed, stored, outcome, late>>
    BY <1>4 DEF SkipHeader, SubscriptionError, Stop, chain
  <2>2. headers' \in Seq(Nat) /\ reconCh' \in Seq(Predictions) /\ Len(reconCh') <= ReconCapacity
    <3>1. /\ headers' = <<>> \/ (headers # <<>> /\ headers' = Tail(headers))
          /\ reconCh' = <<>> \/ reconCh' = reconCh
      BY <1>4 DEF SkipHeader, SubscriptionError, Stop
    <3>2. headers' \in Seq(Nat)
      <4>1. CASE headers' = <<>>
        BY <4>1, SMTT(20)
      <4>2. CASE headers # <<>> /\ headers' = Tail(headers)
        BY <1>0, <4>2, SMTT(20)
      <4> QED
        BY <3>1, <4>1, <4>2
    <3>3. CASE reconCh' = <<>>
      <4>1. reconCh' \in Seq(Predictions) /\ Len(reconCh') = 0
        BY <3>3, SMTT(20)
      <4> QED
        BY <3>2, <4>1, SMTT(20)
    <3>4. CASE reconCh' = reconCh
      BY <1>0, <3>2, <3>4 DEF ReconInv, ReconTypeOK
    <3> QED
      BY <3>1, <3>3, <3>4
  <2>3. up' \in BOOLEAN /\ headerLoop' \in {"running", "returned"} /\ sweepHead' \in {0, sweepHead}
    BY <1>0, <1>4 DEF SkipHeader, SubscriptionError, Stop, ReconInv, ReconTypeOK
  <2>4. ReconTypeOK'
    BY <1>0, <2>1, <2>2, <2>3, SMTT(20) DEF ReconInv, ReconTypeOK
  <2> QED
    BY <1>0, <2>1, <2>3, <2>4, SMTT(20) DEF ReconInv, DroppedOnlyAfterWindow
<1>5. CASE handleHeader
  <2>1. PICK rows \in Rows(Head(headers)) :
           /\ reconCh' = reconCh \o rows
           /\ fault' = (fault \/ \E p \in Matches(Head(headers)) : \A i \in DOMAIN rows : rows[i] # p)
    BY <1>5 DEF handleHeader
  <2>2. headers # <<>> /\ headers' = Tail(headers) /\ Head(headers) \in Nat /\ headers' \in Seq(Nat)
    BY <1>0, <1>5, SMTT(20) DEF handleHeader
  <2>3. PICK n \in 0..(ReconCapacity - Len(reconCh)) : rows \in [1..n -> Matches(Head(headers))]
    BY <2>1 DEF Rows
  <2>4. rows \in Seq(Predictions) /\ Len(rows) = n
    <3>1. Matches(Head(headers)) \subseteq Predictions
      BY DEF Matches, ReconInv, ReconTypeOK
    <3>2. n \in Nat
      BY <1>0, <2>3, SMTT(20)
    <3> QED
      BY <2>3, <3>1, <3>2, SMTT(20)
  <2>5. reconCh' \in Seq(Predictions) /\ Len(reconCh') <= ReconCapacity
    BY <1>0, <2>1, <2>3, <2>4, ConcatProperties, SMTT(20)
  <2>6. fault' \in BOOLEAN /\ (~fault' => ~fault)
    BY <2>1
  <2>7. late' \subseteq Predictions
    BY <1>5 DEF handleHeader, ReconInv, ReconTypeOK
  <2>8. ReconTypeOK'
    BY <1>5, <2>2, <2>5, <2>6, <2>7 DEF handleHeader, chain, ReconInv, ReconTypeOK
  <2>9. ASSUME NEW p \in Predictions, landed[p] # 0, outcome[p] = "none", ~fault'
        PROVE  OnItsWay(p)'
    <3>0. UNCHANGED landed
      BY <1>5 DEF handleHeader, chain
    <3>1. OnItsWay(p)
      BY <2>6, <2>9 DEF ReconInv
    <3>2. CASE InQueue(reconCh, p)
      BY <1>0, <2>1, <2>4, <3>2, InQueueConcat DEF OnItsWay
    <3>3. CASE p \in late
      BY <1>5, <3>3 DEF handleHeader, OnItsWay
    <3>4. CASE InQueue(headers, landed[p]) /\ landed[p] # Head(headers)
      BY <1>0, <2>2, <3>0, <3>4, InQueueTail DEF OnItsWay
    <3>5. CASE landed[p] = Head(headers) /\ p \notin stored
      BY <1>5, <3>5 DEF handleHeader, OnItsWay
    <3>6. CASE landed[p] = Head(headers) /\ p \in stored
      <4>1. p \in Matches(Head(headers))
        BY <3>6 DEF Matches
      <4>2. InQueue(rows, p)
        BY <2>1, <2>9, <4>1 DEF InQueue
      <4>3. InQueue(reconCh', p)
        BY <1>0, <2>1, <2>4, <4>2, InQueueConcat
      <4> QED
        BY <4>3 DEF OnItsWay
    <3> QED
      BY <3>1, <3>2, <3>3, <3>4, <3>5, <3>6 DEF OnItsWay
  <2> QED
    BY <1>5, <2>6, <2>8, <2>9 DEF handleHeader, chain, ReconInv, DroppedOnlyAfterWindow
<1>6. CASE insertReconciliationInner
  <2>1. /\ reconCh # <<>> /\ reconCh' = Tail(reconCh) /\ Head(reconCh) \in Predictions
        /\ reconCh' \in Seq(Predictions) /\ Len(reconCh') <= ReconCapacity
    BY <1>0, <1>6, SMTT(20) DEF insertReconciliationInner, ReconInv, ReconTypeOK
  <2>2. \A p \in Predictions : outcome'[p] = outcome[p] \/ (p = Head(reconCh) /\ outcome'[p] = "confirmed")
    BY <1>0, <1>6 DEF insertReconciliationInner
  <2>3. outcome' \in [Predictions -> {"none", "confirmed", "dropped"}]
    BY <1>0, <1>6, <2>1 DEF insertReconciliationInner
  <2>4. fault' \in BOOLEAN /\ (~fault' => ~fault)
    <3>1. fault' = fault \/ fault' = TRUE
      BY <1>6 DEF insertReconciliationInner
    <3> QED
      BY <1>0, <3>1
  <2>5. ReconTypeOK'
    BY <1>6, <2>1, <2>3, <2>4 DEF insertReconciliationInner, chain, ReconInv, ReconTypeOK
  <2>6. DroppedOnlyAfterWindow'
    BY <1>6, <2>2 DEF insertReconciliationInner, chain, ReconInv, DroppedOnlyAfterWindow
  <2>7. ASSUME NEW p \in Predictions, landed[p] # 0, outcome'[p] = "none", ~fault'
        PROVE  OnItsWay(p)'
    <3>1. outcome[p] = "none" /\ ~fault
      BY <2>2, <2>4, <2>7
    <3>2. p # Head(reconCh)
      <4>1. outcome' = IF noRow(Head(reconCh)) THEN [outcome EXCEPT ![Head(reconCh)] = "confirmed"]
                                               ELSE outcome
        BY <1>6, <2>7 DEF insertReconciliationInner
      <4>2. p = Head(reconCh) => outcome'[p] = "confirmed"
        BY <1>0, <3>1, <4>1 DEF noRow
      <4> QED
        BY <2>7, <4>2
    <3>3. OnItsWay(p)
      BY <2>7, <3>1 DEF ReconInv
    <3>4. UNCHANGED <<headers, late, landed>>
      BY <1>6 DEF insertReconciliationInner, chain
    <3>5. InQueue(reconCh, p) => InQueue(reconCh', p)
      BY <1>0, <2>1, <3>2, InQueueTail
    <3> QED
      BY <3>3, <3>4, <3>5 DEF OnItsWay
  <2> QED
    BY <1>6, <2>2, <2>4, <2>5, <2>6, <2>7 DEF insertReconciliationInner, chain, ReconInv
<1>7. CASE SweepReadHead \/ SweepFails \/ Restart
  <2>1. UNCHANGED <<head, target, landed, stored, headers, reconCh, outcome, fault, late>>
    BY <1>7 DEF SweepReadHead, SweepFails, Restart, chain
  <2>2. sweepHead' \in {0, head, sweepHead} /\ up' \in BOOLEAN /\ headerLoop' \in {"running", "returned"}
    BY <1>0, <1>7 DEF SweepReadHead, SweepFails, Restart, ReconInv, ReconTypeOK
  <2>3. up /\ headerLoop = "running" => up' /\ headerLoop' = "running"
    BY <1>7 DEF SweepReadHead, SweepFails, Restart
  <2>4. ReconTypeOK'
    BY <1>0, <2>1, <2>2, SMTT(20) DEF ReconInv, ReconTypeOK
  <2> QED
    BY <1>0, <2>1, <2>2, <2>3, <2>4, SMTT(20) DEF ReconInv, DroppedOnlyAfterWindow, OnItsWay
<1>8. CASE MarkStaleAsDropped
  <2>1. UNCHANGED <<head, target, landed, stored, headers, reconCh, up, headerLoop, fault, late>>
    BY <1>8 DEF MarkStaleAsDropped, chain
  <2>2. \A p \in Predictions : outcome'[p] = outcome[p] \/ (p \in stored /\ stale(p) /\ outcome'[p] = "dropped")
    BY <1>8 DEF MarkStaleAsDropped
  <2>3. outcome' \in [Predictions -> {"none", "confirmed", "dropped"}] /\ sweepHead' = 0
    BY <1>0, <1>8 DEF MarkStaleAsDropped
  <2>4. ReconTypeOK'
    BY <1>0, <2>1, <2>3 DEF ReconInv, ReconTypeOK
  <2>5. DroppedOnlyAfterWindow'
    BY <1>0, <2>1, <2>2, SMTT(20) DEF ReconInv, DroppedOnlyAfterWindow, stale
  <2> QED
    BY <1>0, <2>1, <2>2, <2>3, <2>4, <2>5, SMTT(20) DEF ReconInv, OnItsWay
<1>9. CASE UNCHANGED reconVars
  BY <1>9 DEF reconVars, chain, process, ReconInv, ReconTypeOK, DroppedOnlyAfterWindow, OnItsWay
<1> QED
  BY <1>1, <1>2, <1>3, <1>4, <1>5, <1>6, <1>7, <1>8, <1>9 DEF ReconNext

\* The invariant gives what the reconciler promises.
LEMMA ReconInvSound ==
    ReconInv => ReconTypeOK /\ DroppedOnlyAfterWindow /\ LandedIsOnItsWay
BY DEF ReconInv, ReconTypeOK, LandedIsOnItsWay, OnItsWay

\* No prediction is dropped before its window has passed, and unless a call failed
\* one that landed and has no outcome is still on its way to it.
THEOREM OutcomesAlwaysSound ==
    ReconSpec => [](ReconTypeOK /\ DroppedOnlyAfterWindow /\ LandedIsOnItsWay)
BY ReconInvSound, ReconInvInit, ReconInvStep, PTL DEF ReconSpec

\* The insert does nothing on a conflict and the sweep only takes predictions without
\* a row, so no step rewrites an outcome.
LEMMA OutcomeKept ==
    ReconInv /\ [ReconNext]_reconVars
      => [\A p \in Predictions : outcome[p] # "none" => outcome'[p] = outcome[p]]_reconVars
<1> SUFFICES ASSUME ReconInv, ReconNext, NEW p \in Predictions, outcome[p] # "none"
             PROVE  outcome'[p] = outcome[p]
  OBVIOUS
<1>1. outcome \in [Predictions -> {"none", "confirmed", "dropped"}]
  BY DEF ReconInv, ReconTypeOK
<1>2. CASE insertReconciliationInner
  BY <1>1, <1>2 DEF insertReconciliationInner, noRow
<1>3. CASE MarkStaleAsDropped
  BY <1>3 DEF MarkStaleAsDropped
<1>4. CASE UNCHANGED outcome
  BY <1>4
<1>5. insertReconciliationInner \/ MarkStaleAsDropped \/ UNCHANGED outcome
  BY DEF ReconNext, Predict, Store, NewBlock, SkipHeader, handleHeader, SubscriptionError,
         SweepReadHead, SweepFails, Stop, Restart, chain, process
<1> QED
  BY <1>2, <1>3, <1>4, <1>5

\* Once a prediction has an outcome no later header, sweep or restart changes it.
THEOREM FirstOutcomeAlwaysStands == ReconSpec => FirstOutcomeStands
BY OutcomeKept, ReconInvInit, ReconInvStep, PTL DEF ReconSpec, FirstOutcomeStands

-----------------------------------------------------------------------------
(* run and its loops (ExecutorShutdown).                                    *)

\* The loops the WaitGroup counts.
Running == {l \in AllLoops : loop[l] \in {"idle", "busy"}}

\* The counter is the number of loops that run, so that once wg.Wait has returned
\* none of them can reach the channel that cleanup closes.
LifeInv ==
    /\ LifeTypeOK
    /\ wg = Cardinality(Running)
    /\ main = "start" => \A l \in AllLoops : loop[l] = "off"
    /\ main \in {"start", "dial"} => loop[StreamLoop] = "off"
    /\ main = "cleanup" => Running = {}
    /\ ~ledgerOpen => main \in {"cleanup", "exited"}
    /\ NoSendOnClosed

\* The loops are finitely many, and so are those that run.
LEMMA RunningFinite ==
    /\ IsFiniteSet(AllLoops) /\ IsFiniteSet(Running)
    /\ Cardinality(Running) \in 0..Cardinality(AllLoops)
    /\ Cardinality(Running) = 0 => Running = {}
<1>1. IsFiniteSet(AllLoops)
  BY LoopsAssumption, FS_AddElement DEF AllLoops
<1>2. Running \subseteq AllLoops
  BY DEF Running
<1> QED
  BY <1>1, <1>2, FS_Subset, FS_CardinalityType, FS_EmptySet, SMTT(20)

\* Nothing runs before run has started the loops.
LEMMA LifeInvInit == LifeInit => LifeInv
<1> SUFFICES ASSUME LifeInit PROVE LifeInv
  OBVIOUS
<1>1. Running = {}
  BY DEF LifeInit, Running
<1>2. LifeTypeOK
  BY RunningFinite, <1>1, FS_EmptySet DEF LifeInit, LifeTypeOK, AllLoops
<1> QED
  BY <1>1, <1>2, FS_EmptySet DEF LifeInit, LifeInv, NoSendOnClosed, AllLoops

\* A step of one loop from a state that runs to another leaves the counter right.
LEMMA LoopMoves ==
    ASSUME LifeInv, NEW l \in AllLoops, NEW s \in {"idle", "busy"},
           loop[l] \in {"idle", "busy"}, loop' = [loop EXCEPT ![l] = s]
    PROVE  Running' = Running /\ loop' \in [AllLoops -> {"off", "idle", "busy", "returned"}]
BY DEF LifeInv, LifeTypeOK, Running

\* Every step of run, of its loops and of the environment preserves the invariant.
LEMMA LifeInvStep == LifeInv /\ [LifeNext]_lifeVars => LifeInv'
<1> SUFFICES ASSUME LifeInv, [LifeNext]_lifeVars PROVE LifeInv'
  OBVIOUS
<1> USE RunningFinite
<1>1. CASE StartLoops
  <2>1. Running' = Loops
    BY <1>1, LoopsAssumption DEF StartLoops, Running, AllLoops
  <2>2. wg' \in 0..Cardinality(AllLoops)
    BY <1>1, LoopsAssumption, FS_Subset, FS_CardinalityType, SMTT(20) DEF StartLoops, AllLoops
  <2> QED
    BY <1>1, <2>1, <2>2, LoopsAssumption
       DEF StartLoops, LifeInv, LifeTypeOK, NoSendOnClosed, AllLoops
<1>2. CASE Dial
  <2>1. CASE loop' = [loop EXCEPT ![StreamLoop] = "idle"] /\ wg' = wg + 1
    <3>1. Running' = Running \union {StreamLoop} /\ StreamLoop \notin Running
      BY <1>2, <2>1 DEF Dial, LifeInv, LifeTypeOK, Running, AllLoops
    <3>2. wg' = Cardinality(Running')
      BY <2>1, <3>1, FS_AddElement DEF LifeInv
    <3>3. Running' \subseteq AllLoops
      BY DEF Running
    <3>4. wg' \in 0..Cardinality(AllLoops)
      BY <3>2, <3>3, FS_Subset, FS_CardinalityType, SMTT(20)
    <3> QED
      BY <1>2, <2>1, <3>2, <3>4 DEF Dial, LifeInv, LifeTypeOK, NoSendOnClosed, AllLoops
  <2>2. CASE UNCHANGED <<loop, wg>>
    BY <1>2, <2>2 DEF Dial, LifeInv, LifeTypeOK, NoSendOnClosed, Running
  <2> QED
    BY <1>2, <2>1, <2>2 DEF Dial
<1>3. CASE OnSignal \/ OnContextDone \/ Signal \/ CallerCancels \/ Exited
  <2>1. UNCHANGED <<loop, wg, ledgerOpen, sendOnClosed>> /\ Running' = Running
    BY <1>3 DEF OnSignal, OnContextDone, Signal, CallerCancels, Exited, lifeVars, Running
  <2>2. main' = main \/ main' = "join"
    BY <1>3 DEF OnSignal, OnContextDone, Signal, CallerCancels, Exited, lifeVars
  <2>3. ctxDone' \in BOOLEAN /\ runCtxDone' \in BOOLEAN /\ signal' \in BOOLEAN
    BY <1>3 DEF OnSignal, OnContextDone, Signal, CallerCancels, Exited, lifeVars, LifeInv, LifeTypeOK
  <2>4. main' = "join" => main \in {"wait", "join"}
    BY <1>3 DEF OnSignal, OnContextDone, Signal, CallerCancels, Exited, lifeVars
  <2> QED
    BY <2>1, <2>2, <2>3, <2>4 DEF LifeInv, LifeTypeOK, NoSendOnClosed
<1>4. CASE WgWait
  BY <1>4 DEF WgWait, allJoined, LifeInv, LifeTypeOK, NoSendOnClosed, Running
<1>5. CASE Cleanup \/ Exit
  <2>1. Running' = Running
    BY <1>5 DEF Cleanup, Exit, Running
  <2>2. CASE Cleanup
    BY <2>1, <2>2 DEF Cleanup, LifeInv, LifeTypeOK, NoSendOnClosed
  <2>3. CASE Exit
    BY <2>1, <2>3 DEF Exit, LifeInv, LifeTypeOK, NoSendOnClosed
  <2> QED
    BY <1>5, <2>2, <2>3
<1>6. ASSUME NEW l \in AllLoops, LoopWork(l)
      PROVE  LifeInv'
  <2>1. main # "start"
    BY <1>6 DEF LoopWork, LifeInv
  <2>2. main = "dial" => l # StreamLoop
    BY <1>6 DEF LoopWork, LifeInv
  <2> QED
    BY <1>6, <2>1, <2>2, LoopMoves DEF LoopWork, LifeInv, LifeTypeOK, NoSendOnClosed, AllLoops
<1>7. ASSUME NEW l \in AllLoops, LoopEnqueue(l)
      PROVE  LifeInv'
  <2>1. main # "start" /\ (main = "dial" => l # StreamLoop)
    BY <1>7 DEF LoopEnqueue, LifeInv
  <2>2. ledgerOpen
    BY <1>7 DEF LoopEnqueue, LifeInv, LifeTypeOK, Running
  <2> QED
    BY <1>7, <2>1, <2>2, LoopMoves
    DEF LoopEnqueue, LifeInv, LifeTypeOK, NoSendOnClosed, AllLoops
<1>8. ASSUME NEW l \in AllLoops, LoopReturn(l)
      PROVE  LifeInv'
  <2>1. l \in Running /\ Running' = Running \ {l}
    BY <1>8 DEF LoopReturn, LifeInv, LifeTypeOK, Running
  <2>2. wg' = Cardinality(Running')
    BY <1>8, <2>1, FS_RemoveElement DEF LoopReturn, LifeInv
  <2>3. wg' \in 0..Cardinality(AllLoops)
    <3>1. Running' \subseteq AllLoops /\ IsFiniteSet(AllLoops)
      BY <2>1 DEF Running
    <3>2. Cardinality(Running') <= Cardinality(AllLoops) /\ IsFiniteSet(Running')
      BY <3>1, FS_Subset
    <3>3. Cardinality(Running') \in Nat /\ Cardinality(AllLoops) \in Nat
      BY <3>1, <3>2, FS_CardinalityType
    <3> QED
      BY <2>2, <3>2, <3>3, SMTT(20)
  <2>4. main # "start" /\ (main = "dial" => l # StreamLoop) /\ main # "cleanup"
    BY <1>8, <2>1 DEF LoopReturn, LifeInv
  <2> QED
    BY <1>8, <2>2, <2>3, <2>4 DEF LoopReturn, LifeInv, LifeTypeOK, NoSendOnClosed, AllLoops
<1>9. CASE UNCHANGED lifeVars
  BY <1>9 DEF lifeVars, LifeInv, LifeTypeOK, NoSendOnClosed, Running
<1> QED
  BY <1>1, <1>2, <1>3, <1>4, <1>5, <1>6, <1>7, <1>8, <1>9 DEF LifeNext

\* The invariant keeps the loops off a closed channel.
LEMMA LifeInvJoins ==
    LifeInv => LifeTypeOK /\ NoSendOnClosed
BY DEF LifeInv

\* run joins every loop before its caller's cleanup closes the ledger, so no loop
\* ever enqueues on a closed channel, whatever the loops are.
THEOREM JoinedBeforeClose == LifeSpec => [](LifeTypeOK /\ NoSendOnClosed)
BY LifeInvJoins, LifeInvInit, LifeInvStep, PTL DEF LifeSpec
=============================================================================
