---------------------------- MODULE QueueProofs -----------------------------
(***************************************************************************)
(* What the executor reads from its two queues, for every value of the     *)
(* constants: the arb stream loses and reorders nothing in silence, and    *)
(* the pending queue forgets no bundle but one queued during a poll.  The  *)
(* lemmas about sequences serve the ledger's channel too.  The results of  *)
(* the bundles pass through a ring, and the adaptive tip that follows them *)
(* stays usable and in step for every configuration that the loader        *)
(* accepts, every ring size and every sequence of outcomes.                *)
(***************************************************************************)
EXTENDS ArbStream, InclusionPoll, TipShare, FiniteSetTheorems, SequenceTheorems,
        NaturalsInduction, WellFoundedInduction, TLAPS

\* How long a solver may take for a leaf.
USE ZenonT(20), SMTT(20)

(* Queues.                                                                 *)

\* The elements of a sequence after an Append, as a send on a channel makes it.
LEMMA RangeAppend ==
    ASSUME NEW S, NEW s \in Seq(S), NEW e \in S
    PROVE  Range(Append(s, e)) = Range(s) \union {e} /\ Append(s, e) \in Seq(S)
<1> DEFINE t == Append(s, e)
<1>1. /\ Len(s) \in Nat /\ DOMAIN s = 1..Len(s) /\ t \in Seq(S)
      /\ DOMAIN t = 1..(Len(s) + 1) /\ t[Len(s) + 1] = e
      /\ \A i \in 1..Len(s) : t[i] = s[i]
  BY SMTT(20)
<1> HIDE DEF t
<1>2. \A i \in 1..(Len(s) + 1) : i \in 1..Len(s) \/ i = Len(s) + 1
  BY <1>1, SMTT(20)
<1>3. \A i \in 1..Len(s) : i \in 1..(Len(s) + 1)
  BY <1>1, SMTT(20)
<1>4. Len(s) + 1 \in 1..(Len(s) + 1)
  BY <1>1, SMTT(20)
<1>5. Range(t) = Range(s) \union {e}
  BY <1>1, <1>2, <1>3, <1>4 DEF Range
<1> QED
  BY <1>1, <1>5 DEF t

\* The elements of a sequence are its head's and its tail's, as a receive leaves them.
LEMMA RangeTail ==
    ASSUME NEW S, NEW s \in Seq(S), s # <<>>
    PROVE  Range(s) = {Head(s)} \union Range(Tail(s)) /\ Head(s) \in S /\ Tail(s) \in Seq(S)
<1>1. Len(s) \in Nat /\ Len(s) >= 1 /\ DOMAIN s = 1..Len(s)
  BY SMTT(20)
<1>2. Tail(s) \in Seq(S) /\ Len(Tail(s)) = Len(s) - 1
      /\ \A i \in 1..(Len(s) - 1) : Tail(s)[i] = s[i + 1]
  BY <1>1, SMTT(20)
<1>3. DOMAIN Tail(s) = 1..(Len(s) - 1)
  BY <1>2, SMTT(20)
<1>4. Head(s) = s[1]
  BY SMTT(20)
<1>5. ASSUME NEW i \in DOMAIN s
      PROVE  s[i] \in {Head(s)} \union Range(Tail(s))
  <2>1. CASE i = 1
    BY <1>4, <2>1
  <2>2. CASE i # 1
    <3>1. i - 1 \in 1..(Len(s) - 1) /\ Tail(s)[i - 1] = s[i]
      BY <1>1, <1>2, <2>2, SMTT(20)
    <3> QED
      BY <1>3, <3>1 DEF Range
  <2> QED
    BY <2>1, <2>2
<1>6. ASSUME NEW i \in DOMAIN Tail(s)
      PROVE  Tail(s)[i] \in Range(s)
  <2>1. i + 1 \in DOMAIN s /\ Tail(s)[i] = s[i + 1]
    BY <1>1, <1>2, <1>3, SMTT(20)
  <2> QED
    BY <2>1 DEF Range
<1>7. Head(s) \in Range(s)
  BY <1>1, <1>4, SMTT(20) DEF Range
<1> QED
  BY <1>1, <1>2, <1>4, <1>5, <1>6, <1>7, SMTT(20) DEF Range

\* No element twice.
Distinct(s) == \A i, j \in DOMAIN s : s[i] = s[j] => i = j

\* An element that was not there keeps a sequence free of repetitions.
LEMMA DistinctAppend ==
    ASSUME NEW S, NEW s \in Seq(S), NEW e \in S, Distinct(s), e \notin Range(s)
    PROVE  Distinct(Append(s, e))
<1> DEFINE t == Append(s, e)
<1>1. /\ Len(s) \in Nat /\ DOMAIN s = 1..Len(s)
      /\ DOMAIN t = 1..(Len(s) + 1) /\ t[Len(s) + 1] = e
      /\ \A i \in 1..Len(s) : t[i] = s[i]
  BY SMTT(20)
<1> HIDE DEF t
<1>2. \A i \in 1..Len(s) : s[i] # e
  BY <1>1 DEF Range
<1>3. ASSUME NEW i \in DOMAIN t, NEW j \in DOMAIN t, t[i] = t[j]
      PROVE  i = j
  <2>1. CASE i = Len(s) + 1 \/ j = Len(s) + 1
    BY <1>1, <1>2, <1>3, <2>1, SMTT(20)
  <2>2. CASE i \in 1..Len(s) /\ j \in 1..Len(s)
    BY <1>1, <1>3, <2>2 DEF Distinct
  <2> QED
    BY <1>1, <2>1, <2>2, SMTT(20)
<1> QED
  BY <1>3 DEF Distinct, t

\* Without its head a sequence has no repetitions either, and the head is gone.
LEMMA DistinctTail ==
    ASSUME NEW S, NEW s \in Seq(S), s # <<>>, Distinct(s)
    PROVE  Distinct(Tail(s)) /\ Head(s) \notin Range(Tail(s))
<1>1. /\ Len(s) \in Nat /\ Len(s) >= 1 /\ DOMAIN s = 1..Len(s) /\ Head(s) = s[1]
      /\ DOMAIN Tail(s) = 1..(Len(s) - 1)
      /\ \A i \in 1..(Len(s) - 1) : Tail(s)[i] = s[i + 1]
  BY SMTT(20)
<1>2. ASSUME NEW i \in DOMAIN Tail(s)
      PROVE  i + 1 \in DOMAIN s /\ Tail(s)[i] = s[i + 1] /\ i + 1 # 1 /\ i \in Int
  BY <1>1, SMTT(20)
<1>3. Distinct(Tail(s))
  <2> SUFFICES ASSUME NEW i \in DOMAIN Tail(s), NEW j \in DOMAIN Tail(s), Tail(s)[i] = Tail(s)[j]
               PROVE  i = j
    BY DEF Distinct
  <2>1. i + 1 = j + 1
    BY <1>2 DEF Distinct
  <2> QED
    BY <1>2, <2>1, SMTT(20)
<1>4. ASSUME NEW i \in DOMAIN Tail(s) PROVE Tail(s)[i] # Head(s)
  <2>1. 1 \in DOMAIN s
    BY <1>1, SMTT(20)
  <2> QED
    BY <1>1, <1>2, <2>1 DEF Distinct
<1> QED
  BY <1>3, <1>4 DEF Range

\* The empty sequence has no elements and repeats none.
LEMMA NoElements ==
    ASSUME NEW S, NEW s \in Seq(S), Len(s) = 0
    PROVE  Range(s) = {} /\ Distinct(s)
<1>1. DOMAIN s = {}
  BY SMTT(20)
<1>2. Range(s) = {}
  BY <1>1 DEF Range
<1>3. Distinct(s)
  BY <1>1 DEF Distinct
<1> QED
  BY <1>2, <1>3

-----------------------------------------------------------------------------
(* The arb stream (ArbStream).                                             *)

\* A sequence of arbs in the order of publication, none twice.
Ascending(s) == \A i, j \in DOMAIN s : i < j => s[i] < s[j]

\* A number past all the others keeps a sequence ascending.
LEMMA AscendingAppend ==
    ASSUME NEW s \in Seq(Nat), NEW e \in Nat, Ascending(s), \A x \in Range(s) : x < e
    PROVE  Ascending(Append(s, e))
<1> DEFINE t == Append(s, e)
<1>1. /\ Len(s) \in Nat /\ DOMAIN s = 1..Len(s)
      /\ DOMAIN t = 1..(Len(s) + 1) /\ t[Len(s) + 1] = e
      /\ \A i \in 1..Len(s) : t[i] = s[i]
  BY SMTT(20)
<1> HIDE DEF t
<1>2. \A i \in 1..Len(s) : s[i] < e
  BY <1>1 DEF Range
<1>3. ASSUME NEW i \in DOMAIN t, NEW j \in DOMAIN t, i < j
      PROVE  t[i] < t[j]
  <2>1. CASE j = Len(s) + 1
    <3>1. i \in 1..Len(s)
      BY <1>1, <1>3, <2>1, SMTT(20)
    <3> QED
      BY <1>1, <1>2, <2>1, <3>1
  <2>2. CASE j # Len(s) + 1
    <3>1. i \in 1..Len(s) /\ j \in 1..Len(s)
      BY <1>1, <1>3, <2>2, SMTT(20)
    <3> QED
      BY <1>1, <1>3, <3>1 DEF Ascending
  <2> QED
    BY <2>1, <2>2
<1> QED
  BY <1>3 DEF Ascending, t

\* The tail of an ascending sequence ascends, past its head.
LEMMA AscendingTail ==
    ASSUME NEW s \in Seq(Nat), s # <<>>, Ascending(s)
    PROVE  Ascending(Tail(s)) /\ \A x \in Range(Tail(s)) : Head(s) < x
<1> DEFINE t == Tail(s)
<1>1. /\ Len(s) \in Nat /\ Len(s) >= 1 /\ DOMAIN s = 1..Len(s) /\ Head(s) = s[1]
      /\ DOMAIN t = 1..(Len(s) - 1)
      /\ \A i \in 1..(Len(s) - 1) : t[i] = s[i + 1]
  BY SMTT(20)
<1> HIDE DEF t
<1>2. \A i \in DOMAIN t : i + 1 \in DOMAIN s /\ t[i] = s[i + 1] /\ 1 < i + 1 /\ i \in Nat
  BY <1>1, SMTT(20)
<1>3. ASSUME NEW i \in DOMAIN t, NEW j \in DOMAIN t, i < j
      PROVE  t[i] < t[j]
  BY <1>2, <1>3, SMTT(20) DEF Ascending
<1>4. ASSUME NEW i \in DOMAIN t
      PROVE  Head(s) < t[i]
  <2>1. 1 \in DOMAIN s
    BY <1>1, SMTT(20)
  <2> QED
    BY <1>1, <1>2, <2>1 DEF Ascending
<1> QED
  BY <1>3, <1>4 DEF Ascending, Range, t

\* The forwarder's cursor is past everything buffered, what is buffered is past
\* everything received, and nothing is buffered while no stream is open.
StreamInv ==
    /\ StreamTypeOK
    /\ Newest <= MaxArbs
    /\ joined <= cursor /\ cursor <= Newest + 1
    /\ Ascending(received) /\ Ascending(buf)
    /\ \A x \in Range(received) \union Range(buf) : x < cursor
    /\ \A x \in Range(received), y \in Range(buf) : x < y
    /\ ~connected => buf = <<>>
    /\ NoSilentLoss

\* No stream is open and nothing has been published.
LEMMA StreamInvInit == StreamInit => StreamInv
<1> SUFFICES ASSUME StreamInit PROVE StreamInv
  OBVIOUS
<1>1. StreamTypeOK /\ Newest = 0
  <2>1. /\ <<>> \in Seq(StreamProfits) /\ <<>> \in Seq(1..MaxArbs)
        /\ Len(<<>>) = 0 /\ 0 <= Buffer /\ 1 \in 1..(MaxArbs + 1)
    BY StreamAssumption, SMTT(20)
  <2> QED
    BY <2>1 DEF StreamInit, StreamTypeOK, Newest, States
<1>2. Ascending(received) /\ Ascending(buf) /\ Range(received) = {} /\ Range(buf) = {}
  BY SMTT(20) DEF StreamInit, Ascending, Range
<1> QED
  BY <1>1, <1>2, StreamAssumption, SMTT(20) DEF StreamInit, StreamInv, NoSilentLoss

\* Publishing, forwarding, receiving, lagging, a broken stream and a reconnection
\* preserve the invariant.
LEMMA StreamInvStep == StreamInv /\ [StreamNext]_streamVars => StreamInv'
<1> SUFFICES ASSUME StreamInv, [StreamNext]_streamVars PROVE StreamInv'
  OBVIOUS
<1> USE StreamAssumption
<1>0. /\ Newest \in Nat /\ Newest <= MaxArbs /\ DOMAIN profit = 1..Newest
      /\ cursor \in Nat /\ joined \in Nat /\ cursor >= 1 /\ joined >= 1
      /\ buf \in Seq(1..MaxArbs) /\ received \in Seq(1..MaxArbs)
      /\ profit \in Seq(StreamProfits)
  BY SMTT(20) DEF StreamInv, StreamTypeOK, Newest
<1>a. /\ buf \in Seq(Nat) /\ received \in Seq(Nat)
      /\ Range(buf) \subseteq 1..MaxArbs /\ Range(received) \subseteq 1..MaxArbs
      /\ Range(<<>>) = {} /\ Ascending(<<>>)
  BY <1>0, SMTT(20) DEF Range, Ascending
<1>1. ASSUME NEW p \in StreamProfits, Publish(p)
      PROVE  StreamInv'
  <2>1. /\ profit' \in Seq(StreamProfits) /\ Newest' = Newest + 1
        /\ \A i \in 1..Newest : profit'[i] = profit[i]
    BY <1>0, <1>1, SMTT(20) DEF Publish, Newest
  <2>2. lost' \subseteq 1..MaxArbs /\ lost \subseteq lost'
    BY <1>0, <1>1, SMTT(20) DEF Publish, StreamInv, StreamTypeOK
  <2>3. StreamTypeOK'
    BY <1>1, <2>1, <2>2 DEF Publish, stream, StreamInv, StreamTypeOK
  <2>4. NoSilentLoss'
    <3> SUFFICES ASSUME connected, NEW i \in joined..(Newest + 1)
                 PROVE  \/ i \in Range(received) \union Range(buf) \union skipped \union lost'
                        \/ i >= cursor \/ profit'[i] < threshold
      BY <1>1, <2>1 DEF Publish, stream, NoSilentLoss
    <3>1. CASE i = Newest + 1
      BY <3>1, <1>0 DEF StreamInv
    <3>2. CASE i # Newest + 1
      <4>1. i \in joined..Newest /\ i \in 1..Newest
        BY <1>0, <3>2, SMTT(20)
      <4> QED
        BY <2>1, <2>2, <4>1 DEF StreamInv, NoSilentLoss
    <3> QED
      BY <3>1, <3>2
  <2> QED
    BY <1>0, <1>1, <2>1, <2>3, <2>4, SMTT(20) DEF Publish, stream, StreamInv
<1>2. ASSUME NEW p \in StreamProfits, SetMinProfitETH(p)
      PROVE  StreamInv'
  BY <1>2 DEF SetMinProfitETH, stream, StreamInv, StreamTypeOK, Newest, NoSilentLoss
<1>3. ASSUME NEW s \in States, set_state(s)
      PROVE  StreamInv'
  BY <1>3 DEF set_state, stream, StreamInv, StreamTypeOK, Newest, NoSilentLoss
<1>4. CASE Connect
  <2>1. StreamTypeOK'
    BY <1>0, <1>4, SMTT(20) DEF Connect, stream_arbs, subscribePoint, StreamInv, StreamTypeOK, Newest
  <2>2. \A x \in Range(received) : x < cursor'
    BY <1>0, <1>a, <1>4, SMTT(20) DEF Connect, stream_arbs, subscribePoint, StreamInv, Newest
  <2>3. NoSilentLoss'
    BY <1>0, <1>4, SMTT(20) DEF Connect, stream_arbs, subscribePoint, NoSilentLoss, Newest
  <2> QED
    BY <1>0, <1>a, <1>4, <2>1, <2>2, <2>3, SMTT(20)
       DEF Connect, stream_arbs, subscribePoint, StreamInv, Newest
<1>5. CASE Lagged
  <2>1. oldest \in Nat /\ cursor < oldest /\ oldest <= Newest
    BY <1>0, <1>5, SMTT(20) DEF Lagged, oldest
  <2>2. skipped' = skipped \union (cursor..(oldest - 1)) /\ cursor' = oldest
    BY <1>5 DEF Lagged
  <2>3. StreamTypeOK'
    BY <1>0, <1>5, <2>1, <2>2, SMTT(20) DEF Lagged, StreamInv, StreamTypeOK
  <2>4. NoSilentLoss'
    BY <1>0, <1>5, <2>1, <2>2, SMTT(20) DEF Lagged, StreamInv, NoSilentLoss, Newest
  <2>5. \A x \in Range(received) \union Range(buf) : x < cursor'
    BY <1>0, <1>a, <2>1, <2>2, SMTT(20) DEF StreamInv
  <2> QED
    BY <1>0, <1>5, <2>1, <2>2, <2>3, <2>4, <2>5, SMTT(20) DEF Lagged, StreamInv, Newest
<1>6. CASE Forward
  <2>1. cursor \in 1..Newest /\ cursor' = cursor + 1 /\ cursor \in 1..MaxArbs
    BY <1>0, <1>6, SMTT(20) DEF Forward
  <2>2. CASE passes(cursor)
    <3>1. buf' = Append(buf, cursor) /\ Len(buf) < Buffer
      BY <1>6, <2>2 DEF Forward, room
    <3>2. Range(buf') = Range(buf) \union {cursor} /\ buf' \in Seq(1..MaxArbs)
      BY <1>0, <2>1, <3>1, RangeAppend, SMTT(20)
    <3>3. StreamTypeOK'
      BY <1>0, <1>6, <2>1, <3>1, <3>2, SMTT(20) DEF Forward, StreamInv, StreamTypeOK
    <3>4. Ascending(buf)'
      BY <1>0, <1>a, <3>1, AscendingAppend DEF StreamInv
    <3>5. NoSilentLoss'
      BY <1>0, <1>6, <2>1, <3>2, SMTT(20) DEF Forward, StreamInv, NoSilentLoss, Newest
    <3>6. /\ \A x \in Range(received) \union Range(buf') : x < cursor'
          /\ \A x \in Range(received), y \in Range(buf') : x < y
      BY <1>0, <1>a, <2>1, <3>2, SMTT(20) DEF StreamInv
    <3> QED
      BY <1>0, <1>6, <2>1, <3>3, <3>4, <3>5, <3>6, SMTT(20) DEF Forward, StreamInv, Newest
  <2>3. CASE ~passes(cursor)
    <3>1. buf' = buf
      BY <1>6, <2>3 DEF Forward
    <3>2. profit[cursor] \in Nat /\ threshold \in Nat /\ profit[cursor] < threshold
      <4>1. profit[cursor] \in StreamProfits /\ threshold \in StreamProfits
        BY <1>0, <2>1, SMTT(20) DEF StreamInv, StreamTypeOK
      <4>2. profit[cursor] \in Nat /\ threshold \in Nat
        BY <4>1
      <4>3. ~(profit[cursor] >= threshold)
        BY <2>3 DEF passes
      <4> QED
        BY <4>2, <4>3, SMTT(20)
    <3>3. StreamTypeOK'
      BY <1>0, <1>6, <2>1, <3>1, SMTT(20) DEF Forward, StreamInv, StreamTypeOK
    <3>4. NoSilentLoss'
      BY <1>0, <1>6, <2>1, <3>1, <3>2, SMTT(20) DEF Forward, StreamInv, NoSilentLoss, Newest
    <3>5. \A x \in Range(received) \union Range(buf) : x < cursor'
      BY <1>0, <1>a, <2>1, SMTT(20) DEF StreamInv
    <3> QED
      BY <1>0, <1>6, <2>1, <3>1, <3>3, <3>4, <3>5, SMTT(20) DEF Forward, StreamInv, Newest
  <2> QED
    BY <2>2, <2>3
<1>7. CASE Recv
  <2>1. /\ received' = Append(received, Head(buf)) /\ buf' = Tail(buf) /\ buf # <<>>
        /\ UNCHANGED <<system_state, profit, minProfit, connected, threshold, joined, cursor, skipped, lost>>
        /\ connected
    BY <1>7 DEF Recv
  <2>2. /\ Range(buf) = {Head(buf)} \union Range(buf')
        /\ Head(buf) \in 1..MaxArbs /\ buf' \in Seq(1..MaxArbs)
    BY <1>0, <2>1, RangeTail
  <2>3. Range(received') = Range(received) \union {Head(buf)} /\ received' \in Seq(1..MaxArbs)
    BY <1>0, <2>1, <2>2, RangeAppend, SMTT(20)
  <2>4. Len(buf') <= Buffer
    BY <1>0, <2>1, SMTT(20) DEF StreamInv, StreamTypeOK
  <2>5. StreamTypeOK'
    BY <2>1, <2>2, <2>3, <2>4 DEF StreamInv, StreamTypeOK
  <2>6. Ascending(buf') /\ \A y \in Range(buf') : Head(buf) < y
    BY <1>a, <2>1, AscendingTail DEF StreamInv
  <2>7. Ascending(received')
    BY <1>a, <2>1, <2>2, AscendingAppend, SMTT(20) DEF StreamInv
  <2>8. /\ \A x \in Range(received') \union Range(buf') : x < cursor
        /\ \A x \in Range(received'), y \in Range(buf') : x < y
    BY <2>2, <2>3, <2>6 DEF StreamInv
  <2>9. NoSilentLoss'
    BY <2>1, <2>2, <2>3 DEF StreamInv, NoSilentLoss, Newest
  <2> QED
    BY <2>1, <2>5, <2>6, <2>7, <2>8, <2>9 DEF StreamInv, Newest
<1>8. CASE Disconnect
  <2>1. /\ lost' \subseteq 1..MaxArbs /\ cursor' \in 1..(MaxArbs + 1)
        /\ buf' \in Seq(1..MaxArbs) /\ Len(buf') <= Buffer
    <3>1. lost' = lost \union Range(buf) \union (cursor..Newest) /\ cursor' = Newest + 1 /\ buf' = <<>>
      BY <1>8 DEF Disconnect
    <3>2. lost \subseteq 1..MaxArbs /\ Range(buf) \subseteq 1..MaxArbs
      BY <1>a DEF StreamInv, StreamTypeOK
    <3>3. cursor..Newest \subseteq 1..MaxArbs /\ Newest + 1 \in 1..(MaxArbs + 1)
      BY <1>0, SMTT(20)
    <3>4. lost' \subseteq 1..MaxArbs
      BY <3>1, <3>2, <3>3
    <3>5. <<>> \in Seq(1..MaxArbs) /\ Len(<<>>) <= Buffer
      BY SMTT(20)
    <3> QED
      BY <3>1, <3>3, <3>4, <3>5
  <2>2. StreamTypeOK'
    BY <1>8, <2>1 DEF Disconnect, StreamInv, StreamTypeOK
  <2>3. \A x \in Range(received) : x < cursor'
    BY <1>0, <1>a, <1>8, SMTT(20) DEF Disconnect, StreamInv
  <2> QED
    BY <1>0, <1>a, <1>8, <2>2, <2>3, SMTT(20) DEF Disconnect, StreamInv, NoSilentLoss, Newest
<1>9. CASE UNCHANGED streamVars
  BY <1>9 DEF streamVars, stream, StreamInv, StreamTypeOK, Newest, NoSilentLoss
<1> QED
  BY <1>1, <1>2, <1>3, <1>4, <1>5, <1>6, <1>7, <1>8, <1>9 DEF StreamNext, submit_arb

\* The invariant gives what the executor may rely on.
LEMMA StreamInvFaithful ==
    StreamInv => StreamTypeOK /\ InOrderOnce /\ NoSilentLoss
BY DEF StreamInv, Ascending, InOrderOnce

\* The executor sees each arb at most once and in the order of publication, and none
\* is lost unless the forwarder lagged or the stream broke, for any ring, buffer and
\* number of arbs.
THEOREM StreamAlwaysFaithful == StreamSpec => [](StreamTypeOK /\ InOrderOnce /\ NoSilentLoss)
BY StreamInvFaithful, StreamInvInit, StreamInvStep, PTL DEF StreamSpec

-----------------------------------------------------------------------------
(* pollPendingInclusions (InclusionPoll).                                  *)

\* The bundles resolveInclusion was called for.
Names == {r[1] : r \in Range(resolved)}

\* Everything the loop knows was submitted before, the copy being polled and what
\* it keeps are apart, neither holds a bundle twice or one that is settled, and
\* what was queued between polls is in one of them.
PollInv ==
    /\ PollTypeOK /\ ResolvedOnce /\ MissOnlyAfterWindow
    /\ pollTime <= pollNow
    /\ \A b \in DOMAIN submittedAt : submittedAt[b] \in Nat /\ submittedAt[b] <= pollNow
    /\ Range(pendingQueue) \subseteq Submitted /\ Range(batch) \subseteq Submitted
    /\ Range(remaining) \subseteq Submitted /\ Names \subseteq Submitted /\ gaveUp \subseteq Submitted
    /\ ~polling => Distinct(pendingQueue) /\ Range(pendingQueue) \cap Names = {}
    /\ polling =>
         /\ Distinct(batch) /\ Distinct(remaining) /\ Range(batch) \cap Range(remaining) = {}
         /\ Range(batch) \cap Names = {} /\ Range(remaining) \cap Names = {}
    /\ Submitted \ raced \subseteq
         (IF polling THEN Range(batch) \cup Range(remaining) ELSE Range(pendingQueue)) \cup Names \cup gaveUp

\* Nothing has been submitted.
LEMMA PollInvInit == PollInit => PollInv
<1> SUFFICES ASSUME PollInit PROVE PollInv
  OBVIOUS
<1>1. /\ Range(pendingQueue) = {} /\ Range(batch) = {} /\ Range(remaining) = {} /\ Range(resolved) = {}
      /\ Distinct(pendingQueue) /\ DOMAIN submittedAt = {}
  <2>1. /\ pendingQueue \in Seq(PollBundles) /\ Len(pendingQueue) = 0
        /\ batch \in Seq(PollBundles) /\ Len(batch) = 0
        /\ remaining \in Seq(PollBundles) /\ Len(remaining) = 0
        /\ resolved \in Seq(PollBundles \X BOOLEAN) /\ Len(resolved) = 0
    BY SMTT(20) DEF PollInit
  <2>2. DOMAIN submittedAt = {}
    BY SMTT(20) DEF PollInit
  <2> QED
    BY <2>1, <2>2, NoElements
<1>2. Names = {}
  BY <1>1 DEF Names
<1>3. PollTypeOK
  <2>1. /\ pendingQueue \in Seq(PollBundles) /\ batch \in Seq(PollBundles) /\ batch = <<>>
        /\ remaining \in Seq(PollBundles) /\ resolved \in Seq(PollBundles \X BOOLEAN)
    BY SMTT(20) DEF PollInit
  <2>2. pollNow = 0 /\ pollTime = 0 /\ polling = FALSE /\ gaveUp = {} /\ raced = {}
    BY DEF PollInit
  <2> QED
    BY <1>1, <2>1, <2>2 DEF PollTypeOK
<1>4. ResolvedOnce
  BY SMTT(20) DEF PollInit, ResolvedOnce
<1> QED
  BY <1>1, <1>2, <1>3, <1>4, SMTT(20) DEF PollInit, PollInv, MissOnlyAfterWindow, Submitted

\* The bundles resolved after one more call, each still once.
LEMMA ResolveOne ==
    ASSUME PollInv, NEW b \in PollBundles, NEW included \in BOOLEAN, b \notin Names,
           resolved' = Append(resolved, <<b, included>>)
    PROVE  /\ Names' = Names \cup {b} /\ ResolvedOnce' /\ resolved' \in Seq(PollBundles \X BOOLEAN)
           /\ Settled' = Settled \cup {<<b, included>>}
<1>1. resolved \in Seq(PollBundles \X BOOLEAN) /\ <<b, included>> \in PollBundles \X BOOLEAN
  BY DEF PollInv, PollTypeOK
<1>2. Range(resolved') = Range(resolved) \cup {<<b, included>>} /\ resolved' \in Seq(PollBundles \X BOOLEAN)
  BY <1>1, RangeAppend, SMTT(20)
<1>3. Names' = Names \cup {b}
  <2>1. <<b, included>>[1] = b
    OBVIOUS
  <2>2. \A R, y : {x[1] : x \in R \cup {y}} = {x[1] : x \in R} \cup {y[1]}
    OBVIOUS
  <2>3. {x[1] : x \in Range(resolved')} = {x[1] : x \in Range(resolved)} \cup {b}
    BY <1>2, <2>1, <2>2
  <2> QED
    BY <2>3 DEF Names
<1>4. /\ Len(resolved) \in Nat /\ Len(resolved') = Len(resolved) + 1
      /\ resolved'[Len(resolved) + 1] = <<b, included>>
      /\ \A i \in 1..Len(resolved) : resolved'[i] = resolved[i]
  BY <1>1, SMTT(20)
<1>5. \A i \in 1..Len(resolved) : resolved[i][1] # b
  BY <1>1, SMTT(20) DEF Names, Range
<1>6. ASSUME NEW i \in 1..Len(resolved'), NEW j \in 1..Len(resolved'), resolved'[i][1] = resolved'[j][1]
      PROVE  i = j
  <2>1. CASE i = Len(resolved) + 1 \/ j = Len(resolved) + 1
    BY <1>4, <1>5, <1>6, <2>1, SMTT(20)
  <2>2. CASE i \in 1..Len(resolved) /\ j \in 1..Len(resolved)
    BY <1>4, <1>6, <2>2 DEF PollInv, ResolvedOnce
  <2> QED
    BY <1>4, <2>1, <2>2, SMTT(20)
<1> QED
  BY <1>2, <1>3, <1>6 DEF ResolvedOnce, Settled

\* Submissions, the copy a poll takes, its receipts and its write-back preserve the
\* invariant.
LEMMA PollInvStep == PollInv /\ [PollNext]_pollVars => PollInv'
<1> SUFFICES ASSUME PollInv, [PollNext]_pollVars PROVE PollInv'
  OBVIOUS
<1> USE PollAssumption
<1>0. /\ pollNow \in Nat /\ pollTime \in Nat /\ polling \in BOOLEAN
      /\ pendingQueue \in Seq(PollBundles) /\ batch \in Seq(PollBundles)
      /\ remaining \in Seq(PollBundles) /\ resolved \in Seq(PollBundles \X BOOLEAN)
  BY DEF PollInv, PollTypeOK
<1>1. CASE PollTick
  <2>1. UNCHANGED <<queueVars, batchVars, resolved, gaveUp>> /\ pollNow' = pollNow + 1
    BY <1>1 DEF PollTick
  <2>2. PollTypeOK' /\ ResolvedOnce' /\ Names' = Names /\ Submitted' = Submitted
    BY <1>0, <2>1, SMTT(20) DEF PollInv, PollTypeOK, ResolvedOnce, Names, queueVars, batchVars, Submitted
  <2>3. MissOnlyAfterWindow'
    <3>1. Settled' = Settled /\ gaveUp' = gaveUp /\ submittedAt' = submittedAt
      BY <2>1 DEF Settled, queueVars, batchVars
    <3>2. \A b \in Submitted : submittedAt[b] \in Nat
      BY DEF PollInv, Submitted
    <3>3. \A b \in Submitted : <<b, FALSE>> \in Settled \/ b \in gaveUp
                                 => pollNow - submittedAt[b] >= GiveUpAfter
      BY DEF PollInv, MissOnlyAfterWindow
    <3>4. \A b \in Submitted : pollNow - submittedAt[b] >= GiveUpAfter
                                 => pollNow' - submittedAt[b] >= GiveUpAfter
      BY <1>0, <2>1, <3>2, SMTT(20)
    <3> QED
      BY <2>2, <3>1, <3>3, <3>4 DEF MissOnlyAfterWindow
  <2> QED
    BY <1>0, <2>1, <2>2, <2>3, SMTT(20) DEF PollInv, queueVars, batchVars
<1>2. ASSUME NEW b \in PollBundles, enqueuePendingBundle(b)
      PROVE  PollInv'
  <2>0. /\ b \notin Submitted /\ pendingQueue' = Append(pendingQueue, b)
        /\ UNCHANGED <<pollNow, batch, polling, pollTime, remaining, resolved, gaveUp>>
    BY <1>2 DEF enqueuePendingBundle, batchVars, Submitted
  <2>1. DOMAIN submittedAt' = DOMAIN submittedAt \cup {b} /\ Submitted' = Submitted \cup {b}
    BY <1>2 DEF enqueuePendingBundle, Submitted
  <2>2. submittedAt'[b] = pollNow /\ \A x \in Submitted : submittedAt'[x] = submittedAt[x]
    BY <1>2, <2>0 DEF enqueuePendingBundle, Submitted
  <2>3. Range(pendingQueue') = Range(pendingQueue) \cup {b} /\ pendingQueue' \in Seq(PollBundles)
    BY <1>0, <2>0, RangeAppend
  <2>4. Names' = Names /\ Settled' = Settled /\ ResolvedOnce'
    BY <2>0 DEF Names, Settled, PollInv, ResolvedOnce
  <2>5. PollTypeOK'
    BY <1>2, <2>0, <2>1, <2>3 DEF PollInv, PollTypeOK, enqueuePendingBundle, Submitted
  <2>6. MissOnlyAfterWindow'
    <3>1. \A x \in Submitted : <<x, FALSE>> \in Settled \/ x \in gaveUp
                               => pollNow - submittedAt[x] >= GiveUpAfter
      BY DEF PollInv, MissOnlyAfterWindow
    <3>2. <<b, FALSE>> \notin Settled /\ b \notin gaveUp
      BY <2>0, SMTT(20) DEF PollInv, Names, Settled
    <3> QED
      BY <2>0, <2>1, <2>2, <2>4, <3>1, <3>2 DEF MissOnlyAfterWindow
  <2>7. \A x \in DOMAIN submittedAt' : submittedAt'[x] \in Nat /\ submittedAt'[x] <= pollNow
    BY <1>0, <2>1, <2>2, SMTT(20) DEF PollInv, Submitted
  <2>8. ~polling => Distinct(pendingQueue')
    BY <1>0, <2>0, DistinctAppend DEF PollInv
  <2>9. /\ raced' = IF polling THEN raced \cup {b} ELSE raced
        /\ b \notin Names
    BY <1>2, <2>0 DEF enqueuePendingBundle, PollInv
  <2>10. Submitted' \ raced' \subseteq
         (IF polling THEN Range(batch) \cup Range(remaining) ELSE Range(pendingQueue')) \cup Names \cup gaveUp
    BY <2>1, <2>3, <2>9 DEF PollInv
  <2> QED
    BY <2>0, <2>1, <2>3, <2>4, <2>5, <2>6, <2>7, <2>8, <2>9, <2>10 DEF PollInv
<1>3. CASE PollStart
  <2>0. /\ ~polling /\ polling' /\ polling' \in BOOLEAN /\ batch' = pendingQueue /\ remaining' = <<>> /\ pollTime' = pollNow
        /\ UNCHANGED <<pollNow, pendingQueue, submittedAt, raced, resolved, gaveUp>>
    BY <1>3 DEF PollStart, queueVars
  <2>1. Names' = Names /\ Settled' = Settled /\ ResolvedOnce' /\ Submitted' = Submitted
    BY <2>0 DEF Names, Settled, PollInv, ResolvedOnce, Submitted
  <2>2. Range(remaining') = {} /\ Distinct(remaining') /\ remaining' \in Seq(PollBundles)
    <3>1. remaining' \in Seq(PollBundles) /\ Len(remaining') = 0
      BY <2>0, SMTT(20)
    <3> QED
      BY <3>1, NoElements
  <2>3. PollTypeOK'
    BY <1>0, <2>0, <2>2 DEF PollInv, PollTypeOK
  <2>4. MissOnlyAfterWindow'
    BY <2>0, <2>1 DEF PollInv, MissOnlyAfterWindow
  <2> QED
    BY <1>0, <2>0, <2>1, <2>2, <2>3, <2>4, SMTT(20) DEF PollInv
<1>4. ASSUME NEW answer \in Answers, PollAnswer(answer)
      PROVE  PollInv'
  <2> DEFINE b == Head(batch)
  <2>0. /\ polling /\ batch # <<>> /\ batch' = Tail(batch)
        /\ UNCHANGED <<pollNow, pendingQueue, submittedAt, raced, polling, pollTime>>
    BY <1>4 DEF PollAnswer, queueVars
  <2>1. Range(batch) = {b} \cup Range(batch') /\ b \in PollBundles /\ batch' \in Seq(PollBundles)
    BY <1>0, <2>0, RangeTail
  <2>2. Distinct(batch') /\ b \notin Range(batch')
    BY <1>0, <2>0, DistinctTail DEF PollInv
  <2>3. /\ b \in Submitted /\ b \notin Range(remaining) /\ b \notin Names
        /\ submittedAt[b] \in Nat
    BY <2>0, <2>1 DEF PollInv, Submitted
  <2>4. Submitted' = Submitted
    BY <2>0 DEF Submitted
  <2>5. \/ Keep(b)
        \/ resolveInclusion(b, TRUE)
        \/ Expired(b) /\ resolveInclusion(b, FALSE)
        \/ Expired(b) /\ gaveUp' = gaveUp \cup {b} /\ UNCHANGED <<remaining, resolved>>
    BY <1>4 DEF PollAnswer, Answers
  <2>6. Expired(b) => pollNow - submittedAt[b] >= GiveUpAfter
    BY <1>0, <2>3, SMTT(20) DEF Expired, PollInv
  <2> HIDE DEF b
  <2>7. CASE Keep(b)
    <3>0. remaining' = Append(remaining, b) /\ UNCHANGED <<resolved, gaveUp>>
      BY <2>7 DEF Keep
    <3>1. Range(remaining') = Range(remaining) \cup {b} /\ remaining' \in Seq(PollBundles)
      BY <1>0, <2>1, <3>0, RangeAppend, SMTT(20)
    <3>2. Distinct(remaining')
      BY <1>0, <2>0, <2>1, <2>3, <3>0, DistinctAppend DEF PollInv
    <3>3. Names' = Names /\ Settled' = Settled /\ ResolvedOnce'
      BY <3>0 DEF Names, Settled, PollInv, ResolvedOnce
    <3>4. PollTypeOK'
      BY <2>0, <2>1, <3>0, <3>1 DEF PollInv, PollTypeOK
    <3>5. MissOnlyAfterWindow'
      BY <2>0, <2>4, <3>0, <3>3 DEF PollInv, MissOnlyAfterWindow
    <3> QED
      BY <2>0, <2>1, <2>2, <2>3, <2>4, <3>0, <3>1, <3>2, <3>3, <3>4, <3>5 DEF PollInv
  <2>8. ASSUME NEW included \in BOOLEAN, resolveInclusion(b, included), included \/ Expired(b)
        PROVE  PollInv'
    <3>0. resolved' = Append(resolved, <<b, included>>) /\ UNCHANGED <<remaining, gaveUp>>
      BY <2>8 DEF resolveInclusion
    <3>1. /\ Names' = Names \cup {b} /\ ResolvedOnce' /\ resolved' \in Seq(PollBundles \X BOOLEAN)
          /\ Settled' = Settled \cup {<<b, included>>}
      BY <2>1, <2>3, <3>0, ResolveOne
    <3>2. PollTypeOK'
      BY <2>0, <2>1, <3>0, <3>1 DEF PollInv, PollTypeOK
    <3>3. ASSUME NEW x \in Submitted, <<x, FALSE>> \in Settled'
          PROVE  pollNow - submittedAt[x] >= GiveUpAfter
      <4>1. CASE <<x, FALSE>> \in Settled
        BY <4>1 DEF PollInv, MissOnlyAfterWindow
      <4>2. CASE <<x, FALSE>> = <<b, included>>
        BY <2>6, <2>8, <4>2
      <4> QED
        BY <3>1, <3>3, <4>1, <4>2
    <3>4. MissOnlyAfterWindow'
      BY <2>0, <2>4, <3>0, <3>3 DEF PollInv, MissOnlyAfterWindow
    <3> QED
      BY <2>0, <2>1, <2>2, <2>3, <2>4, <3>0, <3>1, <3>2, <3>4 DEF PollInv
  <2>9. CASE Expired(b) /\ gaveUp' = gaveUp \cup {b} /\ UNCHANGED <<remaining, resolved>>
    <3>1. Names' = Names /\ Settled' = Settled /\ ResolvedOnce'
      BY <2>9 DEF Names, Settled, PollInv, ResolvedOnce
    <3>2. PollTypeOK'
      BY <2>0, <2>1, <2>9 DEF PollInv, PollTypeOK
    <3>3. MissOnlyAfterWindow'
      BY <2>0, <2>4, <2>6, <2>9, <3>1 DEF PollInv, MissOnlyAfterWindow
    <3> QED
      BY <2>0, <2>1, <2>2, <2>3, <2>4, <2>9, <3>1, <3>2, <3>3 DEF PollInv
  <2> QED
    BY <2>5, <2>7, <2>8, <2>9
<1>5. CASE PollEnd
  <2>0. /\ polling /\ batch = <<>> /\ polling' = FALSE /\ pendingQueue' = remaining
        /\ UNCHANGED <<pollNow, submittedAt, raced, batch, pollTime, remaining, resolved, gaveUp>>
    BY <1>5 DEF PollEnd
  <2>1. Names' = Names /\ Settled' = Settled /\ ResolvedOnce' /\ Submitted' = Submitted
    BY <2>0 DEF Names, Settled, PollInv, ResolvedOnce, Submitted
  <2>2. Range(batch) = {}
    <3>1. batch \in Seq(PollBundles) /\ Len(batch) = 0
      BY <1>0, <2>0
    <3> QED
      BY <3>1, NoElements
  <2>3. PollTypeOK'
    BY <1>0, <2>0 DEF PollInv, PollTypeOK
  <2>4. MissOnlyAfterWindow'
    BY <2>0, <2>1 DEF PollInv, MissOnlyAfterWindow
  <2> QED
    BY <2>0, <2>1, <2>2, <2>3, <2>4 DEF PollInv
<1>6. CASE UNCHANGED pollVars
  <2>0. UNCHANGED <<pollNow, pendingQueue, submittedAt, raced, batch, polling, pollTime, remaining, resolved, gaveUp>>
    BY <1>6 DEF pollVars, queueVars, batchVars
  <2>1. Names' = Names /\ Settled' = Settled /\ ResolvedOnce' /\ Submitted' = Submitted
    BY <2>0 DEF Names, Settled, PollInv, ResolvedOnce, Submitted
  <2>2. PollTypeOK' /\ MissOnlyAfterWindow'
    BY <2>0, <2>1 DEF PollInv, PollTypeOK, MissOnlyAfterWindow
  <2> QED
    BY <2>0, <2>1, <2>2 DEF PollInv
<1> QED
  BY <1>1, <1>2, <1>3, <1>4, <1>5, <1>6 DEF PollNext

\* The invariant accounts for every bundle that no poll raced.
LEMMA PollInvSound ==
    PollInv => PollTypeOK /\ ResolvedOnce /\ MissOnlyAfterWindow /\ LostOnlyIfRaced
<1> SUFFICES ASSUME PollInv PROVE LostOnlyIfRaced
  BY DEF PollInv
<1>1. {r[1] : r \in Settled} = Names
  BY DEF Settled, Names
<1> QED
  BY <1>1 DEF PollInv, LostOnlyIfRaced

\* A bundle is resolved at most once, called a miss only after the whole retry
\* window, and lost only when it was queued while a poll was under way.
THEOREM PollAlwaysSound ==
    PollSpec => [](PollTypeOK /\ ResolvedOnce /\ MissOnlyAfterWindow /\ LostOnlyIfRaced)
BY PollInvSound, PollInvInit, PollInvStep, PTL DEF PollSpec

-----------------------------------------------------------------------------
(* The tip share of a bundle (TipShare).                                   *)

\* Clamping lands inside the bounds.
LEMMA ClampBounds ==
    ASSUME NEW v \in Int, NEW lo \in Nat, NEW hi \in Nat, lo <= hi
    PROVE  /\ clampTip(v, lo, hi) \in Nat
           /\ clampTip(v, lo, hi) >= lo /\ clampTip(v, lo, hi) <= hi
           /\ (v >= lo /\ v <= hi) => clampTip(v, lo, hi) = v
BY SMTT(20) DEF clampTip

\* CalculateTip returns a tip within the bounds, at most one step away.
LEMMA CalculateTipStep ==
    ASSUME TipTypeOK, currentTipPct >= MinTip, currentTipPct <= MaxTip
    PROVE  /\ CalculateTip \in Nat
           /\ CalculateTip >= MinTip /\ CalculateTip <= MaxTip
           /\ CalculateTip - currentTipPct \in -StepPct .. StepPct
BY TipConfigAssumption, SMTT(20) DEF TipTypeOK, CalculateTip, clampTip, StepPct

\* Every reachable state has the types of the ring buffer and the strategy.
THEOREM TipTypeCorrect == TipSpec => []TipTypeOK
<1> USE TipConfigAssumption
<1>1. TipInit => TipTypeOK
  BY ClampBounds, SMTT(20) DEF TipInit, TipTypeOK, InitialTip
<1>2. TipTypeOK /\ [TipNext]_tipShareVars => TipTypeOK'
  <2> SUFFICES ASSUME TipTypeOK, [TipNext]_tipShareVars PROVE TipTypeOK'
    OBVIOUS
  <2> USE DEF TipTypeOK
  <2>1. ASSUME NEW included \in BOOLEAN, RecordBundleResult(included) PROVE TipTypeOK'
    BY <2>1, SMTT(20) DEF RecordBundleResult, tipVars
  <2>2. CASE CalculateTipShare
    <3>1. CalculateTip \in Nat
      <4> DEFINE stepped == IF RateBelow(LowInclusion) THEN currentTipPct + StepPct
                   ELSE IF RateAbove(HighInclusion) THEN currentTipPct - StepPct
                   ELSE currentTipPct
      <4>1. stepped \in Int
        BY SMTT(20) DEF StepPct
      <4>2. CalculateTip = clampTip(stepped, MinTip, MaxTip)
        BY DEF CalculateTip
      <4> HIDE DEF stepped
      <4> QED BY <4>1, <4>2, ClampBounds, SMTT(20)
    <3>2. CASE FeedbackArrived
      <4>1. clampTip(CalculateTip, MinTip, MaxTip) \in Nat
        <5>1. ASSUME NEW v \in Nat PROVE clampTip(v, MinTip, MaxTip) \in Nat
          BY DEF clampTip
        <5> QED BY <3>1, <5>1
      <4>2. /\ currentTipPct' = CalculateTip
            /\ lastTipSharePct' = clampTip(CalculateTip, MinTip, MaxTip)
            /\ lastAdjustedAtIdx' = bundleResultIdx
            /\ askedAt' = Len(outcomes)
        BY <2>2, <3>2 DEF CalculateTipShare
      <4> QED BY <2>2, <3>1, <4>1, <4>2, SMTT(20) DEF CalculateTipShare, ringVars
    <3>3. CASE ~FeedbackArrived
      BY <2>2, <3>3, SMTT(20) DEF CalculateTipShare, ringVars, tipVars
    <3> QED BY <3>2, <3>3
  <2>3. CASE UNCHANGED tipShareVars
    BY <2>3 DEF tipShareVars, ringVars, tipVars
  <2> QED BY <2>1, <2>2, <2>3 DEF TipNext
<1> QED BY <1>1, <1>2, PTL DEF TipSpec

-----------------------------------------------------------------------------
\* The invariant behind the tip theorems: both copies of the tip agree inside
\* the bounds, and the gate's two counters mirror the history.
TipInv ==
    /\ StrategyInStep
    /\ TipPassesPreflight
    /\ bundleResultIdx = Len(outcomes)
    /\ lastAdjustedAtIdx = askedAt
    /\ askedAt <= Len(outcomes)

\* TipInv is inductive.
LEMMA TipInvariant == TipSpec => []TipInv
<1> USE TipConfigAssumption
<1>1. TipInit => TipInv
  BY ClampBounds, SMTT(20) DEF TipInit, TipInv, StrategyInStep, TipPassesPreflight, InitialTip
<1>2. TipTypeOK /\ TipInv /\ [TipNext]_tipShareVars => TipInv'
  <2> SUFFICES ASSUME TipTypeOK, TipInv, [TipNext]_tipShareVars PROVE TipInv'
    OBVIOUS
  <2> USE DEF TipTypeOK, TipInv, StrategyInStep, TipPassesPreflight
  <2>1. ASSUME NEW included \in BOOLEAN, RecordBundleResult(included) PROVE TipInv'
    BY <2>1, SMTT(20) DEF RecordBundleResult, tipVars
  <2>2. CASE CalculateTipShare /\ FeedbackArrived
    <3>1. CalculateTip \in Nat /\ CalculateTip >= MinTip /\ CalculateTip <= MaxTip
      BY CalculateTipStep
    <3> QED BY <2>2, <3>1, ClampBounds, SMTT(20) DEF CalculateTipShare, ringVars
  <2>3. CASE CalculateTipShare /\ ~FeedbackArrived
    BY <2>3, SMTT(20) DEF CalculateTipShare, FeedbackArrived, ringVars, tipVars
  <2>4. CASE UNCHANGED tipShareVars
    BY <2>4 DEF tipShareVars, ringVars, tipVars
  <2> QED BY <2>1, <2>2, <2>3, <2>4 DEF TipNext
<1> QED BY <1>1, <1>2, TipTypeCorrect, PTL DEF TipSpec

\* The tip is never the reason PreflightCheck rejects an arb.
THEOREM TipAlwaysUsable == TipSpec => []TipPassesPreflight
<1>1. TipInv => TipPassesPreflight
  BY DEF TipInv
<1> QED BY <1>1, TipInvariant, PTL

\* The manager's tip and the strategy's tip are always equal.
THEOREM StrategyAlwaysInStep == TipSpec => []StrategyInStep
<1>1. TipInv => StrategyInStep
  BY DEF TipInv
<1> QED BY <1>1, TipInvariant, PTL

\* A tip change is paid for by a new result and is at most one step.
THEOREM OneStepPerResultAlways == TipSpec => OneStepPerResult
<1> USE TipConfigAssumption
<1>1. TipTypeOK /\ TipInv /\ [TipNext]_tipShareVars =>
        [lastTipSharePct' # lastTipSharePct =>
          /\ askedAt < Len(outcomes)
          /\ lastTipSharePct' - lastTipSharePct \in -StepPct .. StepPct]_tipShareVars
  <2> SUFFICES ASSUME TipTypeOK, TipInv, TipNext, lastTipSharePct' # lastTipSharePct
               PROVE  /\ askedAt < Len(outcomes)
                      /\ lastTipSharePct' - lastTipSharePct \in -StepPct .. StepPct
    OBVIOUS
  <2> USE DEF TipTypeOK, TipInv, StrategyInStep, TipPassesPreflight
  <2>1. CalculateTipShare /\ FeedbackArrived
    BY DEF TipNext, RecordBundleResult, CalculateTipShare, tipVars
  <2>2. /\ CalculateTip \in Nat /\ CalculateTip >= MinTip /\ CalculateTip <= MaxTip
        /\ CalculateTip - currentTipPct \in -StepPct .. StepPct
    BY CalculateTipStep
  <2>3. lastTipSharePct' = CalculateTip
    BY <2>1, <2>2, ClampBounds, SMTT(20) DEF CalculateTipShare
  <2> QED BY <2>1, <2>2, <2>3 DEF FeedbackArrived
<1> QED BY <1>1, TipTypeCorrect, TipInvariant, PTL DEF TipSpec, OneStepPerResult

-----------------------------------------------------------------------------
\* A natural number has a quotient and a remainder: the smallest number that
\* differs from it by a multiple of w is the remainder.
LEMMA DivisionExists ==
    ASSUME NEW w \in Nat \ {0}, NEW n \in Nat
    PROVE  \E q \in Nat, r \in 0..w - 1 : n = q * w + r /\ n % w = r
<1> DEFINE rest == {m \in Nat : \E q \in Nat : n = q * w + m}
<1>1. n = 0 * w + n
  BY SMTT(20)
<1>2. n \in rest
  BY <1>1
<1>3. PICK r \in rest : \A x \in rest : ~(<<x, r>> \in OpToRel(<, Nat))
  <2>1. rest \subseteq Nat /\ rest # {}
    BY <1>2
  <2> HIDE DEF rest
  <2> QED BY <2>1, NatLessThanWellFounded, WFMin
<1>4. PICK q \in Nat : n = q * w + r
  OBVIOUS
<1>5. r < w
  <2> SUFFICES ASSUME r >= w PROVE FALSE
    BY SMTT(20)
  <2>1. r - w \in Nat /\ r - w < r /\ r \in Nat
    BY SMTT(20)
  <2>2. (q + 1) * w = q * w + w
    BY SMTT(20)
  <2>3. n = (q + 1) * w + (r - w)
    BY <1>4, <2>1, <2>2, SMTT(20)
  <2>4. r - w \in rest
    BY <2>1, <2>3, SMTT(20)
  <2>5. <<r - w, r>> \in OpToRel(<, Nat)
    BY <2>1 DEF OpToRel
  <2> HIDE DEF rest
  <2> QED BY <1>3, <2>4, <2>5
<1>6. r \in 0..w - 1
  BY <1>5, SMTT(20)
<1>7. n % w = r
  BY <1>4, <1>6, Z3T(60), SMTT(20)
<1> QED BY <1>4, <1>6, <1>7

\* Two slots of a ring at different distances below one ring length differ.
LEMMA RingSlotsDiffer ==
    ASSUME NEW w \in Nat \ {0}, NEW n \in Nat, NEW k \in 1..w - 1, k <= n
    PROVE  (n - k) % w # n % w
<1>1. PICK q \in Nat, a \in 0..w - 1 : n = q * w + a /\ n % w = a
  BY DivisionExists
<1>2. n - k \in Nat
  BY SMTT(20)
<1>3. PICK r \in Nat, b \in 0..w - 1 : n - k = r * w + b /\ (n - k) % w = b
  BY <1>2, DivisionExists
<1> SUFFICES ASSUME a = b PROVE FALSE
  BY <1>1, <1>3
<1>4. q * w \in Int /\ r * w \in Int
  BY SMTT(20)
<1>5. k = q * w - r * w
  BY <1>1, <1>3, <1>4, SMTT(20)
<1>6. (q - r) * w = q * w - r * w
  BY SMTT(20)
<1>7. q - r \in Int /\ (q - r >= 1 \/ q - r <= 0)
  BY SMTT(20)
<1>8. ASSUME NEW d \in Int, d >= 1 PROVE d * w >= w
  BY <1>8, SMTT(20)
<1>9. ASSUME NEW d \in Int, d <= 0 PROVE d * w <= 0
  BY <1>9, SMTT(20)
<1> QED BY <1>5, <1>6, <1>7, <1>8, <1>9, SMTT(20)

\* The ring buffer is the last WindowSize outcomes, for every ring size and
\* every history.
THEOREM RingAlwaysRecent == TipSpec => []RingIsRecent
<1> USE TipConfigAssumption
<1>1. TipInit => RingIsRecent
  BY SMTT(20) DEF TipInit, RingIsRecent
<1>2. TipTypeOK /\ RingIsRecent /\ [TipNext]_tipShareVars => RingIsRecent'
  <2> SUFFICES ASSUME TipTypeOK, RingIsRecent, [TipNext]_tipShareVars PROVE RingIsRecent'
    OBVIOUS
  <2> USE DEF TipTypeOK
  <2>1. ASSUME NEW included \in BOOLEAN, RecordBundleResult(included) PROVE RingIsRecent'
    <3> DEFINE n == Len(outcomes)
               slot == n % WindowSize
    <3>1. /\ n \in Nat /\ bundleResultIdx = n
          /\ slot \in 0..WindowSize - 1
      BY SMTT(20) DEF RingIsRecent
    <3>2. /\ outcomes' = Append(outcomes, included)
          /\ Len(outcomes') = n + 1
          /\ outcomes'[n + 1] = included
          /\ \A m \in 1..n : outcomes'[m] = outcomes[m]
      BY <2>1, SMTT(20) DEF RecordBundleResult
    <3>3. /\ bundleResultIdx' = n + 1
          /\ bundleResults' = [bundleResults EXCEPT ![slot] = included]
      BY <2>1, <3>1 DEF RecordBundleResult
    <3>4. bundleResultCount' = IF Len(outcomes') < WindowSize THEN Len(outcomes') ELSE WindowSize
      BY <2>1, <3>1, <3>2, SMTT(20) DEF RecordBundleResult, RingIsRecent
    <3>5. ASSUME NEW k \in 1..bundleResultCount'
          PROVE  bundleResults'[(bundleResultIdx' - k) % WindowSize]
                    = outcomes'[Len(outcomes') - k + 1]
      <4>0. bundleResultCount' \in Nat /\ k \in Nat
        BY <3>1, <3>2, <3>4, SMTT(20)
      <4>1. CASE k = 1
        <5>1. bundleResultIdx' - k = n /\ Len(outcomes') - k + 1 = n + 1
          BY <4>1, <3>1, <3>2, <3>3, SMTT(20)
        <5>2. bundleResults'[slot] = included
          BY <3>1, <3>3
        <5> QED BY <5>1, <5>2, <3>2
      <4>2. CASE k # 1
        <5> DEFINE j == k - 1
        <5>1. /\ j \in 1..bundleResultCount /\ j \in 1..WindowSize - 1 /\ j <= n
          BY <4>0, <4>2, <3>1, <3>2, <3>4, SMTT(20) DEF RingIsRecent
        <5>2. (n - j) % WindowSize # slot
          BY <5>1, <3>1, RingSlotsDiffer
        <5>3. bundleResults[(n - j) % WindowSize] = outcomes[n - j + 1]
          BY <5>1, <3>1 DEF RingIsRecent
        <5>4. (n - j) % WindowSize \in 0..WindowSize - 1
          BY <5>1, <3>1, SMTT(20)
        <5>5. bundleResults'[(n - j) % WindowSize] = bundleResults[(n - j) % WindowSize]
          BY <5>2, <5>4, <3>3
        <5>6. n - j + 1 \in 1..n
          BY <5>1, <3>1, SMTT(20)
        <5>7. outcomes'[n - j + 1] = outcomes[n - j + 1]
          BY <5>6, <3>2
        <5>8. bundleResultIdx' - k = n - j /\ Len(outcomes') - k + 1 = n - j + 1
          BY <4>0, <3>1, <3>2, <3>3, SMTT(20)
        <5> HIDE DEF j
        <5> QED BY <5>3, <5>5, <5>7, <5>8
      <4> QED BY <4>1, <4>2
    <3> QED BY <3>2, <3>3, <3>4, <3>5 DEF RingIsRecent
  <2>2. CASE CalculateTipShare
    BY <2>2 DEF CalculateTipShare, RingIsRecent, ringVars
  <2>3. CASE UNCHANGED tipShareVars
    BY <2>3 DEF tipShareVars, RingIsRecent, ringVars
  <2> QED BY <2>1, <2>2, <2>3 DEF TipNext
<1> QED BY <1>1, <1>2, TipTypeCorrect, PTL DEF TipSpec

-----------------------------------------------------------------------------
\* What leaves remainder r.
LEMMA Remainder ==
    ASSUME NEW w \in Nat \ {0}, NEW q \in Nat, NEW r \in 0..w - 1
    PROVE  (q * w + r) % w = r
<1> DEFINE n == q * w + r
<1>1. n \in Nat /\ n = q * w + r
  BY SMTT(20)
<1> HIDE DEF n
<1>2. n % w = r
  BY <1>1, Z3T(60), SMTT(20)
<1> QED
  BY <1>2 DEF n

\* The slots of the ring are those of the last WindowSize results, one each.
LEMMA SlotsOfRecent ==
    ASSUME TipTypeOK, RingIsRecent
    PROVE  /\ \A k \in Recent(WindowSize) :
                /\ (k - 1) % WindowSize \in 0..bundleResultCount - 1
                /\ bundleResults[(k - 1) % WindowSize] = outcomes[k]
           /\ \A k, m \in Recent(WindowSize) : k < m => (k - 1) % WindowSize # (m - 1) % WindowSize
           /\ \A x \in 0..bundleResultCount - 1 :
                \E k \in Recent(WindowSize) : (k - 1) % WindowSize = x
<1> DEFINE n == Len(outcomes)
<1>1. /\ n \in Nat /\ WindowSize \in Nat \ {0} /\ bundleResultIdx = n
      /\ bundleResultCount = IF n < WindowSize THEN n ELSE WindowSize
      /\ Recent(WindowSize) = {k \in 1..n : k > n - WindowSize}
  BY TipConfigAssumption DEF TipTypeOK, RingIsRecent, Recent
<1>2. ASSUME NEW k \in Recent(WindowSize)
      PROVE  /\ (k - 1) % WindowSize \in 0..bundleResultCount - 1
             /\ bundleResults[(k - 1) % WindowSize] = outcomes[k]
  <2> DEFINE j == n + 1 - k
  <2>1. j \in 1..bundleResultCount /\ n - j = k - 1 /\ n - j + 1 = k /\ k - 1 \in Nat
    BY <1>1, <1>2, SMTT(20)
  <2>2. bundleResults[(n - j) % WindowSize] = outcomes[n - j + 1]
    BY <1>1, <2>1 DEF RingIsRecent
  <2>3. (k - 1) % WindowSize \in 0..WindowSize - 1
    BY <1>1, <2>1, SMTT(20)
  <2>4. ASSUME n < WindowSize
        PROVE  (k - 1) % WindowSize = k - 1
    <3>1. k - 1 \in 0..WindowSize - 1 /\ 0 * WindowSize + (k - 1) = k - 1
      BY <1>1, <1>2, <2>4, SMTT(20)
    <3> QED
      BY <1>1, <3>1, Remainder
  <2>5. (k - 1) % WindowSize \in 0..bundleResultCount - 1
    BY <1>1, <1>2, <2>3, <2>4, SMTT(20)
  <2> HIDE DEF j
  <2> QED
    BY <2>1, <2>2, <2>5
<1>3. ASSUME NEW k \in Recent(WindowSize), NEW m \in Recent(WindowSize), k < m
      PROVE  (k - 1) % WindowSize # (m - 1) % WindowSize
  <2> DEFINE d == m - k
  <2>1. d \in 1..WindowSize - 1 /\ m - 1 \in Nat /\ d <= m - 1 /\ (m - 1) - d = k - 1
    BY <1>1, <1>3, SMTT(20)
  <2> HIDE DEF d
  <2>2. ((m - 1) - d) % WindowSize # (m - 1) % WindowSize
    BY <1>1, <2>1, RingSlotsDiffer
  <2> QED
    BY <2>1, <2>2
<1>4. ASSUME NEW x \in 0..bundleResultCount - 1
      PROVE  \E k \in Recent(WindowSize) : (k - 1) % WindowSize = x
  <2>0. x \in 0..WindowSize - 1
    BY <1>1, SMTT(20)
  <2>1. CASE n < WindowSize
    <3>1. x + 1 \in Recent(WindowSize) /\ (x + 1) - 1 = x /\ 0 * WindowSize + x = x
      BY <1>1, <2>1, SMTT(20)
    <3>2. x % WindowSize = x
      BY <1>1, <2>0, <3>1, Remainder
    <3> QED
      BY <3>1, <3>2
  <2>2. CASE n >= WindowSize
    <3>1. PICK q \in Nat, a \in 0..WindowSize - 1 : n = q * WindowSize + a
      BY <1>1, DivisionExists
    <3>2. q # 0
      BY <1>1, <2>2, <3>1, SMTT(20)
    <3> DEFINE p == IF x < a THEN q ELSE q - 1
               k == p * WindowSize + x + 1
    <3>3. p \in Nat /\ p * WindowSize \in Nat
      BY <1>1, <3>2, SMTT(20)
    <3>4. (q - 1) * WindowSize = q * WindowSize - WindowSize /\ q * WindowSize \in Nat
      BY <1>1, <3>1, SMTT(20)
    <3>5. k \in Recent(WindowSize)
      <4>1. CASE x < a
        BY <1>1, <2>0, <3>1, <3>3, <3>4, <4>1, SMTT(20)
      <4>2. CASE ~(x < a)
        <5>1. k = q * WindowSize - WindowSize + x + 1
          BY <3>4, <4>2
        <5> HIDE DEF k
        <5> QED
          BY <1>1, <2>0, <3>1, <3>4, <4>2, <5>1, SMTT(20)
      <4> QED
        BY <4>1, <4>2
    <3>6. k - 1 = p * WindowSize + x
      BY <1>1, <2>0, <3>3, SMTT(20)
    <3> HIDE DEF k, p
    <3>7. (k - 1) % WindowSize = x
      BY <1>1, <2>0, <3>3, <3>6, Remainder
    <3> QED
      BY <3>5, <3>7
  <2> QED
    BY <1>1, <2>1, <2>2, SMTT(20)
<1> QED
  BY <1>2, <1>3, <1>4

\* So the inclusion rate CalculateTip reads off the ring is that of the last
\* WindowSize results.
LEMMA RateOfRecent ==
    ASSUME TipTypeOK, RingIsRecent
    PROVE  /\ Included = RecentIncluded(WindowSize)
           /\ bundleResultCount = Cardinality(Recent(WindowSize))
           /\ Included \in Nat
<1> DEFINE n == Len(outcomes)
           A == {k \in Recent(WindowSize) : outcomes[k]}
           B == {x \in 0..bundleResultCount - 1 : bundleResults[x]}
           slot(k) == (k - 1) % WindowSize
           f == [k \in A |-> slot(k)]
<1>1. /\ n \in Nat /\ WindowSize \in Nat \ {0}
      /\ bundleResultCount = IF n < WindowSize THEN n ELSE WindowSize
      /\ Recent(WindowSize) = (n - bundleResultCount + 1)..n
  <2>1. /\ n \in Nat /\ WindowSize \in Nat \ {0}
        /\ bundleResultCount = IF n < WindowSize THEN n ELSE WindowSize
        /\ Recent(WindowSize) = {k \in 1..n : k > n - WindowSize}
    BY TipConfigAssumption DEF TipTypeOK, RingIsRecent, Recent
  <2> HIDE DEF n
  <2>2. CASE n < WindowSize
    BY <2>1, <2>2, SMTT(20)
  <2>3. CASE ~(n < WindowSize)
    BY <2>1, <2>3, SMTT(20)
  <2> QED
    BY <2>2, <2>3
<1>2. IsFiniteSet(Recent(WindowSize)) /\ Cardinality(Recent(WindowSize)) = bundleResultCount
  <2> DEFINE a == n - bundleResultCount + 1
  <2>1. a \in Int /\ n \in Int /\ (IF a > n THEN 0 ELSE n - a + 1) = bundleResultCount
    <3> HIDE DEF n
    <3>1. bundleResultCount \in Nat
      BY <1>1
    <3> QED
      BY <1>1, <3>1, SMTT(20)
  <2> HIDE DEF a
  <2>2. /\ IsFiniteSet(a..n) /\ Cardinality(a..n) = IF a > n THEN 0 ELSE n - a + 1
    BY <2>1, FS_Interval
  <2> QED
    BY <1>1, <2>1, <2>2 DEF a
<1>3. IsFiniteSet(A)
  BY <1>2, FS_Subset
<1>4. /\ \A k \in A : slot(k) \in B
      /\ \A k, m \in A : slot(k) = slot(m) => k = m
      /\ \A x \in B : \E k \in A : slot(k) = x
  <2>1. /\ \A k \in Recent(WindowSize) :
             slot(k) \in 0..bundleResultCount - 1 /\ bundleResults[slot(k)] = outcomes[k]
        /\ \A k, m \in Recent(WindowSize) : k < m => slot(k) # slot(m)
        /\ \A x \in 0..bundleResultCount - 1 : \E k \in Recent(WindowSize) : slot(k) = x
    BY SlotsOfRecent
  <2>2. \A k, m \in Recent(WindowSize) : k < m \/ m < k \/ k = m
    BY <1>1, SMTT(20)
  <2> HIDE DEF slot
  <2> QED
    BY <2>1, <2>2
<1>5. f \in Bijection(A, B)
  <2> HIDE DEF A, B, slot
  <2> QED
    BY <1>4 DEF Bijection, Injection, Surjection, IsInjective
<1>6. IsFiniteSet(B) /\ Cardinality(B) = Cardinality(A)
  <2> HIDE DEF A, B, f
  <2> QED
    BY <1>3, <1>5, FS_Bijection DEF ExistsBijection
<1>7. Cardinality(B) \in Nat
  BY <1>6, FS_CardinalityType
<1> QED
  BY <1>2, <1>6, <1>7 DEF Included, RecentIncluded

\* A call that sees new results raises the tip when the last WindowSize bundles
\* went badly, for every ring size and however long the executor has been running.
THEOREM MissesAlwaysRaiseTip == TipSpec => MissesRaiseTip
<1> DEFINE Low == RecentIncluded(WindowSize) * 100 < LowInclusion * Cardinality(Recent(WindowSize))
<1>1. ASSUME TipTypeOK, TipInv, RingIsRecent, TipNext, askedAt' # askedAt, Low
      PROVE  lastTipSharePct' = clampTip(lastTipSharePct + StepPct, MinTip, MaxTip)
  <2>1. CalculateTipShare /\ FeedbackArrived
    <3>1. CalculateTipShare
      BY <1>1 DEF TipNext, RecordBundleResult
    <3> QED
      BY <1>1, <3>1, SMTT(20) DEF CalculateTipShare, FeedbackArrived, TipInv, TipTypeOK
  <2>2. RateBelow(LowInclusion)
    BY <1>1, RateOfRecent DEF RateBelow
  <2>3. CalculateTip = clampTip(lastTipSharePct + StepPct, MinTip, MaxTip)
    BY <1>1, <2>2 DEF CalculateTip, TipInv, StrategyInStep
  <2>4. lastTipSharePct' = clampTip(CalculateTip, MinTip, MaxTip)
    BY <2>1 DEF CalculateTipShare
  <2> QED
    BY <1>1, <2>3, <2>4, TipConfigAssumption, SMTT(20) DEF clampTip, TipTypeOK, StepPct
<1>2. TipTypeOK /\ TipInv /\ RingIsRecent /\ [TipNext]_tipShareVars =>
        [askedAt' # askedAt /\ Low
           => lastTipSharePct' = clampTip(lastTipSharePct + StepPct, MinTip, MaxTip)]_tipShareVars
  BY <1>1
<1> QED
  BY <1>2, TipTypeCorrect, TipInvariant, RingAlwaysRecent, PTL DEF TipSpec, MissesRaiseTip
=============================================================================
