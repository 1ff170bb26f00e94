--------------------------- MODULE InclusionPoll ---------------------------
(***************************************************************************)
(* cmd/executor/inclusion_poll.go: processArb queues every accepted bundle *)
(* and inclusionPollLoop settles it against the relay's bundle statistics. *)
(* pollPendingInclusions copies the queue, asks the relay without the      *)
(* lock, and then replaces the queue, so its steps interleave with         *)
(* enqueuePendingBundle.                                                   *)
(***************************************************************************)
EXTENDS Integers, Sequences, Functions

CONSTANTS
    PollBundles,         \* the bundles processArb submits
    PollDelay,       \* 15 seconds: the target block window
    GiveUpAfter,     \* 5 minutes
    PollMaxTime          \* bound of the model

ASSUME PollAssumption ==
    /\ PollDelay \in Nat /\ GiveUpAfter \in Nat /\ PollDelay <= GiveUpAfter
    /\ PollMaxTime \in Nat

VARIABLES
    pollNow,
    pendingQueue,    \* bundles, in submission order
    submittedAt,     \* of every bundle submitted so far
    batch,           \* the copy being polled; <<>> between polls
    polling, pollTime,  \* a poll is under way, and the time it started
    remaining,       \* bundles to keep
    resolved,        \* resolveInclusion calls: sequence of <<bundle, included>>
    gaveUp,          \* bundles dropped after five minutes of relay errors
    raced            \* history: bundles queued while a poll was under way

batchVars == <<batch, polling, pollTime, remaining>>
queueVars == <<pendingQueue, submittedAt, raced>>
pollVars == <<pollNow, queueVars, batchVars, resolved, gaveUp>>

PollTypeOK ==
    /\ pollNow \in Nat /\ pollTime \in Nat
    /\ pendingQueue \in Seq(PollBundles) /\ batch \in Seq(PollBundles)
    /\ remaining \in Seq(PollBundles)
    /\ polling \in BOOLEAN /\ (~polling => batch = <<>>)
    /\ DOMAIN submittedAt \subseteq PollBundles
    /\ resolved \in Seq(PollBundles \X BOOLEAN)
    /\ gaveUp \subseteq PollBundles /\ raced \subseteq PollBundles

PollInit ==
    /\ pollNow = 0
    /\ pendingQueue = <<>> /\ submittedAt = <<>>
    /\ batch = <<>> /\ polling = FALSE /\ pollTime = 0 /\ remaining = <<>>
    /\ resolved = <<>> /\ gaveUp = {} /\ raced = {}

PollTick ==
    /\ pollNow < PollMaxTime
    /\ pollNow' = pollNow + 1
    /\ UNCHANGED <<queueVars, batchVars, resolved, gaveUp>>

\* processArb, for a bundle a builder accepted.
enqueuePendingBundle(b) ==
    /\ b \notin DOMAIN submittedAt
    /\ pollNow + GiveUpAfter < PollMaxTime         \* so that the clock outlives it
    /\ submittedAt' = [x \in DOMAIN submittedAt \union {b} |->
                          IF x = b THEN pollNow ELSE submittedAt[x]]
    /\ pendingQueue' = Append(pendingQueue, b)
    /\ raced' = IF polling THEN raced \union {b} ELSE raced
    /\ UNCHANGED <<pollNow, batchVars, resolved, gaveUp>>

-----------------------------------------------------------------------------
\* pollPendingInclusions: copy the queue under the lock, read the clock once.
PollStart ==
    /\ ~polling /\ pendingQueue # <<>>
    /\ polling' = TRUE
    /\ batch' = pendingQueue /\ remaining' = <<>> /\ pollTime' = pollNow
    /\ UNCHANGED <<pollNow, queueVars, resolved, gaveUp>>

Expired(b) == pollTime - submittedAt[b] >= GiveUpAfter

\* The batch's next bundle, once the relay has answered.
Keep(b) == remaining' = Append(remaining, b) /\ UNCHANGED <<resolved, gaveUp>>

resolveInclusion(b, included) ==
    resolved' = Append(resolved, <<b, included>>) /\ UNCHANGED <<remaining, gaveUp>>

PollAnswer(answer) ==
    /\ polling /\ batch # <<>>
    /\ batch' = Tail(batch)
    /\ LET b == Head(batch) IN
       \/ pollTime - submittedAt[b] < PollDelay /\ Keep(b)
       \/ /\ pollTime - submittedAt[b] >= PollDelay
          /\ CASE answer = "included" -> resolveInclusion(b, TRUE)
               [] answer # "included" /\ ~Expired(b) -> Keep(b)
               [] answer = "pending" /\ Expired(b) -> resolveInclusion(b, FALSE)
               [] answer = "error" /\ Expired(b) ->
                     gaveUp' = gaveUp \union {b} /\ UNCHANGED <<remaining, resolved>>
    /\ UNCHANGED <<pollNow, queueVars, polling, pollTime>>

\* Mutant: what the poll kept is thrown away with the batch.
PollEndForgets ==
    /\ polling /\ batch = <<>>
    /\ polling' = FALSE
    /\ pendingQueue' = <<>>
    /\ UNCHANGED <<pollNow, submittedAt, raced, batch, pollTime, remaining, resolved, gaveUp>>

\* The queue is replaced, not merged.
PollEnd ==
    /\ polling /\ batch = <<>>
    /\ polling' = FALSE
    /\ pendingQueue' = remaining
    /\ UNCHANGED <<pollNow, submittedAt, raced, batch, pollTime, remaining, resolved, gaveUp>>

Answers == {"included", "pending", "error"}

PollNext ==
    \/ PollTick
    \/ \E b \in PollBundles : enqueuePendingBundle(b)
    \/ PollStart
    \/ \E answer \in Answers : PollAnswer(answer)
    \/ PollEnd

\* The ticker keeps firing and GetBundleStats returns: its request has a
\* deadline.  The clock advances.
PollFairness ==
    /\ WF_pollVars(PollTick) /\ WF_pollVars(PollStart) /\ WF_pollVars(PollEnd)
    /\ WF_pollVars(\E answer \in Answers : PollAnswer(answer))

PollSpec == PollInit /\ [][PollNext]_pollVars /\ PollFairness

-----------------------------------------------------------------------------
Settled == Range(resolved)
Submitted == DOMAIN submittedAt

\* A bundle is resolved at most once, so its profit enters RecordTrade, the
\* ledger's realized_profit_wei and the builder score at most once.
ResolvedOnce ==
    \A i, j \in 1..Len(resolved) : resolved[i][1] = resolved[j][1] => i = j

\* A bundle can only fall out of tracking unsettled if it was queued while a
\* poll was under way; what the poll copied always ends up back in the queue,
\* resolved or given up.
LostOnlyIfRaced ==
    Submitted \ raced \subseteq
        Range(pendingQueue) \union (IF polling THEN Range(batch) \union Range(remaining) ELSE {})
        \union {r[1] : r \in Settled} \union gaveUp

\* A bundle is declared not included, or dropped on errors, only after the
\* whole retry window: a slow relay never turns a landed bundle into a miss.
MissOnlyAfterWindow ==
    \A b \in Submitted :
        (<<b, FALSE>> \in Settled \/ b \in gaveUp) => pollNow - submittedAt[b] >= GiveUpAfter

\* A bundle queued between polls is resolved or given up in the end, whatever
\* the relay answers.
SettlesUnlessRaced ==
    \A b \in PollBundles :
        b \in Submitted \ raced ~> b \in gaveUp \union {r[1] : r \in Settled}

=============================================================================
