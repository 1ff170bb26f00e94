------------------------------ MODULE MempoolFeed ---------------------------
(***************************************************************************)
(* The pending-transaction feed: the Alchemy subscription loop             *)
(* (crates/ingestion/src/mempool.rs), its broadcast channel, and the       *)
(* first-seen tracker (crates/grpc-server/src/first_seen_tracker.rs).      *)
(***************************************************************************)
EXTENDS Integers, Sequences, SequencesExt, FiniteSets, FiniteSetsExt, Functions

CONSTANTS
    Hashes,          \* transaction hashes
    sentTo,          \* hash |-> the address the transaction is sent to
    Routers, CurvePools,    \* the addresses watched
    Settings,        \* MEMPOOL_TRACKING values, with whether the endpoint is Alchemy's
    Capacity,        \* of the tracker's ring
    ChannelCap,      \* CHANNEL_CAPACITY of the broadcast channels
    MaxBackoff,      \* the cap of the reconnect delay, in doublings of the first
    MaxTime          \* bound: clock

FeedAssumption ==
    /\ IsFiniteSet(Hashes) /\ Capacity \in Nat \ {0} /\ ChannelCap \in Nat \ {0}
    /\ MaxBackoff \in Nat \ {0} /\ MaxTime \in Nat

VARIABLES
    now, shutdown,
    setting,         \* the one of this process
    reachable,       \* the endpoint takes connections
    source, backoff, \* the source task: start, connecting, streaming, sleeping, done
    pendQ, blockQ,   \* what the tracker's receivers have not read
    tracker,         \* the tracker task: run, done or off
    seen, order,     \* Inner: stamp per tracked hash, and the insertion log
    told, evicted    \* history: earliest stamp since the last match; evictions since

sourceVars == <<setting, reachable, source, backoff>>
trackVars == <<tracker, seen, order, told, evicted>>
vars == <<now, shutdown, sourceVars, pendQ, blockQ, trackVars>>

Empty == [h \in {} |-> 0]

\* MEMPOOL_TRACKING, whatever its case.
is_enabled(value) == value \in {"1", "true", "yes", "on"}

default_router_addresses == Routers \union CurvePools

\* The toAddress filter of the subscription; an empty one filters nothing.
subscribe_params(h) == default_router_addresses = {} \/ sentTo[h] \in default_router_addresses

\* An endpoint that is not Alchemy's is warned about at the start; it accepts the
\* subscription and never delivers.
Init ==
    /\ now = 1 /\ shutdown = FALSE /\ reachable = TRUE /\ setting \in Settings
    /\ source = (IF is_enabled(setting.value) THEN "start" ELSE "off") /\ backoff = 0
    /\ pendQ = <<>> /\ blockQ = <<>> /\ tracker = (IF is_enabled(setting.value) THEN "run" ELSE "off")
    /\ seen = Empty /\ order = <<>>
    /\ told = [h \in Hashes |-> 0] /\ evicted = {}

Tick ==
    /\ now < MaxTime /\ now' = now + 1
    /\ UNCHANGED <<shutdown, sourceVars, pendQ, blockQ, trackVars>>

ToggleEndpoint ==
    /\ reachable' = ~reachable
    /\ UNCHANGED <<now, shutdown, setting, source, backoff, pendQ, blockQ, trackVars>>

RequestShutdown ==
    /\ ~shutdown /\ shutdown' = TRUE
    /\ UNCHANGED <<now, sourceVars, pendQ, blockQ, trackVars>>

-----------------------------------------------------------------------------
\* run, at the top of its loop.
Begin ==
    /\ source = "start"
    /\ source' = IF shutdown THEN "done" ELSE "connecting"
    /\ UNCHANGED <<now, shutdown, setting, reachable, backoff, pendQ, blockQ, trackVars>>

\* subscribe_once, connecting and subscribing: shutdown is not looked at here.
Connect ==
    /\ source = "connecting"
    /\ source' = IF reachable THEN "streaming" ELSE "sleeping"
    /\ UNCHANGED <<now, shutdown, setting, reachable, backoff, pendQ, blockQ, trackVars>>

StreamClosed ==
    /\ source = "streaming" /\ ~reachable /\ source' = "sleeping"
    /\ UNCHANGED <<now, shutdown, setting, reachable, backoff, pendQ, blockQ, trackVars>>

\* The stream's select sees the shutdown.
StreamShutdown ==
    /\ source = "streaming" /\ shutdown /\ source' = "done"
    /\ UNCHANGED <<now, shutdown, setting, reachable, backoff, pendQ, blockQ, trackVars>>

\* The reconnect delay ends, or shutdown ends it; it doubles and never resets.
Wake ==
    /\ source = "sleeping"
    /\ \/ shutdown /\ source' = "done" /\ UNCHANGED backoff
       \/ source' = "start" /\ backoff' = Min({backoff + 1, MaxBackoff})
    /\ UNCHANGED <<now, shutdown, setting, reachable, pendQ, blockQ, trackVars>>

\* A broadcast channel at its capacity overwrites the oldest unread event.
send(q, e) == IF Len(q) < ChannelCap THEN Append(q, e) ELSE Append(Tail(q), e)

\* forward: the event is stamped, and dropped when its bytes do not hash back.
forward(h, intact) ==
    /\ source = "streaming" /\ reachable /\ setting.alchemy /\ subscribe_params(h)
    /\ pendQ' = IF intact THEN send(pendQ, [hash |-> h, at |-> now]) ELSE pendQ
    /\ UNCHANGED <<now, shutdown, sourceVars, blockQ, trackVars>>

NewBlock(hs) ==
    /\ blockQ' = send(blockQ, hs)
    /\ UNCHANGED <<now, shutdown, sourceVars, pendQ, trackVars>>

-----------------------------------------------------------------------------
\* record's eviction: the front of the log leaves, live or not.
evicting == Len(order) >= Capacity

record(h, at) ==
    IF h \in DOMAIN seen THEN UNCHANGED <<seen, order, evicted>>
    ELSE LET out == IF evicting THEN {Head(order)} ELSE {} IN
         /\ seen' = (h :> at) @@ Restrict(seen, DOMAIN seen \ out)
         /\ order' = Append(IF evicting THEN Tail(order) ELSE order, h)
         /\ evicted' = evicted \union (out \intersect DOMAIN seen)

TrackPending ==
    /\ tracker = "run" /\ pendQ # <<>> /\ pendQ' = Tail(pendQ)
    /\ record(Head(pendQ).hash, Head(pendQ).at)
    /\ told' = [told EXCEPT ![Head(pendQ).hash] = IF @ = 0 THEN Head(pendQ).at ELSE @]
    /\ UNCHANGED <<now, shutdown, sourceVars, blockQ, tracker>>

\* observe_block: matched hashes leave the map and stay in the log.
observe_block(hs) == seen' = Restrict(seen, DOMAIN seen \ hs)

TrackBlock ==
    /\ tracker = "run" /\ blockQ # <<>> /\ blockQ' = Tail(blockQ)
    /\ observe_block(Head(blockQ))
    /\ told' = [h \in Hashes |-> IF h \in Head(blockQ) THEN 0 ELSE told[h]]
    /\ evicted' = evicted \ Head(blockQ)
    /\ UNCHANGED <<now, shutdown, sourceVars, pendQ, tracker, order>>

TrackerShutdown ==
    /\ tracker = "run" /\ shutdown /\ tracker' = "done"
    /\ UNCHANGED <<now, shutdown, sourceVars, pendQ, blockQ, seen, order, told, evicted>>

Next ==
    \/ Tick \/ ToggleEndpoint \/ RequestShutdown
    \/ Begin \/ Connect \/ StreamClosed \/ StreamShutdown \/ Wake
    \/ \E h \in Hashes : \E intact \in BOOLEAN : forward(h, intact)
    \/ \E hs \in SUBSET Hashes : NewBlock(hs)
    \/ TrackPending \/ TrackBlock \/ TrackerShutdown

\* tokio polls a task that can run; connection attempts and sleeps end.
Fairness ==
    /\ WF_vars(Begin) /\ WF_vars(Connect) /\ WF_vars(StreamClosed) /\ WF_vars(Wake)
    /\ WF_vars(StreamShutdown) /\ WF_vars(TrackerShutdown)

Spec == Init /\ [][Next]_vars /\ Fairness

-----------------------------------------------------------------------------
\* The stamp a block will be compared with is the first one the tracker was given
\* since the hash was last included: retransmissions and reconnects never shorten
\* the delta, and only an eviction in between lengthens the wait unseen.  Every
\* tracked hash is in the log, which never outgrows the capacity.
FirstSeenKept ==
    /\ \A h \in DOMAIN seen :
        /\ h \in ToSet(order)
        /\ told[h] \in 1..seen[h]
        /\ h \notin evicted => seen[h] = told[h]
    /\ Len(order) <= Capacity

\* When the endpoint stays reachable the source streams again, however often it
\* went away before; and a shutdown ends source and tracker.
Streams == source \in {"streaming", "off"} \/ shutdown
Ended == source \in {"done", "off"} /\ tracker \in {"done", "off"}

=============================================================================
