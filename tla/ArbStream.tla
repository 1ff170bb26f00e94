----------------------------- MODULE ArbStream ------------------------------
(***************************************************************************)
(* crates/grpc-server/src/service.rs and consumeArbStream in               *)
(* cmd/executor/main.go: the engine broadcasts validated arbs on a ring, a *)
(* forwarder per StreamArbs call filters them into the client's buffer,    *)
(* and the executor takes them one at a time, reconnecting when the stream *)
(* breaks.  Arbs are numbered in the order the engine publishes them.      *)
(***************************************************************************)
EXTENDS Integers, Sequences, Functions

CONSTANTS
    StreamProfits,         \* net_profit_wei of an arb, and the thresholds in use
    Ring,            \* capacity of the broadcast channel (1000)
    Buffer,          \* capacity of a client's mpsc channel (100)
    MaxArbs          \* bound of the model

ASSUME StreamAssumption ==
    /\ StreamProfits \subseteq Nat \ {0}
    /\ Ring \in Nat \ {0} /\ Buffer \in Nat \ {0} /\ MaxArbs \in Nat

VARIABLES
    system_state,    \* EngineState, set by ControlService
    profit,          \* of every arb published: its length is the last arb's number
    minProfit,       \* the risk manager's MinProfitETH
    connected,
    threshold,       \* min_profit_wei of the forwarder
    joined,          \* number of the first arb the forwarder can see
    cursor,          \* number of the next arb the forwarder reads
    buf,             \* numbers of the arbs in the client's channel
    received,        \* numbers of the arbs given to processArb
    skipped,         \* history: arbs the forwarder lagged behind on
    lost             \* history: arbs published or buffered across a disconnection

stream == <<connected, threshold, joined, cursor, buf>>
streamVars == <<system_state, profit, minProfit, stream, received, skipped, lost>>

States == {"Running", "Degraded", "Paused", "Halted"}
Newest == Len(profit)

StreamTypeOK ==
    /\ system_state \in States
    /\ profit \in Seq(StreamProfits) /\ minProfit \in StreamProfits
    /\ connected \in BOOLEAN /\ threshold \in StreamProfits
    /\ cursor \in 1..(MaxArbs + 1) /\ joined \in 1..(MaxArbs + 1)
    /\ buf \in Seq(1..MaxArbs) /\ Len(buf) <= Buffer
    /\ received \in Seq(1..MaxArbs)
    /\ skipped \subseteq 1..MaxArbs /\ lost \subseteq 1..MaxArbs

StreamInit ==
    /\ system_state = "Running" /\ profit = <<>>
    /\ minProfit \in StreamProfits /\ connected = FALSE
    /\ threshold = minProfit /\ joined = 1 /\ cursor = 1 /\ buf = <<>>
    /\ received = <<>> /\ skipped = {} /\ lost = {}

-----------------------------------------------------------------------------
\* The engine's detection pipeline; it does not look at system_state.
Publish(p) ==
    /\ Newest < MaxArbs
    /\ profit' = Append(profit, p)
    /\ lost' = IF connected THEN lost ELSE lost \union {Newest + 1}
    /\ UNCHANGED <<system_state, minProfit, stream, received, skipped>>

set_state(s) ==
    /\ system_state' = s
    /\ UNCHANGED <<profit, minProfit, stream, received, skipped, lost>>

\* submit_arb: the one entry that does look at it.
submit_arb(p) == system_state \in {"Running", "Degraded"} /\ Publish(p)

\* POST /admin/set_min_profit.
SetMinProfitETH(p) ==
    /\ minProfit' = p
    /\ UNCHANGED <<system_state, profit, stream, received, skipped, lost>>

-----------------------------------------------------------------------------
\* A new subscriber of the broadcast channel sees what is sent from now on.
subscribePoint == Newest + 1

\* The server's half of a connection: a forwarder with the client's threshold.
stream_arbs(min) ==
    /\ threshold' = min
    /\ cursor' = subscribePoint /\ joined' = subscribePoint
    /\ buf' = <<>>

\* consumeArbStream connects, with the minimum profit of this moment.
Connect ==
    /\ ~connected /\ connected' = TRUE
    /\ stream_arbs(minProfit)
    /\ UNCHANGED <<system_state, profit, minProfit, received, skipped, lost>>

\* The oldest arb the ring still holds.
oldest == IF Newest > Ring THEN Newest - Ring + 1 ELSE 1

\* Mutant: the forwarder ends when it lags, and the client is not told.
LaggedEnds ==
    /\ connected /\ cursor < oldest
    /\ cursor' = Newest + 1
    /\ UNCHANGED <<system_state, profit, minProfit, connected, threshold, joined, buf, received, skipped, lost>>

\* RecvError::Lagged: go on from the oldest arb.
Lagged ==
    /\ connected /\ cursor < oldest
    /\ skipped' = skipped \union (cursor..(oldest - 1))
    /\ cursor' = oldest
    /\ UNCHANGED <<system_state, profit, minProfit, connected, threshold, joined, buf, received, lost>>

passes(i) == profit[i] >= threshold

room == Len(buf) < Buffer

\* tx.send().await waits for room in the client's channel.
Forward ==
    /\ connected /\ cursor >= oldest /\ cursor <= Newest
    /\ IF passes(cursor) THEN room /\ buf' = Append(buf, cursor) ELSE UNCHANGED buf
    /\ cursor' = cursor + 1
    /\ UNCHANGED <<system_state, profit, minProfit, connected, threshold, joined, received, skipped, lost>>

\* Mutant: nothing is taken from the stream while the engine is not running.
RecvWhileRunning ==
    /\ connected /\ buf # <<>> /\ system_state = "Running"
    /\ received' = Append(received, Head(buf)) /\ buf' = Tail(buf)
    /\ UNCHANGED <<system_state, profit, minProfit, connected, threshold, joined, cursor, skipped, lost>>

\* The executor receives an arb and processes it before it asks for the next.
Recv ==
    /\ connected /\ buf # <<>>
    /\ received' = Append(received, Head(buf)) /\ buf' = Tail(buf)
    /\ UNCHANGED <<system_state, profit, minProfit, connected, threshold, joined, cursor, skipped, lost>>

\* The stream breaks; what was under way is gone.
Disconnect ==
    /\ connected /\ connected' = FALSE
    /\ lost' = lost \union Range(buf) \union (cursor..Newest)
    /\ buf' = <<>> /\ cursor' = Newest + 1
    /\ UNCHANGED <<system_state, profit, minProfit, threshold, joined, received, skipped>>

StreamNext ==
    \/ \E p \in StreamProfits : Publish(p) \/ submit_arb(p) \/ SetMinProfitETH(p)
    \/ \E s \in States : set_state(s)
    \/ Connect \/ Lagged \/ Forward \/ Recv \/ Disconnect

\* The forwarder and the executor run.
StreamFairness ==
    /\ WF_streamVars(Lagged \/ Forward) /\ WF_streamVars(Recv)

StreamSpec == StreamInit /\ [][StreamNext]_streamVars /\ StreamFairness

-----------------------------------------------------------------------------
\* The executor sees every arb at most once and in the order of publication,
\* across lag and reconnections, so that none is submitted twice by the stream.
InOrderOnce ==
    \A i, j \in DOMAIN received : i < j => received[i] < received[j]

\* An arb that passed the filter of its connection is received, or on its way,
\* unless the forwarder lagged a whole ring behind or the stream broke.
NoSilentLoss ==
    connected =>
        \A i \in joined..Newest :
            \/ i \in Range(received) \union Range(buf) \union skipped \union lost
            \/ i >= cursor
            \/ profit[i] < threshold

\* Every arb that meets the threshold of the connection reaches processArb, or
\* is one the forwarder lagged behind on or a broken stream lost: a full client
\* channel delays it and nothing more.
Delivered ==
    \A i \in 1..MaxArbs :
        (connected /\ i = Newest /\ i >= joined /\ profit[i] >= threshold)
            ~> i \in Range(received) \union skipped \union lost

=============================================================================
