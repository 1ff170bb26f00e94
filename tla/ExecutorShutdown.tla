-------------------------- MODULE ExecutorShutdown --------------------------
(***************************************************************************)
(* cmd/executor/run.go, the life of run and of main around it: background  *)
(* loops on the caller's context, a WaitGroup over them, the signal        *)
(* handler on a child context, and the deferred cleanup that closes the    *)
(* ledger the loops write to.                                              *)
(***************************************************************************)
EXTENDS Integers, FiniteSets

CONSTANTS
    Loops,           \* background loops started before the gRPC dial
    StreamLoop       \* consumeArbStream, started only if the dial succeeds

ASSUME LoopsAssumption == IsFiniteSet(Loops) /\ StreamLoop \notin Loops

VARIABLES
    main,            \* "start", "dial", "wait", "join", "cleanup", "exited"
    loop,            \* each loop: "off", "idle", "busy" or "returned"
    wg,              \* the WaitGroup's counter
    ctxDone,         \* the context of main, which every loop watches
    runCtxDone,      \* its child, which only waitShutdown watches
    signal,          \* SIGINT or SIGTERM delivered
    ledgerOpen,      \* the channel of PgLedger
    sendOnClosed     \* a loop enqueued on the closed channel (a panic)

lifeVars == <<main, loop, wg, ctxDone, runCtxDone, signal, ledgerOpen, sendOnClosed>>

AllLoops == Loops \union {StreamLoop}

LifeTypeOK ==
    /\ main \in {"start", "dial", "wait", "join", "cleanup", "exited"}
    /\ loop \in [AllLoops -> {"off", "idle", "busy", "returned"}]
    /\ wg \in 0..Cardinality(AllLoops)
    /\ ctxDone \in BOOLEAN /\ runCtxDone \in BOOLEAN /\ signal \in BOOLEAN
    /\ ledgerOpen \in BOOLEAN /\ sendOnClosed \in BOOLEAN

LifeInit ==
    /\ main = "start" /\ loop = [l \in AllLoops |-> "off"] /\ wg = 0
    /\ ctxDone = FALSE /\ runCtxDone = FALSE /\ signal = FALSE
    /\ ledgerOpen = TRUE /\ sendOnClosed = FALSE

-----------------------------------------------------------------------------
\* run starts the loops.  A failed initial eth_getBalance ends the process
\* without the deferred cleanup (os.Exit in main).
StartLoops ==
    /\ main = "start"
    /\ loop' = [l \in AllLoops |-> IF l \in Loops THEN "idle" ELSE "off"]
    /\ wg' = Cardinality(Loops)
    /\ main' \in {"dial", "exited"}
    /\ UNCHANGED <<ctxDone, runCtxDone, signal, ledgerOpen, sendOnClosed>>

\* The executor runs without the arb stream if the dial fails; runCtx is
\* derived after it.
Dial ==
    /\ main = "dial" /\ main' = "wait"
    /\ \/ loop' = [loop EXCEPT ![StreamLoop] = "idle"] /\ wg' = wg + 1
       \/ UNCHANGED <<loop, wg>>
    /\ runCtxDone' = ctxDone
    /\ UNCHANGED <<ctxDone, signal, ledgerOpen, sendOnClosed>>

\* waitShutdown: the signal cancels runCtx only.
OnSignal ==
    /\ main = "wait" /\ signal
    /\ main' = "join" /\ runCtxDone' = TRUE
    /\ UNCHANGED <<loop, wg, ctxDone, signal, ledgerOpen, sendOnClosed>>

OnContextDone ==
    /\ main = "wait" /\ runCtxDone
    /\ main' = "join"
    /\ UNCHANGED <<loop, wg, ctxDone, runCtxDone, signal, ledgerOpen, sendOnClosed>>

allJoined == wg = 0

\* run returns; main's deferred cleanup closes the ledger, then cancel runs.
WgWait ==
    /\ main = "join" /\ allJoined
    /\ main' = "cleanup"
    /\ UNCHANGED <<loop, wg, ctxDone, runCtxDone, signal, ledgerOpen, sendOnClosed>>

Cleanup ==
    /\ main = "cleanup" /\ ledgerOpen
    /\ ledgerOpen' = FALSE
    /\ UNCHANGED <<main, loop, wg, ctxDone, runCtxDone, signal, sendOnClosed>>

Exit ==
    /\ main = "cleanup" /\ ~ledgerOpen
    /\ main' = "exited" /\ ctxDone' = TRUE /\ runCtxDone' = TRUE
    /\ UNCHANGED <<loop, wg, signal, ledgerOpen, sendOnClosed>>

-----------------------------------------------------------------------------
\* A ticker fires or an arb arrives: select may choose it even after ctx is
\* done.
LoopWork(l) ==
    /\ main # "exited" /\ loop[l] = "idle"
    /\ loop' = [loop EXCEPT ![l] = "busy"]
    /\ UNCHANGED <<main, wg, ctxDone, runCtxDone, signal, ledgerOpen, sendOnClosed>>

\* The round ends with the rows it gives the ledger.
LoopEnqueue(l) ==
    /\ main # "exited" /\ loop[l] = "busy"
    /\ loop' = [loop EXCEPT ![l] = "idle"]
    /\ sendOnClosed' = (sendOnClosed \/ ~ledgerOpen)
    /\ UNCHANGED <<main, wg, ctxDone, runCtxDone, signal, ledgerOpen>>

LoopReturn(l) ==
    /\ main # "exited" /\ loop[l] = "idle" /\ ctxDone
    /\ loop' = [loop EXCEPT ![l] = "returned"]
    /\ wg' = wg - 1
    /\ UNCHANGED <<main, ctxDone, runCtxDone, signal, ledgerOpen, sendOnClosed>>

\* The environment: the operator's signal, and the caller's own cancellation
\* of the context it passed to run.
Signal ==
    /\ ~signal /\ signal' = TRUE
    /\ UNCHANGED <<main, loop, wg, ctxDone, runCtxDone, ledgerOpen, sendOnClosed>>

CallerCancels ==
    /\ ~ctxDone /\ ctxDone' = TRUE
    /\ runCtxDone' = (runCtxDone \/ main \notin {"start", "dial"})
    /\ UNCHANGED <<main, loop, wg, signal, ledgerOpen, sendOnClosed>>

Exited == main = "exited" /\ UNCHANGED lifeVars

Main == StartLoops \/ Dial \/ OnSignal \/ OnContextDone \/ WgWait \/ Cleanup \/ Exit

LifeNext ==
    \/ StartLoops \/ Dial \/ OnSignal \/ OnContextDone \/ WgWait \/ Cleanup \/ Exit
    \/ \E l \in AllLoops : LoopWork(l) \/ LoopEnqueue(l) \/ LoopReturn(l)
    \/ Signal \/ CallerCancels \/ Exited

\* main and the loops run, a round ends (its calls carry ctx or a deadline),
\* and select is random, so a loop that can return does.
LifeFairness ==
    /\ WF_lifeVars(Main)
    /\ \A l \in AllLoops : WF_lifeVars(LoopEnqueue(l)) /\ SF_lifeVars(LoopReturn(l))

LifeSpec == LifeInit /\ [][LifeNext]_lifeVars /\ LifeFairness

-----------------------------------------------------------------------------
\* No loop enqueues on the ledger after cleanup has closed its channel, which
\* would panic: run joins every loop first.
NoSendOnClosed == ~sendOnClosed

\* Cancelling the context given to run ends the process through the cleanup.
CancelStops == ctxDone ~> main = "exited"

=============================================================================
