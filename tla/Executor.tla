------------------------------ MODULE Executor ------------------------------
(***************************************************************************)
(* cmd/executor: the goroutine that consumes the arb stream (processArb),  *)
(* composed with the risk manager it checks and feeds, the inclusion       *)
(* poller that settles its bundles and the operator's admin commands.      *)
(* Each call of a risk-manager method is one step, because the manager's   *)
(* mutex is released between them; everything processArb does between two  *)
(* such calls is local to its goroutine.                                   *)
(***************************************************************************)
EXTENDS RiskManager

CONSTANTS
    Arbs,            \* what the engine streams: [source, trade, profit]
    Builders,        \* enabled builders, at least one
    GasPrices, Balances,   \* CurrentFees and liveBalance readings
    TipShares,       \* what CalculateTipShare may return (see TipShare)
    RoutingMode,     \* "fanout" or "select"
    ShadowEnv,       \* AETHER_SHADOW is truthy
    BackrunEnv,      \* AETHER_BACKRUN_MODE, or "" when unset
    MaxArbs          \* bound of the model: arbs taken from the stream

Source == {"block", "mempool"}
BackrunModes == {"off", "shadow_only", "shadow_and_live", "live_only"}
Outcome == {"accepted", "infra", "competitive", "bug"}  \* one SubmissionResult
NoArb == [source |-> "none", trade |-> 0, profit |-> 0]

ASSUME ExecutorAssumption ==
    /\ Arbs \subseteq [source : Source, trade : Nat, profit : Nat]
    /\ \A a \in Arbs : a.trade \in Volumes /\ a.profit \in PnLs
    /\ 0 \in Volumes /\ 0 \in PnLs
    /\ GasPrices \subseteq Nat /\ Balances \subseteq Nat
    /\ TipShares \subseteq Nat
    /\ ShadowEnv \in BOOLEAN /\ BackrunEnv \in BackrunModes \union {""}
    /\ RoutingMode \in {"fanout", "select"} /\ Builders # {}
    /\ MaxArbs \in Nat /\ MaxArbs <= MaxReverts /\ MaxDailyVolume <= VolumeBound

VARIABLES
    backrunMode,
    pc,              \* where processArb is: see Steps
    arb,             \* the arb in hand
    results,         \* SubmissionResult per builder asked
    taken,           \* arbs received so far
    pendingQueue,    \* accepted bundles not yet settled: a bag, as <<n, arb>>
    afterStop,       \* history: submissions since trading stopped
    volumeToday,     \* history: volume submitted today (*)
    realizedToday    \* history: profit minus gas of bundles mined today (*)
    \* (*) since the last midnight or the operator's last ResetFromHalted

Steps == {"recv", "gate", "build", "submit", "reverts", "trade", "enqueue"}
arbVars == <<pc, arb, results, taken, pendingQueue>>
history == <<afterStop, volumeToday, realizedToday>>
execVars == <<rmVars, backrunMode, arbVars, history>>

\* SubmitToAll asks every builder, SubmitToBuilder the selected one.
Asked == IF RoutingMode = "select" THEN {{b} : b \in Builders} ELSE {Builders}

Stopped == state \in {"Paused", "Halted"}

-----------------------------------------------------------------------------
\* initBackrunMode: unset means shadow_only, whatever AETHER_SHADOW says.
initBackrunMode == IF BackrunEnv = "" THEN "shadow_only" ELSE BackrunEnv

shouldProcess(a) == a.source = "block" \/ backrunMode # "off"

\* AETHER_SHADOW governs block-driven arbs only, the backrun mode mempool arbs
\* only.
shadowOnly(a) ==
    IF a.source = "block" THEN ShadowEnv ELSE backrunMode = "shadow_only"

ExecInit ==
    /\ Init
    /\ backrunMode = initBackrunMode
    /\ pc = "recv" /\ arb = NoArb /\ results = <<>> /\ taken = 0
    /\ pendingQueue = {}
    /\ afterStop = 0
    /\ volumeToday = 0 /\ realizedToday = 0

\* The history of a step: trading that resumes starts the count afresh.
KeepHistory ==
    /\ afterStop' = IF state' \in {"Running", "Degraded"} THEN 0 ELSE afterStop
    /\ UNCHANGED <<volumeToday, realizedToday>>

Done == pc' = "recv" /\ arb' = NoArb /\ results' = <<>>

\* Mutant: the state of the breakers is not consulted.
VerdictAnyState(a, gas, tip, balance) ==
    IF \A i \in 2..8 : Limits(a.profit, a.trade, gas, tip, balance)[i][2]
    THEN "approved" ELSE PreflightCheck(a.profit, a.trade, gas, tip, balance)

Verdict(a, gas, tip, balance) ==
    PreflightCheck(a.profit, a.trade, gas, tip, balance)

\* Receive an arb; backrun_off drops it, then PreflightCheck decides under the
\* read lock, on the gas, balance and tip read just before.
Receive(a) ==
    /\ pc = "recv" /\ taken < MaxArbs
    /\ taken' = taken + 1
    /\ \/ ~shouldProcess(a) /\ Done
       \/ /\ shouldProcess(a)
          /\ \E gas \in GasPrices, tip \in TipShares, balance \in Balances :
               IF Verdict(a, gas, tip, balance) = "approved"
               THEN arb' = a /\ pc' = "gate" /\ UNCHANGED results
               ELSE Done
    /\ UNCHANGED <<rmVars, backrunMode, pendingQueue, afterStop, volumeToday, realizedToday>>

\* MempoolRiskGate (module MempoolGate) and the missing-victim check may still
\* drop a mempool arb.
Gate ==
    /\ pc = "gate"
    /\ \/ pc' = "build" /\ UNCHANGED <<arb, results>>
       \/ arb.source = "mempool" /\ Done
    /\ UNCHANGED <<rmVars, backrunMode, taken, pendingQueue, history>>

\* BuildBundle signs; a build error drops the arb.
Build ==
    /\ pc = "build"
    /\ \/ pc' = "submit" /\ UNCHANGED <<arb, results>>
       \/ Done
    /\ UNCHANGED <<rmVars, backrunMode, taken, pendingQueue, history>>

\* Signing failed because the remote signer is unavailable: the executor pauses
\* itself.
SignerUnavailable ==
    /\ pc = "build"
    /\ Pause
    /\ Done
    /\ KeepHistory
    /\ UNCHANGED <<backrunMode, taken, pendingQueue>>

\* A shadow bundle is recorded in the ledger and goes no further.
Shadow ==
    /\ pc = "submit" /\ shadowOnly(arb)
    /\ Done
    /\ UNCHANGED <<rmVars, backrunMode, taken, pendingQueue, history>>

\* One result per builder asked.
Submit ==
    /\ pc = "submit" /\ ~shadowOnly(arb)
    /\ \E asked \in Asked : results' \in [asked -> Outcome]
    /\ pc' = "reverts"
    /\ afterStop' = IF Stopped THEN afterStop + 1 ELSE 0
    /\ UNCHANGED <<rmVars, backrunMode, arb, taken, pendingQueue,
                   volumeToday, realizedToday>>

\* The worst classification among the builders' answers.
WorstRevert(rs) ==
    IF "bug" \in {rs[b] : b \in DOMAIN rs} THEN "bug"
    ELSE IF "competitive" \in {rs[b] : b \in DOMAIN rs} THEN "competitive" ELSE "none"

recordSubmissionReverts ==
    /\ pc = "reverts"
    /\ pc' = "trade"
    /\ IF WorstRevert(results) = "none" THEN UNCHANGED rmVars
       ELSE RecordRevert(WorstRevert(results))
    /\ KeepHistory
    /\ UNCHANGED <<backrunMode, arb, results, taken, pendingQueue>>

\* Mutant: only an accepted bundle counts.
SubmittedVolumeIfAccepted(a) ==
    IF \E b \in DOMAIN results : results[b] = "accepted" THEN a.trade ELSE 0

SubmittedVolume(a) == a.trade

\* RecordTrade(tradeValueWei, 0): the volume counts at submission, accepted or
\* not.  RecordBundleResult, just before it, is in TipShare.
recordSubmittedTrade ==
    /\ pc = "trade"
    /\ pc' = "enqueue"
    /\ RecordTrade(SubmittedVolume(arb), 0)
    /\ volumeToday' = volumeToday + arb.trade
    /\ afterStop' = IF state' \in {"Running", "Degraded"} THEN 0 ELSE afterStop
    /\ UNCHANGED <<backrunMode, arb, results, taken, pendingQueue, realizedToday>>

\* A bundle that some builder accepted waits for its inclusion.
enqueuePendingBundle ==
    /\ pc = "enqueue"
    /\ pendingQueue' = IF \E b \in DOMAIN results : results[b] = "accepted"
                       THEN pendingQueue \union {<<taken, arb>>} ELSE pendingQueue
    /\ Done
    /\ UNCHANGED <<rmVars, backrunMode, taken, history>>

-----------------------------------------------------------------------------
SettledVolume(b) == 0

SettledPnL(b) == b[2].profit

\* The poller (module InclusionPoll) settles a bundle.  A mined bundle books
\* its expected profit; a backrun's arb may be mined reverted, because its hash
\* is in revertingTxHashes, and then it cost its gas and earned nothing.
SettleIncluded(b) ==
    /\ pendingQueue' = pendingQueue \ {b}
    /\ dailyPnL + b[2].profit <= PnLBound     \* bound of the model
    /\ RecordTrade(SettledVolume(b), SettledPnL(b))
    /\ realizedToday' \in {realizedToday + b[2].profit} \union
                          (IF b[2].source = "mempool" THEN {realizedToday - 1} ELSE {})
    /\ afterStop' = IF state' \in {"Running", "Degraded"} THEN 0 ELSE afterStop
    /\ UNCHANGED <<backrunMode, pc, arb, results, taken, volumeToday>>

SettleMissed(b) ==
    /\ pendingQueue' = pendingQueue \ {b}
    /\ UNCHANGED <<rmVars, backrunMode, pc, arb, results, taken, history>>

\* The operator's admin endpoints.
Admin ==
    /\ Pause \/ Resume \/ \E eth \in MinProfits : SetMinProfitETH(eth)
    /\ KeepHistory
    /\ UNCHANGED <<backrunMode, arbVars>>

\* Answers an error, and changes nothing, unless Halted.
handleAdminReset ==
    /\ IF state = "Halted"
       THEN /\ ResetFromHalted
            /\ volumeToday' = 0 /\ realizedToday' = 0 /\ afterStop' = 0
       ELSE UNCHANGED <<rmVars, history>>
    /\ UNCHANGED <<backrunMode, arbVars>>

handleBackrunPromote ==
    /\ backrunMode' = "live_only"
    /\ UNCHANGED <<rmVars, arbVars, history>>

\* Time passes; at midnight the day's own record starts afresh.
Clock ==
    /\ Tick
    /\ IF now > 0 /\ now % DayLength = 0
       THEN volumeToday' = 0 /\ realizedToday' = 0
       ELSE UNCHANGED <<volumeToday, realizedToday>>
    /\ UNCHANGED <<backrunMode, arbVars, afterStop>>

ExecNext ==
    \/ \E a \in Arbs : Receive(a)
    \/ Gate \/ Build \/ SignerUnavailable \/ Shadow \/ Submit
    \/ recordSubmissionReverts \/ recordSubmittedTrade \/ enqueuePendingBundle
    \/ \E b \in pendingQueue : SettleIncluded(b) \/ SettleMissed(b)
    \/ Admin \/ handleAdminReset \/ handleBackrunPromote \/ Clock

ExecSpec == ExecInit /\ [][ExecNext]_execVars

-----------------------------------------------------------------------------
\* The daily volume cap holds at every instant, although PreflightCheck and the
\* RecordTrade that uses up the allowance are different critical sections: only
\* this goroutine adds volume, so what it checked is still free when it records.
VolumeCapHolds == dailyVolume <= MaxDailyVolume

\* The allowance an arb in hand was approved for stays reserved for it through
\* pauses, resets, poller trades and midnight.
ApprovedFits ==
    pc \notin {"recv", "enqueue"} => dailyVolume + arb.trade <= MaxDailyVolume

\* A stop is effective after at most one more submission: the arb that had
\* already passed PreflightCheck when the breaker or the operator stopped it.
AtMostOneAfterStop == afterStop <= 1

\* The books cover the day: whatever the builders answered, and although the
\* daily counters roll over only inside RecordTrade, every submission since
\* midnight (or the operator's reset) is in the volume the cap is checked with.
BooksCoverDay == dailyVolume >= volumeToday

\* Both at once: the cap bounds the volume of the day itself.
DayWithinCap == VolumeCapHolds /\ BooksCoverDay

\* The books never show a loss: what processArb and the poller record is zero or
\* an expected profit, so the daily-loss breaker has nothing to trip on.
BooksNeverLose == dailyPnL >= 0 /\ state # "Halted"

\* The inductive invariant behind the theorems of ExecutorProofs.  An arb in
\* hand before its reverts are recorded reserves one revert slot; an arb in
\* hand before submission was approved while trading; today's volume is zero
\* whenever the roll-over is due.
InHand == IF pc \in {"gate", "build", "submit", "reverts"} THEN 1 ELSE 0
DayInv == /\ volumeToday \in Nat /\ volumeToday <= dailyVolume
          /\ now > dailyResetTime => volumeToday = 0
          /\ dailyResetTime > 0 /\ dailyResetTime % DayLength = 0
StopInv == /\ afterStop \in 0..1
           /\ ~Stopped \/ pc \in {"gate", "build", "submit"} => afterStop = 0
CountInv == /\ taken \in 0..MaxArbs
            /\ Len(recentBugReverts) + InHand <= taken
            /\ Len(recentCompReverts) + InHand <= taken
ArbInv == /\ pc \in Steps /\ (pc # "recv" => arb \in Arbs)
          /\ \A b \in pendingQueue : b[2] \in Arbs
ExecInv == /\ TypeOK /\ ArbInv /\ CountInv /\ BooksNeverLose /\ dailyPnL <= PnLBound
           /\ VolumeCapHolds /\ ApprovedFits /\ StopInv /\ DayInv

\* "A daily loss exceeding 0.5 ETH ... or there's a bug causing failed trades
\* with gas costs" halts (risk-parameters.md): the day's realized loss does.
RealizedLossHalts ==
    -realizedToday > DailyLossHalt => state = "Halted"

-----------------------------------------------------------------------------
(* The instance of the runs: the risk manager twice, under any sequence of *)
(* calls of its methods, and driven by the executor, with one block-driven *)
(* and one mempool arb shape and a daily cap that two trades fill, across  *)
(* one midnight.                                                           *)

VARIABLES
    part,
    pausedAt         \* history: when the system was last not Paused

MCArbs == {[source |-> "block", trade |-> 1, profit |-> 1],
           [source |-> "mempool", trade |-> 2, profit |-> 1]}
MCVolumes == {0, 1, 2}
MCPnLs == {-2, 0, 1}
MCOne == {1}

MCInit == part \in {"risk", "executor"} /\ pausedAt = 0 /\ ExecInit

MCNext ==
    /\ UNCHANGED <<part, pausedAt>>
    /\ \/ part = "risk" /\ Next /\ UNCHANGED <<backrunMode, arbVars, history>>
       \/ part = "executor" /\ ExecNext

MCSpec == MCInit /\ [][MCNext]_<<part, pausedAt, execVars>>

\* The risk manager while no operator gives a command.
UnattendedNext ==
    /\ Tick \/ Reverts \/ Trades
    /\ pausedAt' = IF state = "Paused" /\ state' = "Paused" THEN pausedAt ELSE now'
    /\ UNCHANGED <<part, backrunMode, arbVars, history>>

UnattendedSpec == MCInit /\ part = "risk" /\ [][UnattendedNext]_<<part, pausedAt, execVars>>

\* "Paused ... Consecutive reverts ... Automatic after 10-minute cooldown"
\* (risk-parameters.md:23): a system that the breaker paused does not stay so for
\* longer.  The window of the reverts is ten minutes as well.
CooldownEnds == state = "Paused" => now - pausedAt <= RevertWindow
=============================================================================
