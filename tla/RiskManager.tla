---------------------------- MODULE RiskManager ----------------------------
(***************************************************************************)
(* internal/risk: the executor's circuit breakers.  RiskManager guards all *)
(* of its fields with one mutex, so every method is one atomic action.     *)
(* Amounts (wei and ETH) are integers in one unit; time is a discrete      *)
(* clock read by time.Now().                                               *)
(***************************************************************************)
EXTENDS Integers, Sequences, FiniteSets

CONSTANTS
    ConsecutiveRevertsPause, \* bug reverts in the window that pause
    RevertWindow,            \* RevertWindowMinutes
    CompetitiveAlertPct,     \* CompetitiveRevertAlertPct
    DailyLossHalt,           \* DailyLossHaltETH
    MaxDailyVolume, MaxSingleTrade, MaxGas, MinETHBalance,
    MinTip, MaxTip,          \* tip share limits, in percent
    MinProfits,              \* values SetMinProfitETH may be given
    DayLength,               \* 24 hours
    Volumes, PnLs,           \* arguments of RecordTrade
    MaxTime, MaxReverts, VolumeBound, PnLBound   \* bounds of the model

ASSUME RiskConfigAssumption ==
    /\ ConsecutiveRevertsPause \in Nat \ {0}
    /\ RevertWindow \in Nat \ {0}
    /\ CompetitiveAlertPct \in Nat
    /\ DailyLossHalt \in Nat
    /\ {MaxDailyVolume, MaxSingleTrade, MaxGas, MinETHBalance} \subseteq Nat
    /\ MinTip \in Nat /\ MaxTip \in Nat
    /\ MinProfits \subseteq Nat /\ MinProfits # {}
    /\ DayLength \in Nat \ {0}
    /\ Volumes \subseteq Nat /\ PnLs \subseteq Int
    /\ {MaxTime, MaxReverts, VolumeBound, PnLBound} \subseteq Nat

VARIABLES
    now,                \* the clock
    state,              \* SystemStateMachine.state
    observed,           \* last state given to the MetricsObserver
    recentBugReverts, recentCompReverts,
    lastCompAlertTime,
    dailyVolume, dailyPnL, dailyResetTime,
    minProfit           \* config.MinProfitETH, changed at run time

revertVars == <<recentBugReverts, recentCompReverts, lastCompAlertTime>>
dailyVars == <<dailyVolume, dailyPnL, dailyResetTime>>
stateVars == <<state, observed>>
rmVars == <<now, stateVars, revertVars, dailyVars, minProfit>>

SystemState == {"Running", "Degraded", "Paused", "Halted"}
RevertType == {"bug", "competitive"}

TypeOK ==
    /\ now \in Nat
    /\ state \in SystemState /\ observed \in SystemState
    /\ recentBugReverts \in Seq(Nat) /\ recentCompReverts \in Seq(Nat)
    /\ lastCompAlertTime \in Int
    /\ dailyVolume \in Nat /\ dailyPnL \in Int /\ dailyResetTime \in Nat
    /\ minProfit \in MinProfits

-----------------------------------------------------------------------------
\* state.go: the transition table and Transition.
isValidTransition(from, to) ==
    \/ from = "Running"  /\ to \in {"Degraded", "Paused", "Halted"}
    \/ from = "Degraded" /\ to \in {"Running", "Paused", "Halted"}
    \/ from = "Paused"   /\ to \in {"Running", "Degraded", "Halted"}
    \/ from = "Halted"   /\ to = "Running"

\* notifyTrip, and the Transition + OnStateChange pair of every other method:
\* an invalid transition is logged and changes nothing.
notifyTrip(newState) ==
    IF isValidTransition(state, newState)
    THEN state' = newState /\ observed' = newState
    ELSE UNCHANGED stateVars

NextMidnight(t) == (t \div DayLength + 1) * DayLength

Init ==
    /\ now = 0
    /\ state = "Running" /\ observed = "Running"
    /\ recentBugReverts = <<>> /\ recentCompReverts = <<>>
    /\ lastCompAlertTime = -RevertWindow     \* the zero time.Time
    /\ dailyVolume = 0 /\ dailyPnL = 0
    /\ dailyResetTime = NextMidnight(0)
    /\ minProfit \in MinProfits

Tick ==
    /\ now < MaxTime
    /\ now' = now + 1
    /\ UNCHANGED <<stateVars, revertVars, dailyVars, minProfit>>

-----------------------------------------------------------------------------
\* PreflightCheck's limits in the order they are tested, with what each asks.
\* It takes the read lock and changes nothing.
Limits(profit, trade, gas, tip, balance) ==
    << <<"system state",          state \in {"Running", "Degraded"}>>,
       <<"gas too high",          gas <= MaxGas>>,
       <<"ETH balance too low",   balance >= MinETHBalance>>,
       <<"trade too large",       trade <= MaxSingleTrade>>,
       <<"daily volume exceeded", dailyVolume + trade <= MaxDailyVolume>>,
       <<"profit too low",        profit >= minProfit>>,
       <<"tip share too low",     tip >= MinTip>>,
       <<"tip share too high",    tip <= MaxTip>> >>

\* The reason of the first limit that rejects, or "approved".
PreflightCheck(profit, trade, gas, tip, balance) ==
    LET limits == Limits(profit, trade, gas, tip, balance)
        failed == {i \in 1..8 : ~limits[i][2]}
    IN  IF failed = {} THEN "approved"
        ELSE limits[CHOOSE i \in failed : \A j \in failed : i <= j][1]

\* Drops what is not strictly inside the rolling window.  Times are appended
\* in clock order, so the old entries are a prefix.
prune(ts) ==
    LET old == {i \in 1..Len(ts) : ts[i] <= now - RevertWindow}
    IN  SubSeq(ts, Cardinality(old) + 1, Len(ts))

\* Mutant: one revert too many before the breaker trips.
BugBreakerLate(bugReverts) == Len(bugReverts) > ConsecutiveRevertsPause

BugBreaker(bugReverts) == Len(bugReverts) >= ConsecutiveRevertsPause

\* The breaker is evaluated after every revert, of either type.
RecordRevert(type) ==
    LET bug  == IF type = "bug" THEN Append(prune(recentBugReverts), now)
                                ELSE prune(recentBugReverts)
        comp == IF type = "competitive" THEN Append(prune(recentCompReverts), now)
                                        ELSE prune(recentCompReverts)
        alert == /\ now - lastCompAlertTime >= RevertWindow
                 /\ Len(comp) * 100 >= CompetitiveAlertPct * (Len(bug) + Len(comp))
    IN  /\ recentBugReverts' = bug
        /\ recentCompReverts' = comp
        /\ IF BugBreaker(bug)
           THEN notifyTrip("Paused") ELSE UNCHANGED stateVars
        /\ lastCompAlertTime' = IF alert THEN now ELSE lastCompAlertTime
        /\ UNCHANGED <<now, dailyVars, minProfit>>

\* Mutant: the sign of the loss is lost.
LossBreakerUnsigned(pnl) == pnl > DailyLossHalt

LossBreaker(pnl) == -pnl > DailyLossHalt

\* RecordTrade rolls the daily counters over, adds, then checks the loss.
RecordTrade(volume, pnl) ==
    LET roll == now > dailyResetTime
    IN  /\ dailyVolume' = (IF roll THEN 0 ELSE dailyVolume) + volume
        /\ dailyPnL' = (IF roll THEN 0 ELSE dailyPnL) + pnl
        /\ dailyResetTime' = IF roll THEN NextMidnight(now) ELSE dailyResetTime
        /\ IF LossBreaker(dailyPnL')
           THEN notifyTrip("Halted") ELSE UNCHANGED stateVars
        /\ UNCHANGED <<now, revertVars, minProfit>>

ResetFromHalted ==
    /\ state = "Halted"
    /\ dailyVolume' = 0 /\ dailyPnL' = 0
    /\ dailyResetTime' = NextMidnight(now)
    /\ notifyTrip("Running")
    /\ UNCHANGED <<now, revertVars, minProfit>>

\* Resume refuses Halted; from Running the transition itself is refused.
Resume ==
    /\ state # "Halted"
    /\ notifyTrip("Running")
    /\ UNCHANGED <<now, revertVars, dailyVars, minProfit>>

Pause ==
    /\ notifyTrip("Paused")
    /\ UNCHANGED <<now, revertVars, dailyVars, minProfit>>

SetMinProfitETH(eth) ==
    /\ minProfit' = eth
    /\ UNCHANGED <<now, stateVars, revertVars, dailyVars>>

Reverts == /\ Len(recentBugReverts) < MaxReverts
           /\ Len(recentCompReverts) < MaxReverts
           /\ \E type \in RevertType : RecordRevert(type)

Trades == \E v \in Volumes, p \in PnLs :
              /\ dailyVolume + v <= VolumeBound
              /\ dailyPnL + p \in -PnLBound .. PnLBound
              /\ RecordTrade(v, p)

Next ==
    \/ Tick
    \/ Reverts
    \/ Trades
    \/ ResetFromHalted
    \/ Resume
    \/ Pause
    \/ \E eth \in MinProfits : SetMinProfitETH(eth)

Spec == Init /\ [][Next]_rmVars

-----------------------------------------------------------------------------
(***************************************************************************)
(* Properties.                                                             *)
(***************************************************************************)

\* A loss beyond daily_loss_halt_eth on the books means the system is Halted,
\* whatever it was before and however trades, day changes, pauses, resumes and
\* resets interleave (RecordTrade, ResetFromHalted, Resume).
LossImpliesHalted == -dailyPnL > DailyLossHalt => state = "Halted"

\* The state the metrics layer was last told (aether_system_state, which the
\* AetherHalted alert reads) is the real one after every method.
ObserverAgrees == observed = state

\* Revert times are in clock order and all inside one window that ends no later
\* than now: prune's in-place reslicing never keeps a stale revert behind a
\* fresh one, so the breaker counts a true rolling window.
Ordered(ts) == \A i, j \in 1..Len(ts) : i <= j => ts[i] <= ts[j]
WindowSound(ts, t) ==
    /\ Ordered(ts)
    /\ \A i \in 1..Len(ts) : ts[i] <= t /\ ts[Len(ts)] - ts[i] < RevertWindow
RevertWindowSound ==
    WindowSound(recentBugReverts, now) /\ WindowSound(recentCompReverts, now)

\* A revert that finds ConsecutiveRevertsPause bug reverts in the last
\* RevertWindow never leaves the system trading, from any prior state.
BreakerTrips ==
    [][\A type \in RevertType :
          /\ RecordRevert(type)
          /\ Cardinality({i \in 1..Len(recentBugReverts') :
                recentBugReverts'[i] > now - RevertWindow}) >= ConsecutiveRevertsPause
          => state' \in {"Paused", "Halted"}]_rmVars

\* Trading stopped by a breaker or an operator starts again only through an
\* operator's Resume or ResetFromHalted, and Halted is left only by the latter.
OperatorOnlyRecovery ==
    [][/\ state \in {"Paused", "Halted"} /\ state' \in {"Running", "Degraded"}
             => Resume \/ ResetFromHalted
       /\ state = "Halted" /\ state' # "Halted" => ResetFromHalted]_rmVars

=============================================================================
