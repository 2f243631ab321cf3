------------------------------- MODULE Watch -------------------------------
(***************************************************************************)
(* The two judges that look at a running gateway from outside: the alert   *)
(* tracker, which turns the metrics of each /health build into alerts with *)
(* hysteresis (observability/health-alerts.ts), and the watchdog, a        *)
(* scheduled task that stops and restarts the process                      *)
(* (observability/gateway-watchdog-policy.ts, and the script               *)
(* scripts/gateway-health-watchdog.ps1 that keeps the same rules).         *)
(***************************************************************************)
EXTENDS Integers

CONSTANTS OpenAfter,     \* evaluations that open an alert
          ClearAfter,    \* evaluations that clear it
          Grace,         \* ticks a gateway may look dead before a restart
          FailureLimit,  \* identical startup failures that stop restarting
          MaxPending,    \* batches a startup drain may have to replay
          MaxBoots       \* bound on the processes started

ASSUME WatchAssumption ==
    /\ {OpenAfter, ClearAfter, Grace, FailureLimit} \subseteq Nat \ {0}
    /\ {MaxPending, MaxBoots} \subseteq Nat

VARIABLES tracked,   \* alert id -> what the tracker remembers of it
          gateway,   \* the process, its pending drain and its health
          line,      \* the last startup_outbox_drain line of the log
          memory,    \* the watchdog's state file
          judged     \* the process as the last check found it, and whether a
                     \* batch that is told was replayed since (history)

watchVars == <<tracked, gateway, line, memory, judged>>

-----------------------------------------------------------------------------
(* The alerts.                                                             *)

\* The two alerts of one metric; every other signal is a single level.
Alerts == {"warn", "critical"}

\* Faulty: the two thresholds are swapped.
LevelSwapped(alert) == IF alert = "warn" THEN 2 ELSE 1

\* The level of the metric from which each alert is active.
Level(alert) == IF alert = "warn" THEN 1 ELSE 2

\* The signals of rawSignals that are active at a level of the metric.
RawSignals(level) == {alert \in Alerts : level >= Level(alert)}

NeverFired == [up |-> 0, down |-> 0, state |-> "cleared"]

Counted(count, cap) == IF count < cap THEN count + 1 ELSE count

\* evaluate with the signal active.
Fires(alert) ==
    LET up == Counted(alert.up, OpenAfter)
        open == alert.state = "open" \/ up >= OpenAfter
    IN  [up |-> up, down |-> 0,
         state |-> IF open THEN "open" ELSE "opening"]

\* evaluate with the signal inactive.
Fades(alert) ==
    LET down == Counted(alert.down, ClearAfter)
    IN  [alert EXCEPT !.up = 0, !.down = down,
           !.state = IF @ = "cleared" \/ down >= ClearAfter
                     THEN "cleared" ELSE "clearing"]

\* The alerts the evaluation returns.
Reported == {alert \in Alerts : tracked[alert].state \in {"open", "clearing"}}

\* One /health build evaluates every signal.
Evaluate ==
    /\ \E level \in 0..2 :
          tracked' = [alert \in Alerts |->
                        IF alert \in RawSignals(level) THEN Fires(tracked[alert])
                                                       ELSE Fades(tracked[alert])]
    /\ UNCHANGED <<gateway, line, memory, judged>>

-----------------------------------------------------------------------------
(* The process the watchdog watches.                                       *)

Issues == {"quote_stale", "stream_stuck", "reconciliation_not_current"}
Recoveries == {"idle", "fresh", "within_deadline", "past_deadline"}

\* pending: batches left to replay; mute: the last line of the drain is less
\* than five seconds old.
NoProcess == [pid |-> 0, phase |-> "down", pending |-> 0, mute |-> FALSE,
              issues |-> {}, recovery |-> "idle"]

NoLine == [pid |-> 0, pending |-> 0]

\* Processes count up, so a dead one's number is never that of a live one.
Booted(pid) == [NoProcess EXCEPT !.pid = pid, !.phase = "booting"]

NextPid == IF judged.boots < MaxBoots THEN {judged.boots + 1} ELSE {}

\* An operator starts the gateway.
Boot ==
    /\ gateway.phase = "down"
    /\ \E pid \in NextPid : gateway' = Booted(pid) /\ judged' = [judged EXCEPT !.boots = pid]
    /\ UNCHANGED <<tracked, line, memory>>

Die ==
    /\ gateway.phase # "down"
    /\ gateway' = NoProcess
    /\ UNCHANGED <<tracked, line, memory, judged>>

\* drainStartupEvidenceOutbox: the first line is forced, before any batch.
StartDrain ==
    /\ gateway.phase = "booting"
    /\ \E pending \in 0..MaxPending :
          /\ gateway' = [gateway EXCEPT !.phase = "draining", !.pending = pending,
                                        !.mute = TRUE]
          /\ line' = [pid |-> gateway.pid, pending |-> pending]
    /\ UNCHANGED <<tracked, memory, judged>>

\* logIntervalMs passes.
LogIntervalEnds ==
    /\ gateway.phase = "draining" /\ gateway.mute
    /\ gateway' = [gateway EXCEPT !.mute = FALSE]
    /\ UNCHANGED <<tracked, line, memory, judged>>

\* A batch is replayed; a line tells it unless the last one is too recent.
DrainBatch ==
    /\ gateway.phase = "draining" /\ gateway.pending > 0
    /\ gateway' = [gateway EXCEPT !.pending = @ - 1, !.mute = TRUE]
    /\ line' = IF gateway.mute THEN line ELSE [line EXCEPT !.pending = gateway.pending - 1]
    /\ judged' = [judged EXCEPT !.moved = @ \/ ~gateway.mute]
    /\ UNCHANGED <<tracked, memory>>

\* Nothing is left to replay: the last line is forced.
DrainEnds ==
    /\ gateway.phase = "draining" /\ gateway.pending = 0
    /\ gateway' = [gateway EXCEPT !.phase = "drained", !.mute = FALSE]
    /\ line' = [line EXCEPT !.pending = 0]
    /\ UNCHANGED <<tracked, memory, judged>>

\* The rest of startResources ends with listen().
Listen ==
    /\ gateway.phase = "drained"
    /\ gateway' = [gateway EXCEPT !.phase = "up"]
    /\ UNCHANGED <<tracked, line, memory, judged>>

\* What /health would say changes.
Health ==
    /\ gateway.phase = "up"
    /\ \E issues \in SUBSET Issues, recovery \in Recoveries :
          gateway' = [gateway EXCEPT !.issues = issues, !.recovery = recovery]
    /\ UNCHANGED <<tracked, line, memory, judged>>

\* The clock of the grace runs.
Wait ==
    /\ memory.age \in 0..(Grace - 1)
    /\ memory' = [memory EXCEPT !.age = @ + 1]
    /\ UNCHANGED <<tracked, gateway, line, judged>>

-----------------------------------------------------------------------------
(* A check of the watchdog.                                                *)

Reachable == gateway.phase = "up"

\* baseWatchdogRecoveryNeeded, of a health that is degraded by its issues.
BaseRecoveryNeeded ==
    /\ "quote_stale" \in gateway.issues
    /\ gateway.issues \cap {"stream_stuck", "reconciliation_not_current"} # {}

\* isRecoveryProgressFresh, and the deadline a recovery still has.
RecoveryHasTime == gateway.recovery \in {"fresh", "within_deadline"}

\* shouldWatchdogRestartGateway, of a gateway that answers.
RestartNeeded == BaseRecoveryNeeded /\ ~RecoveryHasTime

\* Faulty: the line of a dead process counts as the current one.
LastLine == line

\* Get-LatestStartupOutboxDrain: a line of a dead process is no line.
CurrentDrain == IF line.pid = gateway.pid THEN line ELSE NoLine

\* startupOutboxDrainDecision; a batch lowers pending and raises drained_so_far.
DrainDecision ==
    LET current == CurrentDrain
        previous == memory.drain
    IN  CASE current.pending = 0 -> "absent"
          [] current.pending > 0 /\ previous = NoLine -> "hold"
          [] current.pending > 0 /\ previous # NoLine ->
                IF previous.pid # current.pid \/ current.pending < previous.pending
                THEN "hold" ELSE "stalled"

\* What the check makes of the gateway.
Verdict ==
    CASE Reachable -> IF RestartNeeded THEN "dead" ELSE "well"
      [] ~Reachable /\ DrainDecision = "hold" -> "well"
      [] ~Reachable /\ DrainDecision = "stalled" -> "stalled"
      [] ~Reachable /\ DrainDecision = "absent" -> "dead"

\* The drain sample the check keeps for the next one.
KeptDrain ==
    CASE Reachable \/ DrainDecision = "absent" -> NoLine
      [] ~Reachable /\ DrainDecision = "hold" -> CurrentDrain
      [] ~Reachable /\ DrainDecision = "stalled" -> memory.drain

NoFailure == [cause |-> "none", count |-> 0]
FailureCauses == {"dist_commit_mismatch", "start_failed"}

\* recordStartupFailure.
Recorded(failure, cause) ==
    [cause |-> cause,
     count |-> IF failure.cause = cause THEN failure.count + 1 ELSE 1]

\* startupFailureBlocksRestart.
Blocked(failure) == failure.cause # "none" /\ failure.count >= FailureLimit

Found == [judged EXCEPT !.pid = gateway.pid, !.phase = gateway.phase, !.moved = FALSE]

\* The check finds the gateway well and forgets every suspicion.
CheckWell ==
    /\ Verdict = "well"
    /\ memory' = [age |-> -1, drain |-> KeptDrain, failure |-> NoFailure]
    /\ judged' = Found
    /\ UNCHANGED <<tracked, gateway, line>>

\* A gateway first seen dead gets its grace, and keeps what is left of it.
CheckGrace ==
    /\ Verdict = "dead" /\ memory.age < Grace
    /\ memory' = [memory EXCEPT !.drain = KeptDrain, !.age = IF @ < 0 THEN 0 ELSE @]
    /\ judged' = Found
    /\ UNCHANGED <<tracked, gateway, line>>

RestartDue == Verdict = "stalled" \/ (Verdict = "dead" /\ memory.age >= Grace)

\* Invoke-GuardedGatewayRestart: three identical failures stop the attempts.
RestartBlocked ==
    /\ RestartDue /\ Blocked(memory.failure)
    /\ memory' = [memory EXCEPT !.drain = KeptDrain]
    /\ judged' = Found
    /\ UNCHANGED <<tracked, gateway, line>>

\* The process is stopped and the next one is started.
Restart ==
    /\ RestartDue /\ ~Blocked(memory.failure)
    /\ \E pid \in NextPid :
          /\ gateway' = Booted(pid)
          /\ judged' = [Found EXCEPT !.boots = pid]
    /\ memory' = [age |-> -1, drain |-> IF Verdict = "stalled" THEN NoLine ELSE KeptDrain,
                  failure |-> NoFailure]
    /\ UNCHANGED <<tracked, line>>

\* A build that is not main is refused before the process is stopped; a start
\* that fails leaves no process.
RestartFails ==
    /\ RestartDue /\ ~Blocked(memory.failure)
    /\ \E cause \in FailureCauses :
          /\ memory' = [memory EXCEPT !.drain = KeptDrain,
                                      !.failure = Recorded(@, cause)]
          /\ gateway' = IF cause = "start_failed" THEN NoProcess ELSE gateway
    /\ judged' = Found
    /\ UNCHANGED <<tracked, line>>

Check == CheckWell \/ CheckGrace \/ RestartBlocked \/ Restart \/ RestartFails

-----------------------------------------------------------------------------

WatchInit ==
    /\ tracked = [alert \in Alerts |-> NeverFired]
    /\ gateway = NoProcess
    /\ line = NoLine
    /\ memory = [age |-> -1, drain |-> NoLine, failure |-> NoFailure]
    /\ judged = [pid |-> 0, phase |-> "down", moved |-> FALSE, boots |-> 0]

WatchNext ==
    \/ Evaluate
    \/ Boot \/ Die \/ StartDrain \/ LogIntervalEnds \/ DrainBatch \/ DrainEnds
    \/ Listen \/ Health
    \/ Wait
    \/ Check

WatchSpec == WatchInit /\ [][WatchNext]_watchVars

-----------------------------------------------------------------------------
WatchTypeOK ==
    /\ \A alert \in Alerts : tracked[alert].state \in {"cleared", "opening", "open", "clearing"}
    /\ gateway.phase \in {"down", "booting", "draining", "drained", "up"} /\ gateway.issues \subseteq Issues
    /\ memory.age \in -1 .. Grace /\ memory.failure.count \in 0 .. FailureLimit

(* The critical alert of a metric never stands without its warning, although *)
(* each has a hysteresis of its own.                                         *)
CriticalNeverAlone == "critical" \in Reported => "warn" \in Reported

(* A process is stopped for a stalled startup drain only if the check before *)
(* found the same process in its drain, and every batch it replayed since    *)
(* came within five seconds of the drain's last line: the line of an earlier *)
(* boot never stops its successor, nor is a batch missed that came later     *)
(* (gateway-health-watchdog.ps1:231-232, service.ts:316-320).                *)
StallIsReal ==
    [][Verdict = "stalled" /\ (Restart \/ RestartFails) =>
          /\ gateway.phase = "draining" /\ judged.phase = "draining"
          /\ gateway.pid = judged.pid /\ ~judged.moved]_watchVars

WatchSafe == [](WatchTypeOK /\ CriticalNeverAlone) /\ StallIsReal
=============================================================================
