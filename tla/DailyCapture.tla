----------------------------- MODULE DailyCapture -----------------------------
(***************************************************************************)
(* The daily capture lock: once the profit realised in a trading day has   *)
(* reached the objective, the day is locked and entries are refused until  *)
(* the reset.  The objective is judged only when a packet is built, by     *)
(* Hermes' poll or for the check of an entry, and a build awaits the store *)
(* between reading the clock, reading the outcomes, storing the lock and   *)
(* reading it back, while trades close, outcomes are published, the day    *)
(* turns, the other build goes on and the process may die.                 *)
(***************************************************************************)
EXTENDS SessionCalendar, FiniteSetsExt

CONSTANTS Trades, Pnl,         \* closed trades and what each realises
          Objective,           \* objective_usd
          FirstHour, LastHour, \* bounds of the clock
          MaxRestarts          \* bound on crashes

ASSUME CaptureAssumption ==
    /\ Pnl \in [Trades -> Int] /\ Objective \in Nat \ {0} /\ MaxRestarts \in Nat
    /\ {FirstHour, LastHour} \subseteq Nat /\ FirstHour <= LastHour

Builders == {"poll", "check"}

VARIABLES dayClock,
          closedAt,     \* exit_utc of each trade, or 0 while it is open
          published,    \* outcomes of the trade outcome store
          locks,        \* daily_capture_locks
          builds,       \* the calls of current() that are under way
          issuedLocked, \* daily_capture_locked of the issued packet
          entryCheck,   \* what became of the last entry
          earned,       \* history: days whose published profit reached the objective
          owed,         \* history: the entry has met a reached objective all along
          restarts

captureVars == <<dayClock, closedAt, published, locks, builds, issuedLocked, entryCheck, earned, owed, restarts>>

NoBuild == [at |-> "idle", day |-> TrueDay(FirstHour), locked |-> FALSE]

CaptureInit ==
    /\ dayClock = FirstHour /\ closedAt = [t \in Trades |-> 0] /\ published = {} /\ locks = {}
    /\ builds = [b \in Builders |-> NoBuild] /\ issuedLocked = FALSE /\ entryCheck = "none"
    /\ earned = {} /\ owed = FALSE /\ restarts = 0

HourPasses ==
    /\ dayClock < LastHour /\ dayClock' = dayClock + 1
    /\ UNCHANGED <<closedAt, published, locks, builds, issuedLocked, entryCheck, earned, owed, restarts>>

TradeCloses(t) ==
    /\ closedAt[t] = 0 /\ closedAt' = [closedAt EXCEPT ![t] = dayClock]
    /\ UNCHANGED <<dayClock, published, locks, builds, issuedLocked, entryCheck, earned, owed, restarts>>

TotalPnl(trades) == MapThenSumSet(LAMBDA t : Pnl[t], trades)

\* What the trades of a true trading day have realised, as far as published.
TrueProgress(date, known) == TotalPnl({t \in known : TrueDay(closedAt[t]) = date})

\* The outcome of a closed trade reaches the store; it may take the profit of
\* its day back below the objective.
OutcomePublished(t) ==
    LET date == TrueDay(closedAt[t])
        now  == published \cup {t}
    IN
    /\ closedAt[t] # 0 /\ t \notin published
    /\ published' = now
    /\ earned' = IF TrueProgress(date, now) >= Objective THEN earned \cup {date} ELSE earned
    /\ owed' = (owed /\ LET d == builds["check"].day IN d \in locks \/ TrueProgress(d, now) >= Objective)
    /\ UNCHANGED <<dayClock, closedAt, locks, builds, issuedLocked, entryCheck, restarts>>

----------------------------------------------------------------------------
(* DecisionPacketService.current().                                        *)

\* sumRealizedForTradingDay.
\* Faulty: every outcome counts, whichever day it was realised in.
RealizedEver(date) == TotalPnl(published)
Realized(date) ==
    TotalPnl({t \in published : DayStart(date) <= closedAt[t] /\ closedAt[t] < DayEnd(date)})

\* computeDailyEconomics: whether the objective is reached.
Reached(date) == Realized(date) >= Objective

Build(b) == builds[b]
SetBuild(b, to) == builds' = [builds EXCEPT ![b] = to]

\* The clock is read; the call awaits the store.
Begun(b) == SetBuild(b, [at |-> "clocked", day |-> TradingDay(dayClock), locked |-> FALSE])

PollBegins ==
    /\ Build("poll").at = "idle" /\ Begun("poll")
    /\ UNCHANGED <<dayClock, closedAt, published, locks, issuedLocked, entryCheck, earned, owed, restarts>>

\* handleEntry: a packet issued as locked refuses, otherwise another is built
\* for its lock alone.
EntryChecks ==
    /\ entryCheck # "checking" /\ ~issuedLocked /\ Begun("check")
    /\ entryCheck' = "checking"
    /\ owed' = (\/ TrueDay(dayClock) \in locks
                \/ TrueProgress(TrueDay(dayClock), published) >= Objective)
    /\ UNCHANGED <<dayClock, closedAt, published, locks, issuedLocked, earned, restarts>>

JudgeObjective(b) ==
    /\ Build(b).at = "clocked"
    /\ SetBuild(b, [Build(b) EXCEPT !.at = IF Reached(Build(b).day) THEN "reached" ELSE "reading"])
    /\ UNCHANGED <<dayClock, closedAt, published, locks, issuedLocked, entryCheck, earned, owed, restarts>>

\* latchDailyCapture, which keeps a lock that is there.
Latch(b) ==
    /\ Build(b).at = "reached"
    /\ locks' = locks \cup {Build(b).day}
    /\ SetBuild(b, [Build(b) EXCEPT !.at = "reading"])
    /\ UNCHANGED <<dayClock, closedAt, published, issuedLocked, entryCheck, earned, owed, restarts>>

\* isDailyCaptureLocked.
\* Faulty: a lock answers only while its objective is still reached.
LockedWhileReached(date) == date \in locks /\ Reached(date)
Locked(date) == date \in locks

ReadLock(b) ==
    /\ Build(b).at = "reading"
    /\ SetBuild(b, [Build(b) EXCEPT !.at = "built", !.locked = Locked(Build(b).day)])
    /\ UNCHANGED <<dayClock, closedAt, published, locks, issuedLocked, entryCheck, earned, owed, restarts>>

\* The packet is recorded: the poll's is decided on, the check's lock decides.
PacketRecorded(b) ==
    /\ Build(b).at = "built" /\ SetBuild(b, NoBuild)
    /\ IF b = "poll"
       THEN issuedLocked' = Build(b).locked /\ UNCHANGED entryCheck
       ELSE entryCheck' = (IF Build(b).locked THEN "refused" ELSE "admitted") /\ UNCHANGED issuedLocked
    /\ UNCHANGED <<dayClock, closedAt, published, locks, earned, owed, restarts>>

\* The locks, the outcomes and the issued packet are in the stores.
GatewayRestarts ==
    /\ restarts < MaxRestarts /\ restarts' = restarts + 1
    /\ builds' = [b \in Builders |-> NoBuild]
    /\ entryCheck' = "none" /\ owed' = FALSE
    /\ UNCHANGED <<dayClock, closedAt, published, locks, issuedLocked, earned>>

CaptureNext ==
    \/ HourPasses \/ PollBegins \/ EntryChecks \/ GatewayRestarts
    \/ \E t \in Trades : TradeCloses(t) \/ OutcomePublished(t)
    \/ \E b \in Builders : JudgeObjective(b) \/ Latch(b) \/ ReadLock(b) \/ PacketRecorded(b)

CaptureSpec == CaptureInit /\ [][CaptureNext]_captureVars

-----------------------------------------------------------------------------
CaptureTypeOK ==
    /\ dayClock \in FirstHour .. LastHour /\ closedAt \in [Trades -> 0 .. LastHour]
    /\ published \subseteq {t \in Trades : closedAt[t] # 0}
    /\ \A b \in Builders : Build(b).at \in {"idle", "clocked", "reached", "reading", "built"}
    /\ entryCheck \in {"none", "checking", "refused", "admitted"}

(* A trading day is locked only if the outcomes published for that day did  *)
(* once reach the objective: no profit of another day locks it             *)
(* (computeDailyEconomics, latchDailyCapture).                             *)
LockEarned == locks \subseteq earned

(* An entry whose check began in a day that was locked, or whose objective  *)
(* was reached and stayed so, is never admitted, whatever was issued to     *)
(* Hermes before and whoever builds a packet beside it (handleEntry).      *)
LockedDayRefuses == entryCheck = "admitted" => ~owed

\* The hours of the clock at which the calendar is right.
TrueHours == {t \in FirstHour .. LastHour : CalendarTrue(t, FirstHour .. LastHour)}

(* The capture lock is of the right day and does its work; the calendar     *)
(* under it is right at every hour the clock shows.                         *)
CaptureInv ==
    /\ CaptureTypeOK /\ LockEarned /\ LockedDayRefuses
    /\ dayClock \in TrueHours
================================================================================
