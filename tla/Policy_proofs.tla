----------------------------- MODULE Policy_proofs -----------------------------
(***************************************************************************)
(* Proofs about the policies of a position and of a day: amendments of its *)
(* stop (Amendment), the lock of a captured day (DailyCapture), and the    *)
(* equity an entry is admitted against (Admission).                        *)
(***************************************************************************)
EXTENDS DailyCapture, Amendment, Admission, FiniteSetTheorems, TLAPS

(***************************************************************************)
(* The capture lock, for any trades, objective and clock.  Where the        *)
(* calendar is right at every hour of the clock (CalendarTrue, which is     *)
(* checked and not proved), what a build takes for the profit of its day is *)
(* that profit.  The invariant follows a build from the hour its day was   *)
(* read at: one that found the objective reached is of a day that earned   *)
(* its lock, and one whose entry is owed a refusal has met the lock before *)
(* it reads it.                                                             *)
(***************************************************************************)
Stages == {"idle", "clocked", "reached", "reading", "built"}
ClockHours == FirstHour .. LastHour

BuildTypeOK ==
    /\ CaptureTypeOK /\ \A t \in Trades : closedAt[t] # 0 => closedAt[t] \in ClockHours
    /\ builds \in [Builders -> [at : Stages, day : {TrueDay(t) : t \in ClockHours}, locked : BOOLEAN]]

(* A day whose published profit is at the objective has earned its lock, and *)
(* so has one that a build found there or locked.                           *)
EarnedInv ==
    /\ \A date \in {TrueDay(t) : t \in ClockHours} :
         TrueProgress(date, published) >= Objective => date \in earned
    /\ \A b \in Builders : builds[b].at = "reached" => builds[b].day \in earned
    /\ LockEarned

(* The check of an entry that is owed a refusal finds the lock.             *)
OwedInv ==
    LET check == builds["check"] IN
    /\ entryCheck = "checking" <=> check.at # "idle"
    /\ owed /\ check.at = "clocked" =>
         check.day \in locks \/ TrueProgress(check.day, published) >= Objective
    /\ owed /\ check.at = "reading" => check.day \in locks
    /\ owed /\ check.at = "built" => check.locked
    /\ LockedDayRefuses

LockInv == BuildTypeOK /\ EarnedInv /\ OwedInv

-----------------------------------------------------------------------------
(* A sum over nothing, which is below every objective.                      *)
LEMMA NothingEarned == TotalPnl({}) = 0
<1> DEFINE Iter(g) == [s \in SUBSET {} |-> IF s = {} THEN 0
                                           ELSE LET x == CHOOSE x \in s : TRUE IN Pnl[x] + g[s \ {x}]]
           h == CHOOSE g : g = Iter(g)
<1>1. \E g : g = Iter(g)
  <2>1. SUBSET {} = {{}}
    OBVIOUS
  <2>2. [s \in SUBSET {} |-> 0] = Iter([s \in SUBSET {} |-> 0])
    BY <2>1
  <2>3. QED BY <2>2
<1>2. h = Iter(h)
  BY <1>1
<1>3. h[{}] = 0
  <2> HIDE DEF h
  <2>1. {} \in SUBSET {}
    OBVIOUS
  <2>2. QED BY <1>2, <2>1
<1>4. TotalPnl({}) = h[{}]
  BY DEF TotalPnl, MapThenSumSet, MapThenFoldSet
<1>5. QED BY <1>3, <1>4

(* Where the calendar is right, the code's day and its profit are the true  *)
(* ones.                                                                    *)
LEMMA DayIsTrue ==
    ASSUME TrueHours = ClockHours, NEW t \in ClockHours
    PROVE  TradingDay(t) = TrueDay(t)
BY DEF TrueHours, CalendarTrue, ClockHours

LEMMA RealizedIsTrue ==
    ASSUME TrueHours = ClockHours, BuildTypeOK, NEW t \in ClockHours
    PROVE  Realized(TrueDay(t)) = TrueProgress(TrueDay(t), published)
<1>1. \A u \in ClockHours : (DayStart(TrueDay(t)) <= u /\ u < DayEnd(TrueDay(t)))
                               <=> TrueDay(u) = TrueDay(t)
  BY DEF TrueHours, CalendarTrue, ClockHours
<1>2. \A k \in published : closedAt[k] \in ClockHours
  BY DEF BuildTypeOK, CaptureTypeOK
<1>3. {k \in published : DayStart(TrueDay(t)) <= closedAt[k] /\ closedAt[k] < DayEnd(TrueDay(t))}
        = {k \in published : TrueDay(closedAt[k]) = TrueDay(t)}
  BY <1>1, <1>2
<1>4. QED BY <1>3 DEF Realized, TrueProgress

-----------------------------------------------------------------------------
LEMMA LockInit == CaptureInit => LockInv
<1> SUFFICES ASSUME CaptureInit PROVE LockInv
  OBVIOUS
<1>1. FirstHour \in ClockHours /\ 0 \in 0 .. LastHour
  BY CaptureAssumption DEF ClockHours
<1>2. BuildTypeOK
  BY <1>1 DEF CaptureInit, BuildTypeOK, CaptureTypeOK, NoBuild, Stages, Build, ClockHours
<1>3. EarnedInv
  <2>1. ASSUME NEW date PROVE ~(TrueProgress(date, published) >= Objective)
    <3>1. {t \in published : TrueDay(closedAt[t]) = date} = {}
      BY DEF CaptureInit
    <3>2. TrueProgress(date, published) = 0
      BY <3>1, NothingEarned DEF TrueProgress
    <3>3. QED BY <3>2, CaptureAssumption
  <2>2. QED BY <2>1 DEF CaptureInit, EarnedInv, NoBuild, LockEarned
<1>4. OwedInv
  BY DEF CaptureInit, OwedInv, NoBuild, LockedDayRefuses, Builders
<1>5. QED BY <1>2, <1>3, <1>4 DEF LockInv

(* The clock, the market and the process: nothing a build knows changes but *)
(* the profit published beside it.                                          *)
LEMMA HourKeeps == ASSUME LockInv, HourPasses PROVE LockInv'
<1>1. dayClock' \in ClockHours
  BY CaptureAssumption DEF LockInv, BuildTypeOK, CaptureTypeOK, HourPasses, ClockHours
<1>2. BuildTypeOK'
  BY <1>1 DEF LockInv, BuildTypeOK, CaptureTypeOK, HourPasses, ClockHours, Build
<1>3. EarnedInv' /\ OwedInv'
  BY DEF LockInv, HourPasses, EarnedInv, OwedInv, LockEarned, LockedDayRefuses, TrueProgress
<1>4. QED BY <1>2, <1>3 DEF LockInv

LEMMA CloseKeeps == ASSUME LockInv, NEW t \in Trades, TradeCloses(t) PROVE LockInv'
<1>1. /\ dayClock \in ClockHours /\ t \notin published
      /\ closedAt' = [closedAt EXCEPT ![t] = dayClock]
      /\ UNCHANGED <<dayClock, published, locks, builds, issuedLocked, entryCheck, earned, owed, restarts>>
  BY DEF LockInv, BuildTypeOK, CaptureTypeOK, TradeCloses, ClockHours
<1>2. BuildTypeOK'
  BY <1>1, CaptureAssumption DEF LockInv, BuildTypeOK, CaptureTypeOK, ClockHours, Build
<1>3. ASSUME NEW date PROVE TrueProgress(date, published)' = TrueProgress(date, published)
  <2>1. {k \in published : TrueDay(closedAt'[k]) = date} = {k \in published : TrueDay(closedAt[k]) = date}
    BY <1>1 DEF LockInv, BuildTypeOK, CaptureTypeOK
  <2>2. QED BY <1>1, <2>1 DEF TrueProgress
<1>4. EarnedInv' /\ OwedInv'
  BY <1>1, <1>3 DEF LockInv, EarnedInv, OwedInv, LockEarned, LockedDayRefuses
<1>5. QED BY <1>2, <1>4 DEF LockInv

LEMMA PublicationKeeps == ASSUME LockInv, NEW t \in Trades, OutcomePublished(t) PROVE LockInv'
<1> DEFINE day == TrueDay(closedAt[t])
<1>1. /\ UNCHANGED <<dayClock, closedAt, locks, builds, issuedLocked, entryCheck, restarts>>
      /\ published' = published \cup {t} /\ closedAt[t] # 0
      /\ earned' = IF TrueProgress(day, published') >= Objective THEN earned \cup {day} ELSE earned
      /\ owed' = (owed /\ \/ builds["check"].day \in locks
                          \/ TrueProgress(builds["check"].day, published') >= Objective)
  BY DEF OutcomePublished
<1>2. BuildTypeOK'
  BY <1>1 DEF LockInv, BuildTypeOK, CaptureTypeOK, ClockHours, Build
<1>3. ASSUME NEW date, date # day PROVE TrueProgress(date, published') = TrueProgress(date, published)
  <2>1. {k \in published' : TrueDay(closedAt[k]) = date} = {k \in published : TrueDay(closedAt[k]) = date}
    BY <1>1, <1>3
  <2>2. QED BY <2>1 DEF TrueProgress
<1>4. ASSUME NEW date, NEW known PROVE TrueProgress(date, known)' = TrueProgress(date, known')
  BY <1>1 DEF TrueProgress
<1>5. EarnedInv'
  BY <1>1, <1>3, <1>4 DEF LockInv, EarnedInv, LockEarned, TrueProgress
<1>6. OwedInv'
  BY <1>1, <1>4 DEF LockInv, OwedInv, LockedDayRefuses, TrueProgress
<1>7. QED BY <1>2, <1>5, <1>6 DEF LockInv

(* The steps of a build.                                                    *)
LEMMA BeginKeeps ==
    ASSUME TrueHours = ClockHours, LockInv, PollBegins \/ EntryChecks
    PROVE  LockInv'
<1> DEFINE day == TrueDay(dayClock)
<1>1. dayClock \in ClockHours
  BY DEF LockInv, BuildTypeOK, CaptureTypeOK, ClockHours
<1>2. TradingDay(dayClock) = day /\ day \in {TrueDay(t) : t \in ClockHours}
  BY <1>1, DayIsTrue
<1>3. UNCHANGED <<dayClock, closedAt, published, locks, issuedLocked, earned, restarts>>
  BY DEF PollBegins, EntryChecks
<1>4. PICK b \in Builders :
        /\ builds' = [builds EXCEPT ![b] = [at |-> "clocked", day |-> day, locked |-> FALSE]]
        /\ b = "poll" => PollBegins
        /\ b = "check" => EntryChecks
  BY <1>2 DEF PollBegins, EntryChecks, Begun, SetBuild, Builders
<1>5. BuildTypeOK'
  <2>1. builds' \in [Builders -> [at : Stages, day : {TrueDay(t) : t \in ClockHours}, locked : BOOLEAN]]
    BY <1>2, <1>4 DEF LockInv, BuildTypeOK, Stages
  <2>2. QED
    BY <1>3, <1>4, <2>1 DEF LockInv, BuildTypeOK, CaptureTypeOK, Build, Stages, PollBegins, EntryChecks,
       Builders
<1>6. EarnedInv'
  BY <1>3, <1>4 DEF LockInv, BuildTypeOK, EarnedInv, LockEarned, TrueProgress
<1>7. OwedInv'
  <2>1. CASE b = "poll"
    BY <1>3, <1>4, <2>1 DEF LockInv, BuildTypeOK, OwedInv, LockedDayRefuses, TrueProgress, Builders,
       PollBegins
  <2>2. CASE b = "check"
    BY <1>2, <1>3, <1>4, <2>2 DEF LockInv, BuildTypeOK, OwedInv, LockedDayRefuses, TrueProgress, Builders,
       EntryChecks
  <2>3. QED BY <2>1, <2>2 DEF Builders
<1>8. QED BY <1>5, <1>6, <1>7 DEF LockInv

LEMMA JudgeKeeps ==
    ASSUME TrueHours = ClockHours, LockInv, NEW b \in Builders, JudgeObjective(b)
    PROVE  LockInv'
<1> DEFINE day == builds[b].day
<1>1. PICK t \in ClockHours : day = TrueDay(t)
  BY DEF LockInv, BuildTypeOK
<1>2. Reached(day) <=> TrueProgress(day, published) >= Objective
  <2>1. Realized(day) = TrueProgress(day, published)
    BY <1>1, RealizedIsTrue DEF LockInv
  <2>2. QED BY <2>1 DEF Reached
<1>3. /\ UNCHANGED <<dayClock, closedAt, published, locks, issuedLocked, entryCheck, earned, owed, restarts>>
      /\ builds[b].at = "clocked"
      /\ builds' = [builds EXCEPT ![b] =
                      [builds[b] EXCEPT !.at = IF Reached(day) THEN "reached" ELSE "reading"]]
  BY DEF JudgeObjective, SetBuild, Build
<1>4. BuildTypeOK'
  BY <1>3 DEF LockInv, BuildTypeOK, CaptureTypeOK, Build, Stages
<1>5. EarnedInv'
  BY <1>1, <1>2, <1>3 DEF LockInv, BuildTypeOK, EarnedInv, LockEarned, TrueProgress
<1>6. OwedInv'
  BY <1>2, <1>3 DEF LockInv, BuildTypeOK, OwedInv, LockedDayRefuses, TrueProgress, Builders
<1>7. QED BY <1>4, <1>5, <1>6 DEF LockInv

LEMMA LatchKeeps == ASSUME LockInv, NEW b \in Builders, Latch(b) PROVE LockInv'
<1>1. /\ UNCHANGED <<dayClock, closedAt, published, issuedLocked, entryCheck, earned, owed, restarts>>
      /\ builds[b].at = "reached" /\ locks' = locks \cup {builds[b].day}
      /\ builds' = [builds EXCEPT ![b] = [builds[b] EXCEPT !.at = "reading"]]
  BY DEF Latch, SetBuild, Build
<1>2. BuildTypeOK'
  BY <1>1 DEF LockInv, BuildTypeOK, CaptureTypeOK, Build, Stages
<1>3. EarnedInv'
  BY <1>1 DEF LockInv, BuildTypeOK, EarnedInv, LockEarned, TrueProgress
<1>4. OwedInv'
  BY <1>1 DEF LockInv, BuildTypeOK, OwedInv, LockedDayRefuses, TrueProgress, Builders
<1>5. QED BY <1>2, <1>3, <1>4 DEF LockInv

LEMMA ReadKeeps == ASSUME LockInv, NEW b \in Builders, ReadLock(b) PROVE LockInv'
<1>1. /\ UNCHANGED <<dayClock, closedAt, published, locks, issuedLocked, entryCheck, earned, owed, restarts>>
      /\ builds[b].at = "reading"
      /\ builds' = [builds EXCEPT ![b] = [builds[b] EXCEPT !.at = "built", !.locked = builds[b].day \in locks]]
  BY DEF ReadLock, SetBuild, Build, Locked
<1>2. BuildTypeOK'
  <2>1. builds' \in [Builders -> [at : Stages, day : {TrueDay(t) : t \in ClockHours}, locked : BOOLEAN]]
    <3>2. builds[b] \in [at : Stages, day : {TrueDay(t) : t \in ClockHours}, locked : BOOLEAN]
      BY DEF LockInv, BuildTypeOK
    <3>3. PICK found \in BOOLEAN : builds' = [builds EXCEPT ![b] =
                                       [builds[b] EXCEPT !.at = "built", !.locked = found]]
      <4> DEFINE answer == builds[b].day \in locks
      <4>1. answer \in BOOLEAN
        OBVIOUS
      <4>2. builds' = [builds EXCEPT ![b] = [builds[b] EXCEPT !.at = "built", !.locked = answer]]
        BY <1>1
      <4>3. QED BY <4>1, <4>2, Zenon
    <3>4. [builds[b] EXCEPT !.at = "built", !.locked = found]
            \in [at : Stages, day : {TrueDay(t) : t \in ClockHours}, locked : BOOLEAN]
      BY <3>2 DEF Stages
    <3>5. QED BY <3>3, <3>4 DEF LockInv, BuildTypeOK
  <2>2. QED BY <1>1, <2>1 DEF LockInv, BuildTypeOK, CaptureTypeOK, Build, Stages
<1>3. EarnedInv'
  BY <1>1 DEF LockInv, BuildTypeOK, EarnedInv, LockEarned, TrueProgress
<1>4. OwedInv'
  BY <1>1 DEF LockInv, BuildTypeOK, OwedInv, LockedDayRefuses, TrueProgress, Builders
<1>5. QED BY <1>2, <1>3, <1>4 DEF LockInv

LEMMA RecordKeeps == ASSUME LockInv, NEW b \in Builders, PacketRecorded(b) PROVE LockInv'
<1>1. /\ UNCHANGED <<dayClock, closedAt, published, locks, earned, owed, restarts>>
      /\ builds[b].at = "built" /\ builds' = [builds EXCEPT ![b] = NoBuild]
      /\ b = "poll" => UNCHANGED entryCheck
      /\ b # "poll" => entryCheck' = (IF builds[b].locked THEN "refused" ELSE "admitted")
  BY DEF PacketRecorded, SetBuild, Build
<1>2. BuildTypeOK'
  <2>1. NoBuild \in [at : Stages, day : {TrueDay(t) : t \in ClockHours}, locked : BOOLEAN]
    BY CaptureAssumption DEF NoBuild, Stages, ClockHours
  <2>2. builds' \in [Builders -> [at : Stages, day : {TrueDay(t) : t \in ClockHours}, locked : BOOLEAN]]
    BY <1>1, <2>1 DEF LockInv, BuildTypeOK
  <2>3. QED BY <1>1, <2>2 DEF LockInv, BuildTypeOK, CaptureTypeOK, Build, Stages
<1>3. EarnedInv'
  BY <1>1 DEF LockInv, BuildTypeOK, EarnedInv, LockEarned, TrueProgress, NoBuild
<1>4. OwedInv'
  BY <1>1 DEF LockInv, BuildTypeOK, OwedInv, LockedDayRefuses, TrueProgress, Builders, NoBuild
<1>5. QED BY <1>2, <1>3, <1>4 DEF LockInv

LEMMA RestartKeeps == ASSUME LockInv, GatewayRestarts PROVE LockInv'
<1>1. /\ UNCHANGED <<dayClock, closedAt, published, locks, issuedLocked, earned>>
      /\ builds' = [b \in Builders |-> NoBuild] /\ entryCheck' = "none" /\ owed' = FALSE
  BY DEF GatewayRestarts
<1>2. BuildTypeOK'
  <2>1. NoBuild \in [at : Stages, day : {TrueDay(t) : t \in ClockHours}, locked : BOOLEAN]
    BY CaptureAssumption DEF NoBuild, Stages, ClockHours
  <2>2. QED BY <1>1, <2>1 DEF LockInv, BuildTypeOK, CaptureTypeOK, Build, Stages
<1>3. EarnedInv'
  BY <1>1 DEF LockInv, EarnedInv, LockEarned, TrueProgress, NoBuild
<1>4. OwedInv'
  BY <1>1 DEF OwedInv, LockedDayRefuses, Builders, NoBuild
<1>5. QED BY <1>2, <1>3, <1>4 DEF LockInv

LEMMA LockNext ==
    ASSUME TrueHours = ClockHours
    PROVE  LockInv /\ [CaptureNext]_captureVars => LockInv'
<1> SUFFICES ASSUME LockInv, [CaptureNext]_captureVars PROVE LockInv'
  OBVIOUS
<1>1. CASE CaptureNext
  BY <1>1, HourKeeps, CloseKeeps, PublicationKeeps, BeginKeeps, JudgeKeeps, LatchKeeps, ReadKeeps,
     RecordKeeps, RestartKeeps DEF CaptureNext
<1>2. CASE UNCHANGED captureVars
  BY <1>2 DEF captureVars, LockInv, BuildTypeOK, CaptureTypeOK, Build, EarnedInv, LockEarned, OwedInv,
              LockedDayRefuses, TrueProgress
<1>3. QED BY <1>1, <1>2

(* For any trades and objective, and wherever the calendar is right at the   *)
(* hours of the clock: a day is locked only if it earned it, and an entry   *)
(* checked in a day that is locked, or stays at its objective, is refused,  *)
(* whatever outcomes, builds and crashes come between (packet-service.ts,   *)
(* coordinator.ts).                                                         *)
THEOREM CaptureIsRight ==
    ASSUME TrueHours = FirstHour .. LastHour
    PROVE  CaptureSpec => []CaptureInv
<1>1. CaptureSpec => []LockInv
  <2>1. LockInv /\ [CaptureNext]_captureVars => LockInv'
    BY LockNext DEF ClockHours
  <2>2. QED BY LockInit, <2>1, PTL DEF CaptureSpec
<1>2. LockInv => CaptureInv
  BY DEF LockInv, BuildTypeOK, CaptureTypeOK, EarnedInv, OwedInv, CaptureInv
<1>3. QED BY <1>1, <1>2, PTL
-----------------------------------------------------------------------------
(***************************************************************************)
(* Amendments, for any prices, either side and any order of amendments,    *)
(* quotes and late snapshots.  The envelope is kept by every stop that is  *)
(* about: the working one, the one the snapshot still shows and the one    *)
(* under way.  What an amendment is compared with is only the second.      *)
(***************************************************************************)
(* Every price a stop can have.                                             *)
StopPrices == Levels \cup FirstStops \cup {b + 1 : b \in Levels}
                \cup {b + AskGap - 1 : b \in Levels} \cup Averages

Enveloped(p) == ~(Worse(p, StopLoss) /\ Worse(p, first))

EnvelopeInv ==
    /\ bid \in Levels /\ average \in Averages /\ qualityComplete \in BOOLEAN
    /\ first \in FirstStops /\ {stop, seen} \subseteq StopPrices
    /\ job = 0 \/ job \in StopPrices
    /\ \A p \in {stop, seen} : Enveloped(p)
    /\ job # 0 => Enveloped(job)

-----------------------------------------------------------------------------
LEMMA PricesAreIntegers == StopPrices \subseteq Int /\ FirstStops \subseteq Int /\ Averages \subseteq Int
BY AmendmentAssumption DEF StopPrices

LEMMA EnvelopeInit == AmendmentInit => EnvelopeInv
<1> SUFFICES ASSUME AmendmentInit PROVE EnvelopeInv
  OBVIOUS
<1>1. first \in Int
  BY PricesAreIntegers DEF AmendmentInit
<1>2. ~Worse(first, first)
  BY <1>1 DEF Worse
<1>3. QED
  BY <1>2 DEF AmendmentInit, EnvelopeInv, StopPrices, Enveloped

(* An amendment that is let through keeps the envelope if the stop it was   *)
(* compared with does, however old that one is.                             *)
LEMMA AmendmentKeepsEnvelope ==
    ASSUME EnvelopeInv, NEW p \in StopPrices, NEW source, AmendmentOk(p, source)
    PROVE  Enveloped(p)
<1>1. /\ p \in Int /\ seen \in Int /\ first \in Int /\ StopLoss \in Int
      /\ Enveloped(seen)
  <2>1. seen \in StopPrices /\ first \in FirstStops /\ Enveloped(seen)
    BY DEF EnvelopeInv
  <2>2. QED BY <2>1, PricesAreIntegers, AmendmentAssumption
<1>2. CASE Worse(p, seen)
  BY <1>2 DEF AmendmentOk, WithinEnvelope, Enveloped
<1>3. CASE ~Worse(p, seen)
  BY <1>1, <1>3 DEF Enveloped, Worse
<1>4. QED BY <1>2, <1>3

LEMMA BreakevenIsAPrice == EnvelopeInv => Breakeven \in StopPrices
<1> SUFFICES ASSUME EnvelopeInv PROVE Breakeven \in StopPrices
  OBVIOUS
<1>1. bid \in Levels /\ average \in Averages
  BY DEF EnvelopeInv
<1>2. Ask - 1 \in StopPrices /\ bid + 1 \in StopPrices
  <2>1. Ask - 1 \in {b + AskGap - 1 : b \in Levels} /\ bid + 1 \in {b + 1 : b \in Levels}
    <3>1. bid \in Int /\ AskGap \in Int
      BY <1>1, AmendmentAssumption
    <3>2. QED BY <1>1, <3>1 DEF Ask
  <2>2. QED BY <2>1, Zenon DEF StopPrices
<1>3. average \in StopPrices
  BY <1>1 DEF StopPrices
<1>4. QED BY <1>2, <1>3 DEF Breakeven

LEMMA EnvelopeNext == EnvelopeInv /\ [AmendmentNext]_amendmentVars => EnvelopeInv'
<1> SUFFICES ASSUME EnvelopeInv, [AmendmentNext]_amendmentVars PROVE EnvelopeInv'
  OBVIOUS
<1>1. ASSUME NEW p \in Levels, MoveStop(p) PROVE EnvelopeInv'
  <2>1. p \in StopPrices
    BY DEF StopPrices
  <2>2. Enveloped(p)
    BY <1>1, <2>1, AmendmentKeepsEnvelope DEF MoveStop
  <2>3. QED BY <1>1, <2>1, <2>2 DEF MoveStop, EnvelopeInv, Enveloped
<1>2. CASE CaptureTightens
  <2>1. Breakeven \in StopPrices
    BY BreakevenIsAPrice
  <2>2. Enveloped(Breakeven)
    BY <1>2, <2>1, AmendmentKeepsEnvelope DEF CaptureTightens
  <2>3. QED BY <1>2, <2>1, <2>2 DEF CaptureTightens, EnvelopeInv, Enveloped
<1>3. CASE Amended
  BY <1>3 DEF Amended, EnvelopeInv, Enveloped
<1>4. CASE StopSeen
  BY <1>4 DEF StopSeen, EnvelopeInv, Enveloped
<1>5. CASE QuoteMoves
  BY <1>5 DEF QuoteMoves, EnvelopeInv, Enveloped
<1>6. CASE AverageMoves
  BY <1>6 DEF AverageMoves, EnvelopeInv, Enveloped
<1>7. CASE DataQualityChanges
  BY <1>7 DEF DataQualityChanges, EnvelopeInv, Enveloped
<1>8. CASE UNCHANGED amendmentVars
  BY <1>8 DEF amendmentVars, EnvelopeInv, Enveloped
<1>9. QED
  BY <1>1, <1>2, <1>3, <1>4, <1>5, <1>6, <1>7, <1>8 DEF AmendmentNext

-----------------------------------------------------------------------------
(* On either side, at any prices and whatever moves between a snapshot and  *)
(* the amendment judged by it, no amendment, of Hermes or of the capture     *)
(* lock, takes the stop beyond both the stop-loss of the intent and the     *)
(* stop of the bracket (validateProtectiveAmendment).                       *)
THEOREM StopStaysWithin == AmendmentSpec => []AmendmentInv
<1>1. AmendmentSpec => []EnvelopeInv
  BY EnvelopeInit, EnvelopeNext, PTL DEF AmendmentSpec
<1>2. EnvelopeInv => AmendmentInv
  <2>1. EnvelopeInv => AmendmentTypeOK
    BY DEF EnvelopeInv, AmendmentTypeOK, StopPrices
  <2>2. EnvelopeInv => StopWithinEnvelope
    BY DEF EnvelopeInv, StopWithinEnvelope, Enveloped
  <2>3. QED BY <2>1, <2>2 DEF AmendmentInv
<1>3. QED
  BY <1>1, <1>2, PTL
-----------------------------------------------------------------------------
(* Admission.  The stops cover no more contracts than the position has.     *)
CoveredBy(set) == UNION {{s} \X (1 .. s.size) : s \in set}

StopsInv ==
    /\ \A s \in stops : s.size \in Nat \ {0} /\ s.id \in Nat /\ s.id <= entered
    /\ IsFiniteSet(CoveredBy(stops)) /\ Cardinality(CoveredBy(stops)) <= position.size

AdmissionInv ==
    /\ AdmissionTypeOK /\ cash \in Int /\ StopsInv
    /\ position = [side |-> position.side, size |-> position.size, cost |-> position.cost, lots |-> position.lots]

LEMMA CoveredAre ==
    ASSUME NEW S, \A s \in S : s.size \in Nat
    PROVE  \A c : c \in CoveredBy(S) <=> c = <<c[1], c[2]>> /\ c[1] \in S /\ c[2] \in 1 .. c[1].size
BY DEF CoveredBy

LEMMA OneStopCovers ==
    ASSUME NEW s, s.size \in Nat
    PROVE  IsFiniteSet({s} \X (1 .. s.size)) /\ Cardinality({s} \X (1 .. s.size)) = s.size
<1>1. IsFiniteSet({s}) /\ Cardinality({s}) = 1
  BY FS_Singleton
<1>2. IsFiniteSet(1 .. s.size) /\ Cardinality(1 .. s.size) = IF 1 > s.size THEN 0 ELSE s.size - 1 + 1
  <2>1. s.size \in Int /\ 1 \in Int
    OBVIOUS
  <2>2. IsFiniteSet(1 .. s.size) /\ Cardinality(1 .. s.size) = IF 1 > s.size THEN 0 ELSE s.size - 1 + 1
    BY <2>1, FS_Interval
  <2>3. QED BY <2>2
<1>3. IsFiniteSet({s} \X (1 .. s.size)) /\ Cardinality({s} \X (1 .. s.size)) = 1 * Cardinality(1 .. s.size)
  BY <1>1, <1>2, FS_Product
<1>4. QED BY <1>2, <1>3

(* A stop that goes uncovers its contracts, a new one covers as many more.  *)
LEMMA OneStopLess ==
    ASSUME NEW S, \A x \in S : x.size \in Nat, IsFiniteSet(CoveredBy(S)), NEW s \in S
    PROVE  /\ IsFiniteSet(CoveredBy(S \ {s}))
           /\ Cardinality(CoveredBy(S)) \in Nat /\ Cardinality(CoveredBy(S \ {s})) \in Nat
           /\ Cardinality(CoveredBy(S \ {s})) = Cardinality(CoveredBy(S)) - s.size
<1> DEFINE own == {s} \X (1 .. s.size)
           all == CoveredBy(S)
           rest == CoveredBy(S \ {s})
<1>1. rest \cap own = {} /\ all = rest \cup own
  BY CoveredAre
<1>2. IsFiniteSet(own) /\ Cardinality(own) = s.size
  BY OneStopCovers
<1> HIDE DEF own, rest, all
<1>3. rest \in SUBSET all
  BY <1>1
<1>4. IsFiniteSet(all)
  BY DEF all
<1>5. IsFiniteSet(rest)
  BY <1>3, <1>4, FS_Subset
<1>6. Cardinality(all) = Cardinality(rest) + Cardinality(own) - Cardinality(rest \cap own)
  BY <1>1, <1>2, <1>5, FS_Union
<1>7. Cardinality(rest \cap own) = 0
  BY <1>1, FS_EmptySet
<1>8. Cardinality(all) \in Nat /\ Cardinality(rest) \in Nat
  BY <1>4, <1>5, FS_CardinalityType
<1>9. QED BY <1>2, <1>5, <1>6, <1>7, <1>8 DEF all, rest

LEMMA OneStopMore ==
    ASSUME NEW S, \A x \in S : x.size \in Nat, IsFiniteSet(CoveredBy(S)), NEW s, s \notin S, s.size \in Nat
    PROVE  /\ IsFiniteSet(CoveredBy(S \cup {s}))
           /\ Cardinality(CoveredBy(S)) \in Nat
           /\ Cardinality(CoveredBy(S \cup {s})) = Cardinality(CoveredBy(S)) + s.size
<1> DEFINE T == S \cup {s}
<1>1. CoveredBy(T) = CoveredBy(S) \cup ({s} \X (1 .. s.size))
  BY CoveredAre
<1>2. IsFiniteSet({s} \X (1 .. s.size))
  BY OneStopCovers
<1>3. IsFiniteSet(CoveredBy(T))
  <2> DEFINE own == {s} \X (1 .. s.size)
  <2>1. IsFiniteSet(own) /\ IsFiniteSet(CoveredBy(S)) /\ CoveredBy(T) = CoveredBy(S) \cup own
    BY <1>1, <1>2
  <2> HIDE DEF own, T
  <2>2. IsFiniteSet(CoveredBy(S) \cup own)
    BY <2>1, FS_Union
  <2>3. QED BY <2>1, <2>2
<1>4. T \ {s} = S /\ s \in T /\ \A x \in T : x.size \in Nat
  OBVIOUS
<1> HIDE DEF T
<1>5. /\ Cardinality(CoveredBy(T)) \in Nat /\ Cardinality(CoveredBy(T \ {s})) \in Nat
      /\ Cardinality(CoveredBy(T \ {s})) = Cardinality(CoveredBy(T)) - s.size
  BY <1>3, <1>4, OneStopLess
<1>6. QED BY <1>3, <1>4, <1>5 DEF T

LEMMA NoStopsCoverNothing == IsFiniteSet(CoveredBy({})) /\ Cardinality(CoveredBy({})) = 0
<1>1. CoveredBy({}) = {}
  BY DEF CoveredBy
<1>2. QED BY <1>1, FS_EmptySet

(* What the account is worth at its only stop: the sum over one element.   *)
LEMMA WorthAtOneStop ==
    ASSUME NEW x, stops' = {x}, NEW exitNow,
           exitNow = IF position'.side = "short" THEN mark' + Spread ELSE mark',
           x.size * (Sign(position'.side) * (x.price - exitNow) - Fees) \in Int
    PROVE  WorthAtStops' = ConservativeEquity' + x.size * (Sign(position'.side) * (x.price - exitNow) - Fees)
<1> DEFINE value(s) == s.size * (Sign(position'.side) * (s.price - exitNow) - Fees)
           pick(s) == CHOOSE y \in s : TRUE
           Step(g) == [s \in SUBSET {x} |-> IF s = {} THEN 0 ELSE value(pick(s)) + g[s \ {pick(s)}]]
           it == CHOOSE g : g = Step(g)
           one == [s \in SUBSET {x} |-> IF s = {} THEN 0 ELSE value(x)]
<1>1. \A s \in SUBSET {x} : s = {} \/ s = {x}
  OBVIOUS
<1>2. pick({x}) = x /\ {x} \ {x} = {} /\ value(x) \in Int
  OBVIOUS
<1>3. WorthAtStops' = ConservativeEquity' + it[{x}]
  BY DEF WorthAtStops, MapThenSumSet, MapThenFoldSet
<1> HIDE DEF value, pick
<1>4. one = Step(one)
  <2>1. one[{}] = 0 /\ Step(one)[{}] = 0 /\ one[{x}] = value(x)
    OBVIOUS
  <2>2. Step(one)[{x}] = value(x) + 0
    BY <1>2, <2>1
  <2>3. \A s \in SUBSET {x} : one[s] = Step(one)[s]
    <3> SUFFICES ASSUME NEW s \in SUBSET {x} PROVE one[s] = Step(one)[s]
      BY Zenon
    <3>1. CASE s = {}
      BY <2>1, <3>1, Zenon
    <3>2. CASE s = {x}
      <4>1. value(x) + 0 = value(x)
        BY <1>2
      <4>2. QED BY <2>1, <2>2, <3>2, <4>1, Zenon
    <3>3. QED BY <1>1, <3>1, <3>2
  <2>4. QED BY <2>3
<1>5. it = Step(it)
  BY <1>4
<1> HIDE DEF it
<1>6. it[{}] = 0
  BY <1>5
<1>7. it[{x}] = value(x) + 0
  <2>1. it[{x}] = value(pick({x})) + it[{x} \ {pick({x})}]
    BY <1>5
  <2>2. QED BY <1>2, <1>6, <2>1
<1>8. QED BY <1>2, <1>3, <1>7 DEF value

LEMMA AdmissionNumbers ==
    ASSUME AdmissionAssumption
    PROVE  /\ Fees \in Nat /\ SlippageTicks \in Nat /\ InitialLoss \in Nat /\ MaxTurns \in Nat
           /\ TickSize \in Nat \ {0} /\ Spread \in Nat /\ MaxContracts \in Nat \ {0}
           /\ StartEquity \in Nat /\ HighestBalance \in Nat /\ LiquidationFloor \in Int
           /\ \A p \in Prices : p \in Nat
           /\ \A side : Sign(side) \in {-1, 0, 1}
<1>1. /\ Fees \in Nat /\ SlippageTicks \in Nat /\ InitialLoss \in Nat /\ MaxTurns \in Nat
      /\ TickSize \in Nat \ {0} /\ Spread \in Nat /\ MaxContracts \in Nat \ {0}
      /\ StartEquity \in Nat /\ HighestBalance \in Nat /\ \A p \in Prices : p \in Nat
  BY DEF AdmissionAssumption
<1>2. LiquidationFloor \in Int
  BY <1>1 DEF LiquidationFloor, Smaller, Positive
<1>3. QED BY <1>1, <1>2 DEF Sign

LEMMA AdmissionInitially == ASSUME AdmissionAssumption, AdmissionInit PROVE AdmissionInv
<1>1. mark \in Prices /\ position = FlatNow /\ position.size = 0 /\ stops = {} /\ cash \in Int
  BY AdmissionNumbers DEF AdmissionInit, FlatNow
<1>2. {loose, foreign, complete, canTrade, authDegraded, captured} \subseteq BOOLEAN
  BY Zenon DEF AdmissionInit
<1>3. 0 \in 0 .. MaxContracts /\ 0 \in 0 .. MaxTurns /\ entered = 0 /\ turns = 0
  BY AdmissionNumbers DEF AdmissionInit
<1>4. AdmissionTypeOK
  BY <1>1, <1>2, <1>3 DEF AdmissionTypeOK
<1>5. StopsInv
  BY <1>1, NoStopsCoverNothing DEF StopsInv
<1>6. QED BY <1>1, <1>4, <1>5 DEF AdmissionInv, FlatNow

(* The flags of the account stay Boolean.                                  *)
LEMMA FlagsKept ==
    ASSUME AdmissionInv, ConditionsChange
    PROVE  {loose, foreign, complete, canTrade, authDegraded, captured}' \subseteq BOOLEAN
<1>1. {loose, foreign, complete, canTrade, authDegraded, captured} \subseteq BOOLEAN
  BY DEF AdmissionInv, AdmissionTypeOK
<1>2. /\ loose' \in BOOLEAN /\ foreign' \in BOOLEAN /\ complete' \in BOOLEAN
      /\ canTrade' \in BOOLEAN /\ authDegraded' \in BOOLEAN /\ captured' \in BOOLEAN
  BY <1>1, Zenon DEF ConditionsChange
<1>3. QED BY <1>2

(* A stop that fills takes its contracts with it.                          *)
LEMMA StopFillsKeeps ==
    ASSUME AdmissionAssumption, AdmissionInv, NEW s \in stops, StopFills(s) PROVE AdmissionInv'
<1> DEFINE left == position.size - s.size
<1>1. /\ s.size \in Nat \ {0} /\ position.size \in 0 .. MaxContracts /\ MaxContracts \in Nat
      /\ mark \in Prices /\ mark \in Nat /\ cash \in Int
      /\ \A x \in stops : x.size \in Nat /\ x.size > 0 /\ x.id \in Nat /\ x.id <= entered
      /\ IsFiniteSet(CoveredBy(stops)) /\ Cardinality(CoveredBy(stops)) <= position.size
  BY AdmissionNumbers DEF AdmissionInv, AdmissionTypeOK, StopsInv
<1>a. /\ IsFiniteSet(CoveredBy(stops \ {s}))
      /\ Cardinality(CoveredBy(stops)) \in Nat /\ Cardinality(CoveredBy(stops \ {s})) \in Nat
      /\ Cardinality(CoveredBy(stops \ {s})) = Cardinality(CoveredBy(stops)) - s.size
  BY <1>1, OneStopLess
<1>2. left \in 0 .. MaxContracts /\ Cardinality(CoveredBy(stops \ {s})) <= left
  BY <1>1, <1>a
<1>3. position'.size = left /\ position' = [side |-> position'.side, size |-> position'.size, cost |-> position'.cost, lots |-> position'.lots]
  <2>1. CASE left = 0
    BY <2>1 DEF StopFills, FlatNow
  <2>2. CASE left # 0
    <3>1. position' = [position EXCEPT !.size = left]
      BY <2>2 DEF StopFills
    <3> HIDE DEF left
    <3>2. position = [side |-> position.side, size |-> position.size, cost |-> position.cost, lots |-> position.lots]
      BY DEF AdmissionInv
    <3>3. position' = [side |-> position.side, size |-> left, cost |-> position.cost, lots |-> position.lots]
      BY <3>1, <3>2
    <3>4. QED BY <3>3
  <2>3. QED BY <2>1, <2>2
<1>4. stops' = stops \ {s} /\ entered' = entered /\ mark' = mark /\ turns' = turns
  BY DEF StopFills
<1> HIDE DEF left
<1>9. StopsInv'
  BY <1>1, <1>a, <1>2, <1>3, <1>4 DEF StopsInv
<1>10. cash' \in Int
  <2>1. cash' = cash + Value(position.side, s.size) - s.size * Fees
    BY DEF StopFills
  <2>2. Sign(position.side) \in Int /\ Spread \in Int /\ Fees \in Int
    BY AdmissionNumbers
  <2>3. Value(position.side, s.size) \in Int
    BY <1>1, <2>2 DEF Value
  <2>4. QED BY <1>1, <2>1, <2>2, <2>3
<1>11. {loose, foreign, complete, canTrade, authDegraded, captured}' \subseteq BOOLEAN
  BY Zenon DEF StopFills, conditions, AdmissionInv, AdmissionTypeOK
<1>12. AdmissionTypeOK'
  BY <1>2, <1>3, <1>4, <1>11 DEF AdmissionTypeOK, AdmissionInv
<1>13. QED BY <1>3, <1>9, <1>10, <1>12 DEF AdmissionInv

(* A step that leaves position and cash alone, and takes at most stops.    *)
LEMMA AccountKept ==
    ASSUME AdmissionInv, UNCHANGED <<position, cash, entered>>, stops' \subseteq stops,
           mark' \in Prices, turns' \in 0 .. MaxTurns,
           {loose, foreign, complete, canTrade, authDegraded, captured}' \subseteq BOOLEAN
    PROVE  AdmissionInv'
<1>1. AdmissionTypeOK'
  BY DEF AdmissionInv, AdmissionTypeOK
<1>2. StopsInv'
  <2>1. stops' \in SUBSET stops /\ \A s \in stops : s.size \in Nat
    BY DEF AdmissionInv, StopsInv
  <2>2. CoveredBy(stops') \in SUBSET CoveredBy(stops)
    BY <2>1 DEF CoveredBy
  <2>3. IsFiniteSet(CoveredBy(stops)) /\ Cardinality(CoveredBy(stops)) <= position.size /\ position.size \in Nat
    BY AdmissionNumbers, AdmissionAssumption DEF AdmissionInv, AdmissionTypeOK, StopsInv
  <2>4. /\ IsFiniteSet(CoveredBy(stops')) /\ Cardinality(CoveredBy(stops')) <= Cardinality(CoveredBy(stops))
        /\ Cardinality(CoveredBy(stops')) \in Nat /\ Cardinality(CoveredBy(stops)) \in Nat
    BY <2>2, <2>3, FS_Subset, FS_CardinalityType
  <2>5. Cardinality(CoveredBy(stops')) <= position.size
    BY <2>3, <2>4
  <2>6. QED BY <2>1, <2>4, <2>5 DEF AdmissionInv, StopsInv
<1>3. QED BY <1>1, <1>2 DEF AdmissionInv

(* An entry adds its contracts, and one stop for them.                      *)
LEMMA EntryKeeps ==
    ASSUME AdmissionAssumption, AdmissionInv, NEW side \in {"long", "short"},
           NEW quantity \in 1 .. MaxContracts, NEW stopAt \in Prices, NEW target \in Prices,
           EntrySent(side, quantity, stopAt, target)
    PROVE  AdmissionInv'
<1> DEFINE ref == Reference(side)
           size == position.size + quantity
           new == [price |-> ref - Sign(side) * TickSize * StopTicks(side, stopAt),
                   size |-> quantity, id |-> entered + 1]
<1>1. /\ position.size \in 0 .. MaxContracts /\ quantity <= MaxContracts - position.size
      /\ mark \in Nat /\ cash \in Int /\ entered \in Nat /\ turns \in 0 .. MaxTurns
  BY AdmissionNumbers DEF EntrySent, RiskAccepts, AdmissionInv, AdmissionTypeOK
<1>2. size \in 1 .. MaxContracts /\ quantity \in Nat \ {0} /\ MaxContracts \in Nat \ {0}
  BY <1>1, AdmissionNumbers
<1>3. /\ position'.size = size /\ stops' = stops \cup {new} /\ entered' = entered + 1
      /\ position' = [side |-> position'.side, size |-> position'.size, cost |-> position'.cost, lots |-> position'.lots]
      /\ mark' = mark /\ turns' = turns
  BY DEF EntrySent
<1>4. new.size = quantity /\ new.id = entered + 1
  OBVIOUS
<1> HIDE DEF new
<1>5. /\ \A s \in stops : s.size \in Nat /\ s.size > 0 /\ s.id \in Nat /\ s.id <= entered
      /\ IsFiniteSet(CoveredBy(stops)) /\ Cardinality(CoveredBy(stops)) <= position.size
  BY DEF AdmissionInv, StopsInv
<1>6. new \notin stops
  BY <1>1, <1>4, <1>5
<1>7. /\ IsFiniteSet(CoveredBy(stops'))
      /\ Cardinality(CoveredBy(stops)) \in Nat
      /\ Cardinality(CoveredBy(stops')) = Cardinality(CoveredBy(stops)) + quantity
  BY <1>2, <1>3, <1>4, <1>5, <1>6, OneStopMore
<1>8. Cardinality(CoveredBy(stops')) <= size
  BY <1>1, <1>2, <1>5, <1>7
<1> HIDE DEF size, ref
<1>9. \A s \in stops' : s = new \/ s \in stops
  BY <1>3
<1>10. \A s \in stops' : s.size \in Nat \ {0} /\ s.id \in Nat /\ s.id <= entered'
  BY <1>1, <1>2, <1>3, <1>4, <1>5, <1>9
<1>11. StopsInv'
  BY <1>3, <1>7, <1>8, <1>10 DEF StopsInv
<1>12. cash' \in Int
  <2>1. cash' = cash - Sign(side) * quantity * Reference(side)
    BY DEF EntrySent
  <2>2. Reference(side) \in Int /\ Sign(side) \in Int
    BY <1>1, AdmissionNumbers DEF Reference
  <2>3. QED BY <1>1, <1>2, <2>1, <2>2
<1>13. {loose, foreign, complete, canTrade, authDegraded, captured}' \subseteq BOOLEAN
  BY Zenon DEF EntrySent, conditions, AdmissionInv, AdmissionTypeOK
<1>14. AdmissionTypeOK'
  <2>1. position'.size \in 0 .. MaxContracts /\ entered' \in Nat
    BY <1>1, <1>2, <1>3
  <2>2. mark' \in Prices /\ turns' \in 0 .. MaxTurns
    BY <1>3 DEF AdmissionInv, AdmissionTypeOK
  <2>3. QED BY <1>13, <2>1, <2>2 DEF AdmissionTypeOK
<1>15. QED BY <1>3, <1>11, <1>12, <1>14 DEF AdmissionInv

LEMMA AdmissionKept ==
    ASSUME AdmissionAssumption, AdmissionInv, [AdmissionNext]_admissionVars PROVE AdmissionInv'
<1>1. mark \in Prices /\ turns \in 0 .. MaxTurns /\ MaxTurns \in Nat
  BY AdmissionNumbers DEF AdmissionInv, AdmissionTypeOK
<1>2. Turn => turns' \in 0 .. MaxTurns
  BY <1>1 DEF Turn
<1>3. {loose, foreign, complete, canTrade, authDegraded, captured} \subseteq BOOLEAN
  BY DEF AdmissionInv, AdmissionTypeOK
<1>4. UNCHANGED conditions => {loose, foreign, complete, canTrade, authDegraded, captured}' \subseteq BOOLEAN
  BY <1>3, Zenon DEF conditions
<1>5. CASE PacketIssued
  BY <1>1, <1>2, <1>4, <1>5, AccountKept DEF PacketIssued, accountVars
<1>6. CASE PacketExpires
  BY <1>1, <1>4, <1>6, AccountKept DEF PacketExpires, accountVars
<1>7. CASE MarkMoves
  BY <1>1, <1>4, <1>7, AccountKept DEF MarkMoves, accountVars
<1>8. CASE ConditionsChange
  BY <1>1, <1>2, <1>8, AccountKept, FlagsKept DEF ConditionsChange, accountVars
<1>9. CASE EntryDecided
  BY <1>9, EntryKeeps DEF EntryDecided
<1>10. ASSUME NEW s \in stops, StopFills(s) PROVE AdmissionInv'
  BY <1>10, StopFillsKeeps
<1>11. ASSUME NEW s \in stops, StopLost(s) PROVE AdmissionInv'
  BY <1>1, <1>2, <1>4, <1>11, AccountKept DEF StopLost
<1>12. CASE UNCHANGED admissionVars
  BY <1>1, <1>4, <1>12, AccountKept DEF admissionVars, accountVars
<1>13. QED BY <1>5, <1>6, <1>7, <1>8, <1>9, <1>10, <1>11, <1>12 DEF AdmissionNext

(* What the bracket of a first entry can lose is less than the buffer.     *)
LEMMA FirstEntryLoss ==
    ASSUME AdmissionAssumption, AdmissionInv, NEW side \in {"long", "short"},
           NEW quantity \in 1 .. MaxContracts, NEW stopAt \in Prices, NEW target \in Prices,
           EntrySent(side, quantity, stopAt, target), position.size = 0
    PROVE  WorthAtStops' > LiquidationFloor'
<1> DEFINE ref == Reference(side)
           ticks == StopTicks(side, stopAt)
           new == [price |-> ref - Sign(side) * TickSize * ticks, size |-> quantity, id |-> entered + 1]
           exitNow == IF side = "short" THEN mark + Spread ELSE mark
           far == TickSize * ticks
           slip == SlippageTicks * TickSize
<1>1. /\ mark \in Nat /\ cash \in Int /\ Fees \in Nat /\ Spread \in Nat /\ TickSize \in Nat \ {0}
      /\ SlippageTicks \in Nat /\ LiquidationFloor \in Int /\ MaxContracts \in Nat \ {0} /\ stopAt \in Nat
  BY AdmissionNumbers DEF AdmissionInv, AdmissionTypeOK
<1>2. stops = {}
  <2> SUFFICES ASSUME NEW s \in stops PROVE FALSE
    OBVIOUS
  <2>1. /\ \A x \in stops : x.size \in Nat /\ x.size > 0
        /\ IsFiniteSet(CoveredBy(stops)) /\ Cardinality(CoveredBy(stops)) <= 0
    BY DEF AdmissionInv, StopsInv
  <2>2. /\ Cardinality(CoveredBy(stops \ {s})) \in Nat /\ Cardinality(CoveredBy(stops)) \in Nat
        /\ Cardinality(CoveredBy(stops \ {s})) = Cardinality(CoveredBy(stops)) - s.size
    BY <2>1, OneStopLess
  <2>3. QED BY <2>1, <2>2
<1>3. ref \in Int /\ exitNow \in Int
  BY <1>1 DEF Reference
<1>4. ticks \in Int
  <2>1. Sign(side) * (Reference(side) - stopAt) \in Int
    BY <1>1, <1>3, AdmissionNumbers
  <2>2. QED BY <1>1, <2>1 DEF StopTicks, CeilDiv
<1>5. far \in Int /\ ticks * TickSize = far /\ slip \in Nat
  BY <1>1, <1>4
<1>6. /\ stops' = {new} /\ position'.side = side /\ position'.size = quantity
      /\ mark' = mark /\ cash' = cash - Sign(side) * quantity * ref
  BY <1>1, <1>2 DEF EntrySent
<1>7. new.size = quantity /\ new.price = ref - Sign(side) * TickSize * ticks
  OBVIOUS
<1> HIDE DEF new
<1>8. RiskUsd(side, quantity, stopAt) < CurrentBuffer /\ CurrentBuffer > 0
  BY DEF EntrySent, RiskAccepts
<1>9. RiskUsd(side, quantity, stopAt) = quantity * (far + slip + Fees)
  BY <1>5 DEF RiskUsd, ProtectedExposure
<1>10. CurrentBuffer > 0 => CurrentBuffer = cash - LiquidationFloor
  <2>1. Value(position.side, position.size) = 0
    BY <1>1, AdmissionNumbers DEF Value
  <2>2. ConservativeEquity = cash
    BY <1>1, <2>1 DEF ConservativeEquity
  <2>3. QED BY <1>1, <2>2 DEF CurrentBuffer, Positive
<1> HIDE DEF ref, ticks, exitNow, far, slip
<1>11. quantity \in Nat
  BY <1>1
<1>12. side = "long" \/ side = "short"
  OBVIOUS
<1>13. (side = "long" => Sign(side) = 1) /\ (side = "short" => Sign(side) = -1)
  BY DEF Sign
<1>14. new.price = IF side = "long" THEN ref - far ELSE ref + far
  BY <1>1, <1>3, <1>4, <1>5, <1>7, <1>12, <1>13 DEF far
<1>15. ConservativeEquity' = cash - quantity * Spread
  <2>1. ConservativeEquity' = cash - Sign(side) * quantity * ref + Value(side, quantity)'
    BY <1>6 DEF ConservativeEquity, Value
  <2>2. Value(side, quantity)' = Sign(side) * quantity * exitNow
    BY <1>6 DEF Value, exitNow
  <2>3. CASE side = "long"
    BY <1>1, <1>11, <1>13, <2>1, <2>2, <2>3 DEF ref, Reference, exitNow
  <2>4. CASE side = "short"
    BY <1>1, <1>11, <1>13, <2>1, <2>2, <2>4 DEF ref, Reference, exitNow
  <2>5. QED BY <1>12, <2>3, <2>4
<1>16. Sign(side) * (new.price - exitNow) - Fees = Spread - far - Fees
  <2>1. CASE side = "long"
    BY <1>1, <1>5, <1>13, <1>14, <2>1 DEF ref, Reference, exitNow
  <2>2. CASE side = "short"
    BY <1>1, <1>5, <1>13, <1>14, <2>2 DEF ref, Reference, exitNow
  <2>3. QED BY <1>12, <2>1, <2>2
<1>17. WorthAtStops' = (cash - quantity * Spread) + quantity * (Spread - far - Fees)
  <2>1. exitNow = IF position'.side = "short" THEN mark' + Spread ELSE mark'
    BY <1>6 DEF exitNow
  <2>2. new.size * (Sign(position'.side) * (new.price - exitNow) - Fees) = quantity * (Spread - far - Fees)
    BY <1>6, <1>7, <1>16
  <2>3. quantity * (Spread - far - Fees) \in Int
    BY <1>1, <1>5, <1>11
  <2>4. QED BY <1>6, <1>15, <2>1, <2>2, <2>3, WorthAtOneStop
<1>18. LiquidationFloor' = LiquidationFloor
  BY DEF LiquidationFloor
<1>19. quantity * (far + slip + Fees) < cash - LiquidationFloor
  BY <1>8, <1>9, <1>10
<1>20. QED BY <1>1, <1>5, <1>11, <1>17, <1>18, <1>19

(* AdmissionSafe: an entry from flat leaves an account that stays above its *)
(* liquidation floor if its stop fills at its price, for any prices, tick,  *)
(* spread, fees and loss model (validateEntryRisk, calculateBracketTicks).  *)
THEOREM FirstEntryIsCovered == AdmissionSpec => AdmissionSafe
<1>1. AdmissionInit => AdmissionInv
  BY AdmissionInitially, AdmissionAssumption
<1>2. AdmissionInv /\ [AdmissionNext]_admissionVars => AdmissionInv'
  BY AdmissionKept, AdmissionAssumption
<1>3. AdmissionInv => AdmissionTypeOK
  BY DEF AdmissionInv
<1>4. AdmissionInv /\ [AdmissionNext]_admissionVars
         => [entered' > entered /\ position.size = 0 => WorthAtStops' > LiquidationFloor]_admissionVars
  <2>1. SUFFICES ASSUME AdmissionInv, AdmissionNext, entered' > entered, position.size = 0
                 PROVE  WorthAtStops' > LiquidationFloor
    OBVIOUS
  <2>2. entered \in Nat
    BY <2>1 DEF AdmissionInv, AdmissionTypeOK
  <2>3. EntryDecided
    BY <2>1, <2>2 DEF AdmissionNext, PacketIssued, PacketExpires, MarkMoves, ConditionsChange, StopFills, StopLost
  <2>4. LiquidationFloor' = LiquidationFloor
    BY DEF LiquidationFloor
  <2>5. QED BY <2>1, <2>3, <2>4, FirstEntryLoss, AdmissionAssumption DEF EntryDecided
<1>5. QED BY <1>1, <1>2, <1>3, <1>4, PTL DEF AdmissionSpec, AdmissionSafe, FirstEntryKeepsFloor
=============================================================================
