---------------------------- MODULE SessionCalendar ----------------------------
(***************************************************************************)
(* The session calendar: the trading day an instant belongs to, the bounds *)
(* of a trading day, the next must-flat time and the entry window, as the  *)
(* code computes them from the clock of the session's time zone.           *)
(*                                                                         *)
(* Instants are hours of UTC.  A day has Hours hours and a month Days days, *)
(* fewer than real ones; months are counted on, years are left out.  The   *)
(* zone is West hours behind UTC and one less from the instant Spring on.  *)
(***************************************************************************)
EXTENDS Integers

CONSTANTS Hours, Days,
          Noon,                     \* the local hour addCalendarDays aims at
          Reset,                    \* tradingDayResetLocalTime
          MustFlat, EntryOpen,      \* mustFlatLocalTime, entryOpenLocalTime
          West, Spring

ASSUME CalendarAssumption ==
    /\ {Hours, Days} \subseteq Nat \ {0}
    /\ {Noon, Reset, MustFlat, EntryOpen} \subseteq 0 .. Hours - 1
    /\ West \in 1 .. Hours /\ Spring \in Nat

Offset(t) == IF t < Spring THEN West ELSE West - 1

\* localParts.
Local(t) ==
    LET l == t - Offset(t) IN
    [month |-> l \div (Days * Hours), day |-> ((l \div Hours) % Days) + 1, hour |-> l % Hours]
Date(local) == [month |-> local.month, day |-> local.day]

\* Date.UTC: a day outside its month is one of a neighbouring month.
DateUTC(month, day, hour) == (month * Days + day - 1) * Hours + hour

\* localDateTimeToUtcIso: a guess is corrected by the difference between the
\* hour and the day of the month it shows and those that are looked for.
Attempts == 6
Correction(guess, day, hour) ==
    (Local(guess).hour - hour) + (Local(guess).day - day) * Hours
ToUTC(month, day, hour) ==
    LET after[n \in 0 .. Attempts] ==
            IF n = 0 THEN DateUTC(month, day, hour)
            ELSE LET guess == after[n - 1] IN guess - Correction(guess, day, hour)
    IN after[Attempts]

\* addCalendarDays.
AddDays(date, n) == Date(Local(ToUTC(date.month, date.day + n, Noon)))

\* resolveTradingDayId.
\* Faulty: the day turns an hour after its reset.
TradingDayLate(t) ==
    IF Local(t).hour > Reset THEN AddDays(Date(Local(t)), 1) ELSE Date(Local(t))
TradingDay(t) ==
    IF Local(t).hour >= Reset THEN AddDays(Date(Local(t)), 1) ELSE Date(Local(t))

\* tradingDayBoundsUtc.
DayStart(date) == LET before == AddDays(date, -1) IN ToUTC(before.month, before.day, Reset)
DayEnd(date)   == ToUTC(date.month, date.day, Reset)

\* nextMustFlatUtc.
NextMustFlat(t) ==
    LET today    == Date(Local(t))
        tomorrow == AddDays(today, 1)
        flat     == ToUTC(today.month, today.day, MustFlat)
    IN IF flat <= t THEN ToUTC(tomorrow.month, tomorrow.day, MustFlat) ELSE flat

\* inMustFlatToResetGap and entryWindowOpen.
InGap(t) == MustFlat < Reset /\ Local(t).hour >= MustFlat /\ Local(t).hour < Reset
EntryWindowOpen(t) ==
    /\ t >= ToUTC(Local(t).month, Local(t).day, EntryOpen)
    /\ ~InGap(t)
    /\ t < NextMustFlat(t)

-----------------------------------------------------------------------------
(* What they should compute: the trading days are the local days, shifted   *)
(* to end at the reset and counted from one.                               *)
TrueDay(t) ==
    LET n == (t - Offset(t) - Reset) \div Hours + 1
    IN  [month |-> n \div Days, day |-> (n % Days) + 1]

(* The code's trading day of an instant is the true one, its bounds hold    *)
(* just the instants of that day, and while the entry window is open the    *)
(* next must-flat time lies ahead by a day at the most (one hour more where *)
(* the clocks change).                                                     *)
CalendarTrue(t, instants) ==
    /\ TradingDay(t) = TrueDay(t)
    /\ \A u \in instants :
         (DayStart(TradingDay(t)) <= u /\ u < DayEnd(TradingDay(t))) <=> TrueDay(u) = TrueDay(t)
    /\ EntryWindowOpen(t) => /\ NextMustFlat(t) \in t + 1 .. t + Hours + 1
                             /\ Local(NextMustFlat(t)).hour = MustFlat
================================================================================
