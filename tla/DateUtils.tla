------------------------------- MODULE DateUtils -------------------------------
(***************************************************************************)
(* The dates and times of DateUtils.  An instant is a number of minutes of *)
(* UTC, the offset of the time zone a number of minutes east of it.        *)
(* Seconds and milliseconds are read with the minutes and left out, and a  *)
(* day stands for its day of month, month and year.                        *)
(***************************************************************************)
EXTENDS Integers

CONSTANTS MinutesPerHour, HoursPerDay

ASSUME CalendarAssumption == MinutesPerHour \in Nat \ {0} /\ HoursPerDay \in Nat \ {0}

MinutesPerDay == MinutesPerHour * HoursPerDay

Abs(n) == IF n < 0 THEN -n ELSE n

\* What a java.util.Calendar made at an instant shows.
Local(instant, offset) == instant + offset

Day(instant, offset)    == Local(instant, offset) \div MinutesPerDay
Hour(instant, offset)   == (Local(instant, offset) % MinutesPerDay) \div MinutesPerHour
Minute(instant, offset) == Local(instant, offset) % MinutesPerHour

\* Mutants: the parts keep the sign; the sign is taken from the hours.
SignKept(offset) ==
  [hour |-> offset \div MinutesPerHour, minute |-> Abs(offset) % MinutesPerHour,
   afterUtc |-> offset > 0]
SignOfHours(offset) ==
  [hour |-> Abs(offset) \div MinutesPerHour, minute |-> Abs(offset) % MinutesPerHour,
   afterUtc |-> offset >= MinutesPerHour]
TimeZone(offset) ==
  [hour |-> Abs(offset) \div MinutesPerHour, minute |-> Abs(offset) % MinutesPerHour,
   afterUtc |-> offset > 0]

GetCurrentDate(instant, offset) == Day(instant, offset)

GetCurrentTime(instant, offset) ==
  [hour |-> Hour(instant, offset), minute |-> Minute(instant, offset),
   tz |-> TimeZone(offset)]

-----------------------------------------------------------------------------

\* The instant that a date and a time with its zone denote.
Denoted(date, time) ==
  LET east == time.tz.hour * MinutesPerHour + time.tz.minute
  IN  date * MinutesPerDay + time.hour * MinutesPerHour + time.minute
        - (IF time.tz.afterUtc THEN east ELSE -east)
=============================================================================
