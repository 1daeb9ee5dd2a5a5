------------------------------ MODULE Calendar ------------------------------
(***************************************************************************)
(* The proleptic Gregorian calendar, as Python's datetime and calendar     *)
(* give it to the dateutil package of the Lambda layer.                    *)
(*                                                                         *)
(* A date is its ordinal: 1 January of year 1 is 1, a Monday.  A datetime  *)
(* is a date and the seconds since its midnight.                           *)
(***************************************************************************)
EXTENDS Integers, Sequences

IsLeap(y) == y % 4 = 0 /\ (y % 100 # 0 \/ y % 400 = 0)

YearLength(y) == IF IsLeap(y) THEN 366 ELSE 365

\* Days of a common year before the month, as in M365RANGE of rrule.py.
MonthRange == <<0, 31, 59, 90, 120, 151, 181, 212, 243, 273, 304, 334, 365>>

DaysBefore(y, m) == MonthRange[m] + (IF m > 2 /\ IsLeap(y) THEN 1 ELSE 0)

DaysIn(y, m) == DaysBefore(y, m + 1) - DaysBefore(y, m)

NewYear(y) ==
  LET n == y - 1 IN 365 * n + n \div 4 - n \div 100 + n \div 400 + 1

Ordinal(y, m, d) == NewYear(y) + DaysBefore(y, m) + d - 1

\* Monday is 0.
Weekday(date) == (date + 6) % 7

\* The estimates below are the year, or the month, or the one before.
YearOf(date) ==
  LET y == (400 * (date - 1)) \div 146097
  IN  IF NewYear(y + 1) > date THEN y ELSE IF NewYear(y + 2) > date THEN y + 1 ELSE y + 2

MonthAt(y, day) ==
  LET m == day \div 31 + 1
  IN  IF DaysBefore(y, m + 1) > day THEN m ELSE m + 1

MonthOf(date) == MonthAt(YearOf(date), date - NewYear(YearOf(date)))

DayOf(date) == date - Ordinal(YearOf(date), MonthOf(date), 1) + 1

-----------------------------------------------------------------------------
DaySeconds == 86400

Datetime == [date : Int, time : {t \in Nat : t < DaySeconds}]

At(date, time) == [date |-> date, time |-> time]

Midnight(y, m, d) == At(Ordinal(y, m, d), 0)

\* The datetime some seconds later, or earlier.
Later(dt, seconds) ==
  LET t == dt.time + seconds
  IN  At(dt.date + t \div DaySeconds, t % DaySeconds)

Earlier(a, b) == a.date < b.date \/ (a.date = b.date /\ a.time < b.time)

AtMost(a, b) == a = b \/ Earlier(a, b)

\* The seconds from a to b, for datetimes at most half a century apart.
Seconds(a, b) == (b.date - a.date) * DaySeconds + b.time - a.time

-----------------------------------------------------------------------------
(* Easter (dateutil/easter.py), by the three methods.                       *)

\* The years that the algorithms are valid in (easter.py:25-30).
EasterYears == {y \in Nat : 1583 <= y /\ y <= 4099}

\* Days from 21 March to the full moon of Easter; h is what the western method
\* begins with.
FullMoon(y, method, h) ==
  LET g == y % 19
  IN  IF method < 3 THEN (19 * g + 15) % 30
      ELSE h - (h \div 28) * (1 - (h \div 28) * (29 \div (h + 1))
                                  * ((21 - g) \div 11))

BeforeMoon(y) ==
  LET c == y \div 100
  IN  (c - c \div 4 - (8 * c + 13) \div 25 + 19 * (y % 19) + 15) % 30

\* The weekday of the full moon, i days from 21 March.
MoonWeekday(y, method, i) ==
  LET c == y \div 100
  IN  IF method < 3 THEN (y + y \div 4 + i) % 7
      ELSE (y + y \div 4 + i + 2 - c + c \div 4) % 7

\* Mutant: every century year lacks its leap day.
JulianDaysEvery(y, method) ==
  IF method # 2 THEN 0 ELSE 10 + IF y > 1600 THEN y \div 100 - 16 ELSE 0

\* Days from the Julian to the Gregorian calendar, for method 2.
JulianDays(y, method) ==
  IF method # 2 THEN 0
  ELSE 10 + IF y > 1600 THEN y \div 100 - 16 - (y \div 100 - 16) \div 4 ELSE 0

\* The month and the day that are p days from 28 March.
EasterDate(p) ==
  [month |-> 3 + (p + 26) \div 30,
   day |-> 1 + ((p + 27 + (p + 6) \div 40) % 31)]

\* The Sunday after the full moon, i days from 21 March.
EasterAfter(y, method, i) ==
  EasterDate(i - MoonWeekday(y, method, i) + JulianDays(y, method))

\* easter(year, method)
Easter(y, method) ==
  EasterAfter(y, method, FullMoon(y, method, BeforeMoon(y)))
=============================================================================
