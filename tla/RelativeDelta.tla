--------------------------- MODULE RelativeDelta ---------------------------
(***************************************************************************)
(* dateutil/relativedelta.py: differences and sums in years, months, days  *)
(* and seconds, and replacements of parts of a datetime.                   *)
(*                                                                         *)
(* A delta is a record of the relative parts (years ... seconds, leapdays) *)
(* and of the absolute ones (year ... second, weekday), which may be None. *)
(* A weekday is its number and n, which may be None.  Microseconds, which  *)
(* are carried like the seconds, and parts that are not whole numbers are  *)
(* left out, and so are numbers beyond the largest float, which raise an   *)
(* error.                                                                  *)
(***************************************************************************)
EXTENDS Calendar

CONSTANTS
  None,
  FloatExact  \* whole numbers below it are exact as a float: 2^53 in Python

\* A weekday, and which one.
WeekdayPart == [day : 0..6, n : Int \cup {None}]

ASSUME NoneAssumption == None \notin Int \cup WeekdayPart

ASSUME FloatAssumption == FloatExact \in Nat \ {0}

RelativePart == {"years", "months", "days", "hours", "minutes", "seconds"}
AbsolutePart == {"year", "month", "day", "weekday", "hour", "minute", "second"}

\* A delta without parts.
NoDelta ==
  [p \in RelativePart \cup {"leapdays"} \cup AbsolutePart |->
     IF p \in AbsolutePart THEN None ELSE 0]

\* A delta with relative parts that are whole numbers.
IsDelta(d) ==
  /\ DOMAIN d = DOMAIN NoDelta
  /\ \A p \in RelativePart : d[p] \in Int
  /\ d.weekday \in {None} \cup WeekdayPart

\* a or b
Or(a, b) == IF a \in {None, 0} THEN b ELSE a

\* a if a is not None else b
IfGiven(a, b) == IF a = None THEN b ELSE a

Lesser(a, b) == IF a <= b THEN a ELSE b

Abs(x) == IF x < 0 THEN -x ELSE x
Sign(x) == IF x < 0 THEN -1 ELSE 1

-----------------------------------------------------------------------------
(* _fix: what is too much for a unit is carried to the next one.            *)

Keep(x, base) ==
  IF Abs(x) > base - 1 THEN (Abs(x) % base) * Sign(x) ELSE x
Carry(x, base) ==
  IF Abs(x) > base - 1 THEN (Abs(x) \div base) * Sign(x) ELSE 0

\* Mutant: the quotient of a negative number is rounded down.
FixFloor(d) ==
  LET minutes == d.minutes + d.seconds \div 60
      hours == d.hours + Carry(minutes, 60)
  IN  [d EXCEPT !.seconds = Keep(@, 60), !.minutes = Keep(minutes, 60),
                !.hours = Keep(hours, 24), !.days = @ + Carry(hours, 24),
                !.months = Keep(@, 12), !.years = @ + Carry(d.months, 12)]

Fix(d) ==
  LET minutes == d.minutes + Carry(d.seconds, 60)
      hours == d.hours + Carry(minutes, 60)
      fixed == [seconds |-> Keep(d.seconds, 60), minutes |-> Keep(minutes, 60),
                hours |-> Keep(hours, 24), days |-> d.days + Carry(hours, 24),
                months |-> Keep(d.months, 12),
                years |-> d.years + Carry(d.months, 12)]
  IN  [p \in DOMAIN d |-> IF p \in RelativePart THEN fixed[p] ELSE d[p]]

\* _set_months
SetMonths(d, months) ==
  [d EXCEPT !.months = Keep(months, 12), !.years = Carry(months, 12)]

-----------------------------------------------------------------------------
(* The constructor.                                                         *)

YearDays == <<31, 59, 90, 120, 151, 181, 212, 243, 273, 304, 334, 366>>

\* The month and day of a day of the year, 29 February left out.
OfYearDay(d, yday) ==
  LET m == CHOOSE i \in 1..12 : /\ yday <= YearDays[i]
                                /\ \A j \in 1..(i - 1) : yday > YearDays[j]
  IN  [d EXCEPT !.month = m,
                !.day = IF m = 1 THEN yday ELSE yday - YearDays[m - 1]]

\* relativedelta(yearday = ...) and relativedelta(nlyearday = ...)
YearDay(yday) ==
  Fix(OfYearDay([NoDelta EXCEPT !.leapdays = IF yday > 59 THEN -1 ELSE 0], yday))
NonLeapYearDay(yday) == Fix(OfYearDay(NoDelta, yday))

-----------------------------------------------------------------------------
(* __add__ with a datetime.                                                 *)

\* A month too much, or too little, is one of another year.
MonthOfYear(year, month) ==
  CASE month > 12 -> [year |-> year + 1, month |-> month - 12]
    [] month < 1 -> [year |-> year - 1, month |-> month + 12]
    [] OTHER -> [year |-> year, month |-> month]

\* The year and the month the delta leads to, before the days are added.
MonthReached(d, dt) ==
  MonthOfYear(Or(d.year, YearOf(dt.date)) + d.years,
              Or(d.month, MonthOf(dt.date)) + d.months)

\* Mutant: the day is kept, whatever the length of the month.
DayUnbounded(d, dt, r) == Or(d.day, DayOf(dt.date))

\* A month that is too short ends at its last day.
DayReached(d, dt, r) == Lesser(DaysIn(r.year, r.month), Or(d.day, DayOf(dt.date)))

\* Mutant: a datetime on the weekday itself goes on to the next one.
JumpNext(weekday, date) ==
  LET n == Or(weekday.n, 1)
  IN  IF n > 0 THEN (n - 1) * 7 + 1 + ((6 - Weekday(date) + weekday.day) % 7)
      ELSE -((-n - 1) * 7 + ((Weekday(date) - weekday.day) % 7))

\* Days to the n-th such weekday from the date on, or back from it.
Jump(weekday, date) ==
  LET n == Or(weekday.n, 1)
  IN  IF n > 0 THEN (n - 1) * 7 + ((7 - Weekday(date) + weekday.day) % 7)
      ELSE -((-n - 1) * 7 + ((Weekday(date) - weekday.day) % 7))

LeapDays(d, r) == IF r.month > 2 /\ IsLeap(r.year) THEN d.leapdays ELSE 0

\* The day and the time that are reached in the month r.
TimeReached(d, dt, r) ==
  LET time == IfGiven(d.hour, dt.time \div 3600) * 3600
              + IfGiven(d.minute, (dt.time \div 60) % 60) * 60
              + IfGiven(d.second, (dt.time % 60))
      days == d.days + LeapDays(d, r)
  IN  Later(At(Ordinal(r.year, r.month, DayReached(d, dt, r)) + days, time),
            d.hours * 3600 + d.minutes * 60 + d.seconds)

WeekdayReached(d, dt) ==
  IF d.weekday = None THEN dt ELSE At(dt.date + Jump(d.weekday, dt.date), dt.time)

AddTo(d, dt) == WeekdayReached(d, TimeReached(d, dt, MonthReached(d, dt)))

-----------------------------------------------------------------------------
(* relativedelta(dt1, dt2): months are counted as long as dt2 does not pass *)
(* dt1, the rest is seconds.                                                *)

MonthsOn(months, dt) == AddTo(SetMonths(NoDelta, months), dt)

MonthsBetween(dt1, dt2) ==
  (YearOf(dt1.date) - YearOf(dt2.date)) * 12 + MonthOf(dt1.date) - MonthOf(dt2.date)

\* The number of months, which the loop corrects in steps of back.
MonthsCounted(dt1, dt2, months, back) ==
  LET IsPast(dt) == IF back = 1 THEN Earlier(dt, dt1) ELSE Earlier(dt1, dt)
      Passed(k) == IsPast(MonthsOn(months + k * back, dt2))
      turns == CHOOSE k \in 0..2 : ~Passed(k) /\ \A j \in 0..(k - 1) : Passed(j)
  IN  months + turns * back

DiffInMonths(dt1, dt2, months) ==
  Fix([SetMonths(NoDelta, months) EXCEPT !.seconds = Seconds(MonthsOn(months, dt2), dt1)])

Diff(dt1, dt2) ==
  DiffInMonths(dt1, dt2, MonthsCounted(dt1, dt2, MonthsBetween(dt1, dt2),
                                       IF Earlier(dt1, dt2) THEN 1 ELSE -1))

-----------------------------------------------------------------------------
(* The operators on deltas.                                                 *)

\* a + b: the absolute parts of the second win.
Sum(a, b) ==
  Fix([p \in DOMAIN a |-> IF p \in RelativePart THEN a[p] + b[p]
                          ELSE IF p = "leapdays" THEN Or(b[p], a[p])
                          ELSE IfGiven(b[p], a[p])])

\* a - b: those of the first win.
Difference(a, b) ==
  Fix([p \in DOMAIN a |-> IF p \in RelativePart THEN a[p] - b[p]
                          ELSE IF p = "leapdays" THEN Or(a[p], b[p])
                          ELSE IfGiven(a[p], b[p])])

\* Unary minus and abs.
Negation(a) == Fix([p \in DOMAIN a |-> IF p \in RelativePart THEN -a[p] ELSE a[p]])
Absolute(a) ==
  Fix([p \in DOMAIN a |-> IF p \in RelativePart THEN Abs(a[p]) ELSE a[p]])

\* The distance of the floats next to a whole number n, a power of two.
FloatUnit(n) ==
  IF n < FloatExact THEN 1
  ELSE 2 ^ (CHOOSE e \in 1..n : /\ n < FloatExact * 2 ^ e
                                /\ FloatExact * 2 ^ (e - 1) <= n)

\* float(x): the nearest float, of two that are as near the even one.
Float(x) ==
  LET unit == FloatUnit(Abs(x))
      units == Abs(x) \div unit
      rest == 2 * (Abs(x) % unit)
      up == rest > unit \/ (rest = unit /\ units % 2 = 1)
  IN  Sign(x) * (units + IF up THEN 1 ELSE 0) * unit

\* int(x * float(k)) of every part.
FloatProduct(x, k) == Float(Float(x) * Float(k))

\* The product with a whole number.
Product(a, k) ==
  Fix([p \in DOMAIN a |-> IF p \in RelativePart THEN FloatProduct(a[p], k) ELSE a[p]])

\* No number in the product is too large to be exact as a float.
InFloat(a, k) ==
  /\ Abs(k) < FloatExact
  /\ \A p \in RelativePart : Abs(a[p]) < FloatExact /\ Abs(a[p] * k) < FloatExact

\* __bool__
NonZero(a) == a # NoDelta

EqualWeekday(v, w) ==
  \/ v = w
  \/ v # None /\ w # None /\ v.day = w.day
     /\ Or(v.n, 1) = 1 /\ Or(w.n, 1) = 1

\* __eq__
Equal(a, b) ==
  /\ EqualWeekday(a.weekday, b.weekday)
  /\ \A p \in DOMAIN a \ {"weekday"} : a[p] = b[p]

-----------------------------------------------------------------------------
\* What the relative parts of a delta stand for.
InMonths(d) == 12 * d.years + d.months
InSeconds(d) == d.days * DaySeconds + d.hours * 3600 + d.minutes * 60 + d.seconds
=============================================================================
