-------------------------- MODULE Dateutil_proofs --------------------------
(***************************************************************************)
(* Proofs about the computations of Dateutil, for all whole numbers: the   *)
(* calendar, deltas of any size and sign, differences of any two           *)
(* datetimes, Easter, and the turns of a rule.                             *)
(***************************************************************************)
EXTENDS Dateutil, FiniteSetTheorems, TLAPS

-----------------------------------------------------------------------------
(* The calendar: the year, the month and the day of a date name it.         *)

LEMMA NewYearNext ==
  ASSUME NEW y \in Int
  PROVE  /\ NewYear(y) \in Int /\ NewYear(y + 1) \in Int
         /\ NewYear(y + 1) = NewYear(y) + YearLength(y)
BY DEF NewYear, YearLength, IsLeap

LEMMA NewYearOrder ==
  ASSUME NEW y \in Int, NEW z \in Int, y < z
  PROVE  NewYear(y + 1) <= NewYear(z)
BY DEF NewYear

LEMMA YearOfDate ==
  ASSUME NEW date \in Int
  PROVE  /\ YearOf(date) \in Int
         /\ NewYear(YearOf(date)) <= date /\ date < NewYear(YearOf(date) + 1)
BY DEF YearOf, NewYear

LEMMA YearIs ==
  ASSUME NEW date \in Int, NEW y \in Int, NewYear(y) <= date, date < NewYear(y + 1)
  PROVE  YearOf(date) = y
<1>1. NewYear(y) \in Int /\ NewYear(y + 1) \in Int
      /\ NewYear(YearOf(date)) \in Int /\ NewYear(YearOf(date) + 1) \in Int
  BY YearOfDate, NewYearNext
<1>2. ~(y < YearOf(date)) /\ ~(YearOf(date) < y)
  BY <1>1, YearOfDate, NewYearOrder
<1> QED
  BY <1>2, YearOfDate

\* The lengths of the months.
LEMMA Months ==
  ASSUME NEW y \in Int, NEW m \in 1..12
  PROVE  /\ DaysBefore(y, m) \in Nat /\ DaysBefore(y, m + 1) \in Nat
         /\ DaysIn(y, m) \in 28..31
         /\ DaysBefore(y, m + 1) = DaysBefore(y, m) + DaysIn(y, m)
         /\ DaysBefore(y, 1) = 0 /\ DaysBefore(y, 13) = YearLength(y)
BY DEF DaysBefore, DaysIn, MonthRange, YearLength

LEMMA MonthOrder ==
  ASSUME NEW y \in Int, NEW m \in 1..13, NEW n \in 1..13, m < n
  PROVE  DaysBefore(y, m + 1) <= DaysBefore(y, n)
BY DEF DaysBefore, MonthRange

LEMMA MonthOfDay ==
  ASSUME NEW y \in Int, NEW day \in 0..(YearLength(y) - 1)
  PROVE  /\ MonthAt(y, day) \in 1..12
         /\ DaysBefore(y, MonthAt(y, day)) <= day
         /\ day < DaysBefore(y, MonthAt(y, day) + 1)
BY DEF MonthAt, DaysBefore, MonthRange, YearLength

LEMMA MonthIs ==
  ASSUME NEW y \in Int, NEW m \in 1..12, NEW day \in 0..(YearLength(y) - 1),
         DaysBefore(y, m) <= day, day < DaysBefore(y, m + 1)
  PROVE  MonthAt(y, day) = m
<1> DEFINE n == MonthAt(y, day)
<1>1. /\ n \in 1..12 /\ DaysBefore(y, n) <= day /\ day < DaysBefore(y, n + 1)
  BY MonthOfDay
<1> HIDE DEF n
<1>2. /\ DaysBefore(y, m) \in Nat /\ DaysBefore(y, m + 1) \in Nat
      /\ DaysBefore(y, n) \in Nat /\ DaysBefore(y, n + 1) \in Nat
  <2>1. DaysBefore(y, m) \in Nat /\ DaysBefore(y, m + 1) \in Nat
    BY Months
  <2>2. DaysBefore(y, n) \in Nat /\ DaysBefore(y, n + 1) \in Nat
    BY <1>1, Months
  <2> QED
    BY <2>1, <2>2
<1>3. ~(m < n) /\ ~(n < m)
  BY <1>1, <1>2, MonthOrder
<1> QED
  BY <1>1, <1>3 DEF n

LEMMA DateParts ==
  ASSUME NEW date \in Int
  PROVE  /\ YearOf(date) \in Int /\ MonthOf(date) \in 1..12
         /\ DayOf(date) \in 1..DaysIn(YearOf(date), MonthOf(date))
         /\ Ordinal(YearOf(date), MonthOf(date), DayOf(date)) = date
<1> DEFINE y == YearOf(date)
           m == MonthOf(date)
           day == date - NewYear(y)
<1>1. /\ y \in Int /\ NewYear(y) \in Int /\ NewYear(y) <= date
      /\ date < NewYear(y) + YearLength(y)
  BY YearOfDate, NewYearNext
<1>2. day \in 0..(YearLength(y) - 1)
  BY <1>1 DEF YearLength
<1>3. m = MonthAt(y, day)
  BY DEF MonthOf
<1> HIDE DEF y, m
<1>4. m \in 1..12 /\ DaysBefore(y, m) <= day /\ day < DaysBefore(y, m + 1)
  BY <1>1, <1>2, <1>3, MonthOfDay
<1>5. /\ DaysBefore(y, m) \in Nat /\ DaysIn(y, m) \in 28..31
      /\ DaysBefore(y, m + 1) = DaysBefore(y, m) + DaysIn(y, m)
  BY <1>1, <1>4, Months
<1>6. DayOf(date) = date - (NewYear(y) + DaysBefore(y, m)) + 1
  BY <1>1, <1>4, <1>5 DEF DayOf, Ordinal, y, m
<1>7. DayOf(date) \in 1..DaysIn(y, m) /\ Ordinal(y, m, DayOf(date)) = date
  BY <1>1, <1>4, <1>5, <1>6 DEF Ordinal
<1> QED
  BY <1>1, <1>4, <1>7 DEF y, m

LEMMA OrdinalParts ==
  ASSUME NEW y \in Int, NEW m \in 1..12, NEW d \in 1..DaysIn(y, m)
  PROVE  /\ Ordinal(y, m, d) \in Int
         /\ NewYear(y) <= Ordinal(y, m, d) /\ Ordinal(y, m, d) < NewYear(y + 1)
         /\ YearOf(Ordinal(y, m, d)) = y /\ MonthOf(Ordinal(y, m, d)) = m
         /\ DayOf(Ordinal(y, m, d)) = d
<1> DEFINE date == Ordinal(y, m, d)
           day == DaysBefore(y, m) + d - 1
<1>1. /\ DaysBefore(y, m) \in Nat /\ DaysIn(y, m) \in 28..31
      /\ DaysBefore(y, m + 1) = DaysBefore(y, m) + DaysIn(y, m)
      /\ DaysBefore(y, 13) = YearLength(y)
  BY Months
<1>2. DaysBefore(y, m + 1) <= YearLength(y)
  BY DEF DaysBefore, MonthRange, YearLength
<1>3. NewYear(y) \in Int /\ NewYear(y + 1) = NewYear(y) + YearLength(y)
  BY NewYearNext
<1>4. /\ date = NewYear(y) + day /\ date \in Int /\ day \in 0..(YearLength(y) - 1)
      /\ DaysBefore(y, m) <= day /\ day < DaysBefore(y, m + 1)
  BY <1>1, <1>2, <1>3 DEF Ordinal, YearLength
<1>5. YearOf(date) = y
  BY <1>3, <1>4, YearIs DEF YearLength
<1>6. MonthOf(date) = m
  BY <1>3, <1>4, <1>5, MonthIs DEF MonthOf
<1>7. DayOf(date) = d
  BY <1>1, <1>3, <1>4, <1>5, <1>6 DEF DayOf, Ordinal
<1> QED
  BY <1>3, <1>4, <1>5, <1>6, <1>7 DEF YearLength

\* A day of an earlier month is an earlier day.
LEMMA EarlierMonth ==
  ASSUME NEW y \in Int, NEW m \in 1..12, NEW z \in Int, NEW n \in 1..12,
         12 * y + m < 12 * z + n,
         NEW d \in 1..DaysIn(y, m), NEW e \in 1..DaysIn(z, n)
  PROVE  Ordinal(y, m, d) < Ordinal(z, n, e)
<1>1. /\ Ordinal(y, m, d) \in Int /\ Ordinal(y, m, d) < NewYear(y + 1)
      /\ NewYear(y + 1) \in Int
  BY OrdinalParts, NewYearNext
<1>2. /\ Ordinal(z, n, e) \in Int /\ NewYear(z) <= Ordinal(z, n, e)
      /\ NewYear(z) \in Int
  BY OrdinalParts, NewYearNext
<1>3. CASE y < z
  BY <1>1, <1>2, <1>3, NewYearOrder
<1>4. CASE ~(y < z)
  <2>1. y = z /\ m < n
    BY <1>4
  <2>2. DaysBefore(y, m + 1) <= DaysBefore(y, n)
    BY <2>1, MonthOrder
  <2>3. /\ DaysBefore(y, m) \in Nat /\ DaysBefore(y, n) \in Nat
        /\ DaysIn(y, m) \in 28..31 /\ DaysIn(y, n) \in 28..31
        /\ DaysBefore(y, m + 1) = DaysBefore(y, m) + DaysIn(y, m)
    BY Months
  <2> QED
    BY <1>1, <1>2, <2>1, <2>2, <2>3 DEF Ordinal
<1> QED
  BY <1>3, <1>4

-----------------------------------------------------------------------------
(* Deltas: carrying from unit to unit loses nothing. *)

Relative(d) == \A p \in RelativePart : p \in DOMAIN d /\ d[p] \in Int

\* No unit keeps more than it holds.
Normal(d) ==
  /\ Abs(d.months) < 12 /\ Abs(d.hours) < 24
  /\ Abs(d.minutes) < 60 /\ Abs(d.seconds) < 60

LEMMA Carried ==
  ASSUME NEW x \in Int, NEW base \in {12, 24, 60}
  PROVE  /\ Keep(x, base) \in Int /\ Carry(x, base) \in Int
         /\ Abs(Keep(x, base)) < base
         /\ Keep(x, base) + base * Carry(x, base) = x
<1>1. CASE base = 12 BY <1>1 DEF Keep, Carry, Abs, Sign
<1>2. CASE base = 24 BY <1>2 DEF Keep, Carry, Abs, Sign
<1>3. CASE base = 60 BY <1>3 DEF Keep, Carry, Abs, Sign
<1> QED BY <1>1, <1>2, <1>3

LEMMA FixParts ==
  ASSUME NEW d, Relative(d)
  PROVE  LET minutes == d.minutes + Carry(d.seconds, 60)
             hours == d.hours + Carry(minutes, 60)
             f == Fix(d)
         IN  /\ f.seconds = Keep(d.seconds, 60) /\ f.minutes = Keep(minutes, 60)
             /\ f.hours = Keep(hours, 24) /\ f.days = d.days + Carry(hours, 24)
             /\ f.months = Keep(d.months, 12)
             /\ f.years = d.years + Carry(d.months, 12)
             /\ DOMAIN f = DOMAIN d
             /\ \A p \in DOMAIN d \ RelativePart : f[p] = d[p]
BY DEF Fix, Relative, RelativePart

\* The same in plain numbers: what is carried twice is counted once.
LEMMA CarriedOn ==
  ASSUME NEW s \in Int, NEW m \in Int, NEW h \in Int, NEW d \in Int,
         NEW s2 \in Int, NEW m2 \in Int, NEW h2 \in Int, NEW d2 \in Int,
         NEW minutes \in Int, NEW hours \in Int,
         s2 + 60 * minutes = s + 60 * m, m2 + 60 * hours = minutes + 60 * h,
         h2 + 24 * d2 = hours + 24 * d
  PROVE  d2 * 86400 + h2 * 3600 + m2 * 60 + s2 = d * 86400 + h * 3600 + m * 60 + s
OBVIOUS

LEMMA AddedUp ==
  ASSUME NEW s \in Int, NEW m \in Int, NEW h \in Int, NEW d \in Int,
         NEW s2 \in Int, NEW m2 \in Int, NEW h2 \in Int, NEW d2 \in Int
  PROVE  (d + d2) * 86400 + (h + h2) * 3600 + (m + m2) * 60 + (s + s2)
           = (d * 86400 + h * 3600 + m * 60 + s) + (d2 * 86400 + h2 * 3600 + m2 * 60 + s2)
OBVIOUS

\* _fix keeps what the delta stands for, leaves no unit with more than it holds,
\* and leaves the absolute parts alone (relativedelta.py:231-262).
THEOREM FixKeeps ==
  ASSUME NEW d, Relative(d)
  PROVE  /\ InMonths(Fix(d)) = InMonths(d) /\ InSeconds(Fix(d)) = InSeconds(d)
         /\ Normal(Fix(d)) /\ Relative(Fix(d))
         /\ \A p \in DOMAIN d \ RelativePart : Fix(d)[p] = d[p]
<1> DEFINE minutes == d.minutes + Carry(d.seconds, 60)
           hours == d.hours + Carry(minutes, 60)
           f == Fix(d)
<1>1. /\ d.seconds \in Int /\ d.minutes \in Int /\ d.hours \in Int
      /\ d.days \in Int /\ d.months \in Int /\ d.years \in Int
      /\ RelativePart \subseteq DOMAIN d
  BY DEF Relative, RelativePart
<1>2. /\ Keep(d.seconds, 60) \in Int /\ Carry(d.seconds, 60) \in Int
      /\ Abs(Keep(d.seconds, 60)) < 60
      /\ Keep(d.seconds, 60) + 60 * Carry(d.seconds, 60) = d.seconds
  BY <1>1, Carried
<1>3. minutes \in Int BY <1>1, <1>2
<1>4. /\ Keep(minutes, 60) \in Int /\ Carry(minutes, 60) \in Int
      /\ Abs(Keep(minutes, 60)) < 60
      /\ Keep(minutes, 60) + 60 * Carry(minutes, 60) = minutes
  BY <1>3, Carried
<1>5. hours \in Int BY <1>1, <1>4
<1>6. /\ Keep(hours, 24) \in Int /\ Carry(hours, 24) \in Int
      /\ Abs(Keep(hours, 24)) < 24
      /\ Keep(hours, 24) + 24 * Carry(hours, 24) = hours
  BY <1>5, Carried
<1>7. /\ Keep(d.months, 12) \in Int /\ Carry(d.months, 12) \in Int
      /\ Abs(Keep(d.months, 12)) < 12
      /\ Keep(d.months, 12) + 12 * Carry(d.months, 12) = d.months
  BY <1>1, Carried
<1>8. /\ f.seconds = Keep(d.seconds, 60) /\ f.minutes = Keep(minutes, 60)
      /\ f.hours = Keep(hours, 24) /\ f.days = d.days + Carry(hours, 24)
      /\ f.months = Keep(d.months, 12)
      /\ f.years = d.years + Carry(d.months, 12)
      /\ DOMAIN f = DOMAIN d
      /\ \A p \in DOMAIN d \ RelativePart : f[p] = d[p]
  BY FixParts
<1>9. minutes = d.minutes + Carry(d.seconds, 60) /\ hours = d.hours + Carry(minutes, 60)
  OBVIOUS
<1> HIDE DEF minutes, hours, f
<1>10. InMonths(f) = InMonths(d) BY <1>1, <1>7, <1>8 DEF InMonths
<1>11. InSeconds(f) = InSeconds(d)
  <2>1. f.seconds + 60 * minutes = d.seconds + 60 * d.minutes BY <1>1, <1>2, <1>8, <1>9
  <2>2. f.minutes + 60 * hours = minutes + 60 * d.hours BY <1>1, <1>3, <1>4, <1>8, <1>9
  <2>3. f.hours + 24 * f.days = hours + 24 * d.days BY <1>1, <1>5, <1>6, <1>8
  <2>4. f.seconds \in Int /\ f.minutes \in Int /\ f.hours \in Int /\ f.days \in Int
    BY <1>1, <1>2, <1>4, <1>6, <1>8
  <2>5. f.days * 86400 + f.hours * 3600 + f.minutes * 60 + f.seconds
          = d.days * 86400 + d.hours * 3600 + d.minutes * 60 + d.seconds
    BY ONLY <1>1, <1>3, <1>5, <2>1, <2>2, <2>3, <2>4, CarriedOn
  <2> QED BY <2>5 DEF InSeconds, DaySeconds
<1>12. Normal(f) BY <1>2, <1>4, <1>6, <1>7, <1>8 DEF Normal
<1>13. Relative(f)
  BY <1>1, <1>2, <1>3, <1>4, <1>5, <1>6, <1>7, <1>8 DEF Relative, RelativePart
<1> QED BY <1>8, <1>10, <1>11, <1>12, <1>13 DEF f

LEMMA FloatIs ==
  ASSUME NEW x \in Int, Abs(x) < FloatExact
  PROVE  Float(x) = x
<1>1. FloatUnit(Abs(x)) = 1
  BY DEF FloatUnit
<1>2. Abs(x) \in Nat /\ Sign(x) * Abs(x) = x
  BY DEF Abs, Sign
<1>3. Abs(x) \div 1 = Abs(x) /\ Abs(x) % 1 = 0
  BY <1>2
<1>4. Float(x) = Sign(x) * (Abs(x) + 0) * 1
  BY <1>1, <1>3 DEF Float
<1>5. Sign(x) \in Int
  BY DEF Sign
<1> QED
  BY <1>2, <1>4, <1>5

LEMMA FloatProductIs ==
  ASSUME NEW x \in Int, NEW k \in Int, Abs(x) < FloatExact, Abs(k) < FloatExact,
         Abs(x * k) < FloatExact
  PROVE  FloatProduct(x, k) = x * k
<1>1. Float(x) = x /\ Float(k) = k
  BY FloatIs
<1>2. x * k \in Int
  OBVIOUS
<1> QED
  BY <1>1, <1>2, FloatIs DEF FloatProduct

\* The sum, the difference and the negation of deltas stand for the sum, the
\* difference and the negation of what these stand for, whatever their size and
\* signs, and so does the product as long as no number in it is too large to be
\* exact as a float (__add__, __sub__, __neg__, __mul__).
THEOREM ArithmeticKeeps ==
  ASSUME NEW a, NEW b, Relative(a), Relative(b), DOMAIN a = DOMAIN b, NEW k \in Int
  PROVE  /\ InMonths(Sum(a, b)) = InMonths(a) + InMonths(b)
         /\ InSeconds(Sum(a, b)) = InSeconds(a) + InSeconds(b)
         /\ InMonths(Difference(a, b)) = InMonths(a) - InMonths(b)
         /\ InSeconds(Difference(a, b)) = InSeconds(a) - InSeconds(b)
         /\ InMonths(Negation(a)) = -InMonths(a)
         /\ InSeconds(Negation(a)) = -InSeconds(a)
         /\ Normal(Sum(a, b)) /\ Normal(Difference(a, b)) /\ Normal(Negation(a))
         /\ InFloat(a, k) =>
              /\ InMonths(Product(a, k)) = InMonths(a) * k
              /\ InSeconds(Product(a, k)) = InSeconds(a) * k
              /\ Normal(Product(a, k))
<1>1. /\ RelativePart \subseteq DOMAIN a /\ "leapdays" \notin RelativePart
      /\ \A p \in RelativePart : a[p] \in Int /\ b[p] \in Int
  BY DEF Relative, RelativePart
<1>2. /\ a.seconds \in Int /\ a.minutes \in Int /\ a.hours \in Int
      /\ a.days \in Int /\ a.months \in Int /\ a.years \in Int
      /\ b.seconds \in Int /\ b.minutes \in Int /\ b.hours \in Int
      /\ b.days \in Int /\ b.months \in Int /\ b.years \in Int
  BY DEF Relative, RelativePart
<1>3. /\ InMonths(Sum(a, b)) = InMonths(a) + InMonths(b)
      /\ InSeconds(Sum(a, b)) = InSeconds(a) + InSeconds(b) /\ Normal(Sum(a, b))
  <2> DEFINE d == [p \in DOMAIN a |-> IF p \in RelativePart THEN a[p] + b[p]
                                      ELSE IF p = "leapdays" THEN Or(b[p], a[p])
                                      ELSE IfGiven(b[p], a[p])]
  <2>1. DOMAIN d = DOMAIN a /\ \A p \in RelativePart : d[p] = a[p] + b[p] BY <1>1
  <2>2. Sum(a, b) = Fix(d) BY DEF Sum
  <2> HIDE DEF d
  <2>3. Relative(d) BY <1>1, <2>1 DEF Relative
  <2>4. /\ d.seconds = a.seconds + b.seconds /\ d.minutes = a.minutes + b.minutes
        /\ d.hours = a.hours + b.hours /\ d.days = a.days + b.days
        /\ d.months = a.months + b.months /\ d.years = a.years + b.years
    BY <2>1 DEF RelativePart
  <2>5. InMonths(d) = InMonths(a) + InMonths(b) BY ONLY <1>2, <2>4 DEF InMonths
  <2>6. InSeconds(d) = InSeconds(a) + InSeconds(b)
    BY ONLY <1>2, <2>4, AddedUp DEF InSeconds, DaySeconds
  <2> QED BY <2>2, <2>3, <2>5, <2>6, FixKeeps
<1>4. /\ InMonths(Difference(a, b)) = InMonths(a) - InMonths(b)
      /\ InSeconds(Difference(a, b)) = InSeconds(a) - InSeconds(b)
      /\ Normal(Difference(a, b))
  <2> DEFINE d == [p \in DOMAIN a |-> IF p \in RelativePart THEN a[p] - b[p]
                                      ELSE IF p = "leapdays" THEN Or(a[p], b[p])
                                      ELSE IfGiven(a[p], b[p])]
  <2>1. DOMAIN d = DOMAIN a /\ \A p \in RelativePart : d[p] = a[p] - b[p] BY <1>1
  <2>2. Difference(a, b) = Fix(d) BY DEF Difference
  <2> HIDE DEF d
  <2>3. Relative(d) BY <1>1, <2>1 DEF Relative
  <2>4. /\ d.seconds = a.seconds - b.seconds /\ d.minutes = a.minutes - b.minutes
        /\ d.hours = a.hours - b.hours /\ d.days = a.days - b.days
        /\ d.months = a.months - b.months /\ d.years = a.years - b.years
    BY <2>1 DEF RelativePart
  <2>5. InMonths(d) = InMonths(a) - InMonths(b) BY ONLY <1>2, <2>4 DEF InMonths
  <2>6. InSeconds(d) = InSeconds(a) - InSeconds(b)
    BY ONLY <1>2, <2>4 DEF InSeconds, DaySeconds
  <2> QED BY <2>2, <2>3, <2>5, <2>6, FixKeeps
<1>5. /\ InMonths(Negation(a)) = -InMonths(a) /\ InSeconds(Negation(a)) = -InSeconds(a)
      /\ Normal(Negation(a))
  <2> DEFINE d == [p \in DOMAIN a |-> IF p \in RelativePart THEN -a[p] ELSE a[p]]
  <2>1. DOMAIN d = DOMAIN a /\ \A p \in RelativePart : d[p] = -a[p] BY <1>1
  <2>2. Negation(a) = Fix(d) BY DEF Negation
  <2> HIDE DEF d
  <2>3. Relative(d) BY <1>1, <2>1 DEF Relative
  <2>4. /\ d.seconds = -a.seconds /\ d.minutes = -a.minutes /\ d.hours = -a.hours
        /\ d.days = -a.days /\ d.months = -a.months /\ d.years = -a.years
    BY <2>1 DEF RelativePart
  <2>5. InMonths(d) = -InMonths(a) BY ONLY <1>2, <2>4 DEF InMonths
  <2>6. InSeconds(d) = -InSeconds(a) BY ONLY <1>2, <2>4 DEF InSeconds, DaySeconds
  <2> QED BY <2>2, <2>3, <2>5, <2>6, FixKeeps
<1>6. ASSUME InFloat(a, k)
      PROVE  /\ InMonths(Product(a, k)) = InMonths(a) * k
             /\ InSeconds(Product(a, k)) = InSeconds(a) * k /\ Normal(Product(a, k))
  <2> DEFINE d == [p \in DOMAIN a |->
                     IF p \in RelativePart THEN FloatProduct(a[p], k) ELSE a[p]]
  <2>0. \A p \in RelativePart : FloatProduct(a[p], k) = a[p] * k
    BY <1>1, <1>6, FloatProductIs DEF InFloat
  <2>1. DOMAIN d = DOMAIN a /\ \A p \in RelativePart : d[p] = a[p] * k
    BY <1>1, <2>0
  <2>2. Product(a, k) = Fix(d) BY DEF Product
  <2> HIDE DEF d
  <2>3. Relative(d) BY <1>1, <2>1 DEF Relative
  <2>4. /\ d.seconds = a.seconds * k /\ d.minutes = a.minutes * k /\ d.hours = a.hours * k
        /\ d.days = a.days * k /\ d.months = a.months * k /\ d.years = a.years * k
    BY <2>1 DEF RelativePart
  <2>5. InMonths(d) = InMonths(a) * k BY ONLY <1>2, <2>4 DEF InMonths
  <2>6. InSeconds(d) = InSeconds(a) * k BY ONLY <1>2, <2>4 DEF InSeconds, DaySeconds
  <2> QED BY <2>2, <2>3, <2>5, <2>6, FixKeeps
<1> QED BY <1>3, <1>4, <1>5, <1>6

-----------------------------------------------------------------------------
(* Sums with datetimes: months first, then seconds.                         *)

MonthIndex(dt) == 12 * YearOf(dt.date) + MonthOf(dt.date)

Parts == RelativePart \cup {"leapdays"} \cup AbsolutePart

\* A delta that replaces nothing.
Plain(d) ==
  /\ DOMAIN d = Parts /\ Relative(d) /\ d.leapdays = 0
  /\ d.year = None /\ d.month = None /\ d.day = None /\ d.weekday = None
  /\ d.hour = None /\ d.minute = None /\ d.second = None

LEMMA NoDeltaIsPlain ==
  /\ Plain(NoDelta)
  /\ NoDelta.years = 0 /\ NoDelta.months = 0 /\ NoDelta.days = 0
  /\ NoDelta.hours = 0 /\ NoDelta.minutes = 0 /\ NoDelta.seconds = 0
BY DEF Plain, Parts, Relative, NoDelta, RelativePart, AbsolutePart

LEMMA SetMonthsIs ==
  ASSUME NEW d, Plain(d), NEW k \in Int
  PROVE  /\ Plain(SetMonths(d, k)) /\ InMonths(SetMonths(d, k)) = k
         /\ Abs(SetMonths(d, k).months) < 12
         /\ \A p \in DOMAIN d \ {"months", "years"} : SetMonths(d, k)[p] = d[p]
<1>1. /\ Keep(k, 12) \in Int /\ Carry(k, 12) \in Int /\ Abs(Keep(k, 12)) < 12
      /\ Keep(k, 12) + 12 * Carry(k, 12) = k
  BY Carried
<1>2. DOMAIN d = Parts /\ {"months", "years"} \subseteq Parts
  BY DEF Plain, Parts, RelativePart
<1>3. /\ DOMAIN SetMonths(d, k) = Parts
      /\ SetMonths(d, k).months = Keep(k, 12) /\ SetMonths(d, k).years = Carry(k, 12)
      /\ \A p \in Parts \ {"months", "years"} : SetMonths(d, k)[p] = d[p]
  BY <1>2 DEF SetMonths
<1>4. Plain(SetMonths(d, k))
  BY <1>1, <1>3 DEF Plain, Relative, Parts, RelativePart, AbsolutePart
<1>5. InMonths(SetMonths(d, k)) = k
  BY <1>1, <1>3 DEF InMonths
<1> QED
  BY <1>1, <1>2, <1>3, <1>4, <1>5

LEMMA MonthOfYearIs ==
  ASSUME NEW y \in Int, NEW m \in -11..24
  PROVE  LET r == MonthOfYear(y, m)
         IN  r.year \in Int /\ r.month \in 1..12 /\ 12 * r.year + r.month = 12 * y + m
<1>1. CASE m > 12
  BY <1>1 DEF MonthOfYear
<1>2. CASE m < 1
  BY <1>2 DEF MonthOfYear
<1>3. CASE ~(m > 12) /\ ~(m < 1)
  BY <1>3 DEF MonthOfYear
<1> QED
  BY <1>1, <1>2, <1>3

\* Where the months of a delta lead to: to that month, and to the same day and
\* time of it or, when it is too short, to its last day.
LEMMA PlainMonth ==
  ASSUME NEW d, Plain(d), Abs(d.months) < 12, NEW dt \in Datetime
  PROVE  LET r == MonthReached(d, dt)
             e == DayReached(d, dt, r)
         IN  /\ r.year \in Int /\ r.month \in 1..12
             /\ 12 * r.year + r.month = MonthIndex(dt) + InMonths(d)
             /\ e = Lesser(DaysIn(r.year, r.month), DayOf(dt.date))
             /\ e \in 1..DaysIn(r.year, r.month)
<1> DEFINE y == YearOf(dt.date)
           m == MonthOf(dt.date)
           r == MonthReached(d, dt)
           e == DayReached(d, dt, r)
<1>1. /\ dt.date \in Int /\ d.years \in Int /\ d.months \in Int
      /\ d.year = None /\ d.month = None /\ d.day = None
  BY DEF Datetime, Plain, Relative, RelativePart
<1>2. y \in Int /\ m \in 1..12 /\ DayOf(dt.date) \in 1..DaysIn(y, m)
      /\ DaysIn(y, m) \in 28..31
  BY <1>1, DateParts, Months
<1>3. r = MonthOfYear(y + d.years, m + d.months)
  BY <1>1 DEF MonthReached, Or
<1>4. e = Lesser(DaysIn(r.year, r.month), DayOf(dt.date))
  BY <1>1 DEF DayReached, Or
<1> HIDE DEF y, m, r, e
<1>5. m + d.months \in -11..24 /\ y + d.years \in Int
  <2>1. d.months \in -11..11
    BY <1>1 DEF Abs
  <2> QED
    BY <1>1, <1>2, <2>1
<1>6. /\ r.year \in Int /\ r.month \in 1..12
      /\ 12 * r.year + r.month = 12 * (y + d.years) + (m + d.months)
  BY <1>3, <1>5, MonthOfYearIs
<1>7. 12 * r.year + r.month = MonthIndex(dt) + InMonths(d)
  BY <1>1, <1>2, <1>6 DEF MonthIndex, InMonths, y, m
<1>8. DaysIn(r.year, r.month) \in 28..31
  BY <1>6, Months
<1>9. e \in 1..DaysIn(r.year, r.month)
  BY <1>2, <1>4, <1>8 DEF Lesser
<1> QED
  BY <1>4, <1>6, <1>7, <1>9 DEF r, e

LEMMA PlainTime ==
  ASSUME NEW d, Plain(d), NEW dt \in Datetime, NEW r
  PROVE  TimeReached(d, dt, r)
           = Later(At(Ordinal(r.year, r.month, DayReached(d, dt, r)) + d.days, dt.time),
                   d.hours * 3600 + d.minutes * 60 + d.seconds)
<1>1. dt.time \in Nat /\ dt.time < 86400
  BY DEF Datetime, DaySeconds
<1>2. (dt.time \div 3600) * 3600 + ((dt.time \div 60) % 60) * 60 + (dt.time % 60) = dt.time
  BY <1>1
<1>3. LeapDays(d, r) = 0 /\ d.days \in Int
  BY DEF Plain, LeapDays, Relative, RelativePart
<1>4. d.days + LeapDays(d, r) = d.days
  BY <1>3
<1> QED
  BY <1>2, <1>4 DEF TimeReached, IfGiven, Plain

LEMMA MonthsOnIs ==
  ASSUME NEW dt \in Datetime, NEW k \in Int
  PROVE  LET to == MonthsOn(k, dt)
             r == MonthReached(SetMonths(NoDelta, k), dt)
         IN  /\ to \in Datetime /\ MonthIndex(to) = MonthIndex(dt) + k
             /\ to = At(Ordinal(r.year, r.month,
                                Lesser(DaysIn(r.year, r.month), DayOf(dt.date))), dt.time)
<1> DEFINE d == SetMonths(NoDelta, k)
           r == MonthReached(d, dt)
           e == DayReached(d, dt, r)
           on == Ordinal(r.year, r.month, e)
<1>1. Plain(d) /\ Abs(d.months) < 12 /\ InMonths(d) = k
  BY NoDeltaIsPlain, SetMonthsIs
<1>2. d.days = 0 /\ d.hours = 0 /\ d.minutes = 0 /\ d.seconds = 0
  BY NoDeltaIsPlain DEF SetMonths, NoDelta, RelativePart, AbsolutePart
<1>3. MonthsOn(k, dt) = TimeReached(d, dt, r)
  BY <1>1 DEF MonthsOn, AddTo, WeekdayReached, Plain
<1> HIDE DEF d
<1>4. /\ r.year \in Int /\ r.month \in 1..12
      /\ 12 * r.year + r.month = MonthIndex(dt) + k
      /\ e = Lesser(DaysIn(r.year, r.month), DayOf(dt.date))
      /\ e \in 1..DaysIn(r.year, r.month)
  BY <1>1, PlainMonth
<1>5. MonthsOn(k, dt) = Later(At(on + 0, dt.time), 0 * 3600 + 0 * 60 + 0)
  BY <1>1, <1>2, <1>3, PlainTime
<1> HIDE DEF r, e
<1>6. on \in Int /\ YearOf(on) = r.year /\ MonthOf(on) = r.month
  BY <1>4, OrdinalParts
<1> HIDE DEF on
<1>7. dt.time \in Nat /\ dt.time < 86400
  BY DEF Datetime, DaySeconds
<1>8. MonthsOn(k, dt) = At(on, dt.time)
  BY <1>5, <1>6, <1>7 DEF Later, At, DaySeconds
<1>9. MonthsOn(k, dt) \in Datetime /\ MonthIndex(MonthsOn(k, dt)) = MonthIndex(dt) + k
  BY <1>4, <1>6, <1>7, <1>8 DEF At, Datetime, DaySeconds, MonthIndex
<1> QED
  BY <1>4, <1>8, <1>9 DEF on, e, r, d

LEMMA SameMonth ==
  ASSUME NEW y \in Int, NEW m \in 1..12, NEW z \in Int, NEW n \in 1..12,
         12 * y + m = 12 * z + n
  PROVE  y = z /\ m = n
OBVIOUS

\* A delta that replaces nothing leads on by its months, then by its seconds.
LEMMA PlainSum ==
  ASSUME NEW d, Plain(d), Abs(d.months) < 12, NEW dt \in Datetime
  PROVE  AddTo(d, dt) = Later(MonthsOn(InMonths(d), dt), InSeconds(d))
<1> DEFINE k == InMonths(d)
           to == MonthsOn(k, dt)
           r == MonthReached(d, dt)
           q == MonthReached(SetMonths(NoDelta, k), dt)
           on == Ordinal(r.year, r.month, DayReached(d, dt, r))
<1>1. /\ d.days \in Int /\ d.hours \in Int /\ d.minutes \in Int /\ d.seconds \in Int
      /\ k \in Int
  BY DEF Plain, Relative, RelativePart, InMonths
<1>2. /\ r.year \in Int /\ r.month \in 1..12
      /\ 12 * r.year + r.month = MonthIndex(dt) + k
      /\ DayReached(d, dt, r) = Lesser(DaysIn(r.year, r.month), DayOf(dt.date))
      /\ DayReached(d, dt, r) \in 1..DaysIn(r.year, r.month)
  BY PlainMonth
<1>3. /\ q.year \in Int /\ q.month \in 1..12
      /\ 12 * q.year + q.month = MonthIndex(dt) + k
  <2> DEFINE e == SetMonths(NoDelta, k)
  <2>1. Plain(e) /\ Abs(e.months) < 12 /\ InMonths(e) = k
    BY <1>1, NoDeltaIsPlain, SetMonthsIs
  <2> HIDE DEF e
  <2>2. LET p == MonthReached(e, dt)
        IN  /\ p.year \in Int /\ p.month \in 1..12
            /\ 12 * p.year + p.month = MonthIndex(dt) + k
    BY <2>1, PlainMonth
  <2> QED
    BY <2>2 DEF e
<1>4. to = At(Ordinal(q.year, q.month,
                      Lesser(DaysIn(q.year, q.month), DayOf(dt.date))), dt.time)
  BY <1>1, MonthsOnIs
<1>5. AddTo(d, dt) = TimeReached(d, dt, r)
  BY DEF AddTo, WeekdayReached, Plain
<1>6. AddTo(d, dt) = Later(At(on + d.days, dt.time),
                           d.hours * 3600 + d.minutes * 60 + d.seconds)
  BY <1>5, PlainTime
<1> HIDE DEF k, to, r, q
<1>7. q.year = r.year /\ q.month = r.month
  BY <1>2, <1>3, SameMonth
<1>8. to = At(on, dt.time)
  BY <1>2, <1>4, <1>7
<1>9. on \in Int
  BY <1>2, OrdinalParts
<1> HIDE DEF on
<1>10. dt.time \in Nat /\ dt.time < 86400
  BY DEF Datetime, DaySeconds
<1> DEFINE rest == d.hours * 3600 + d.minutes * 60 + d.seconds
<1>11. rest \in Int /\ InSeconds(d) = d.days * 86400 + rest
  BY <1>1 DEF InSeconds, DaySeconds
<1> HIDE DEF rest
<1>12. /\ (dt.time + InSeconds(d)) \div 86400 = d.days + (dt.time + rest) \div 86400
       /\ (dt.time + InSeconds(d)) % 86400 = (dt.time + rest) % 86400
  <2> DEFINE t == dt.time
             n == d.days
             total == InSeconds(d)
  <2>1. t \in Int /\ n \in Int /\ rest \in Int /\ total = n * 86400 + rest
    BY <1>1, <1>10, <1>11
  <2> HIDE DEF t, n, total
  <2>2. (t + total) \div 86400 = n + (t + rest) \div 86400
    BY ONLY <2>1, SMT
  <2>3. (t + total) % 86400 = (t + rest) % 86400
    BY ONLY <2>1, SMT
  <2> QED
    BY <2>2, <2>3 DEF t, n, total
<1>13. Later(At(on + d.days, dt.time), rest) = Later(At(on, dt.time), InSeconds(d))
  BY <1>1, <1>9, <1>10, <1>11, <1>12 DEF Later, At, DaySeconds
<1> QED
  BY <1>6, <1>8, <1>13 DEF rest, to, k

-----------------------------------------------------------------------------
(* Differences of datetimes.                                                *)

LEMMA Ordered ==
  ASSUME NEW a \in Datetime, NEW b \in Datetime
  PROVE  /\ Earlier(a, b) => ~Earlier(b, a)
         /\ ~Earlier(a, b) => AtMost(b, a)
<1>1. /\ a.date \in Int /\ b.date \in Int /\ a.time \in Nat /\ b.time \in Nat
      /\ a = At(a.date, a.time) /\ b = At(b.date, b.time)
  BY DEF Datetime, At
<1> QED
  BY <1>1 DEF Earlier, AtMost

LEMMA EarlierIndex ==
  ASSUME NEW a \in Datetime, NEW b \in Datetime, MonthIndex(a) < MonthIndex(b)
  PROVE  Earlier(a, b)
<1>1. a.date \in Int /\ b.date \in Int
  BY DEF Datetime
<1>2. /\ YearOf(a.date) \in Int /\ MonthOf(a.date) \in 1..12
      /\ DayOf(a.date) \in 1..DaysIn(YearOf(a.date), MonthOf(a.date))
      /\ Ordinal(YearOf(a.date), MonthOf(a.date), DayOf(a.date)) = a.date
  BY <1>1, DateParts
<1>3. /\ YearOf(b.date) \in Int /\ MonthOf(b.date) \in 1..12
      /\ DayOf(b.date) \in 1..DaysIn(YearOf(b.date), MonthOf(b.date))
      /\ Ordinal(YearOf(b.date), MonthOf(b.date), DayOf(b.date)) = b.date
  BY <1>1, DateParts
<1>4. a.date < b.date
  BY <1>2, <1>3, EarlierMonth DEF MonthIndex
<1> QED
  BY <1>4 DEF Earlier

LEMMA MonthsOnOrder ==
  ASSUME NEW dt \in Datetime, NEW j \in Int, NEW k \in Int, j < k
  PROVE  Earlier(MonthsOn(j, dt), MonthsOn(k, dt))
<1>1. /\ MonthsOn(j, dt) \in Datetime /\ MonthIndex(MonthsOn(j, dt)) = MonthIndex(dt) + j
      /\ MonthsOn(k, dt) \in Datetime /\ MonthIndex(MonthsOn(k, dt)) = MonthIndex(dt) + k
  BY MonthsOnIs
<1>2. MonthIndex(dt) \in Int
  BY DateParts DEF MonthIndex, Datetime
<1> QED
  BY <1>1, <1>2, EarlierIndex

LEMMA LaterSeconds ==
  ASSUME NEW a \in Datetime, NEW b \in Datetime
  PROVE  Seconds(b, a) \in Int /\ Later(b, Seconds(b, a)) = a
<1> DEFINE d == a.date - b.date
           t == a.time
           s == b.time
           total == Seconds(b, a)
<1>1. /\ a.date \in Int /\ b.date \in Int /\ t \in Nat /\ t < 86400 /\ s \in Nat
      /\ d \in Int /\ a = At(a.date, t)
  BY DEF Datetime, At, DaySeconds
<1>2. total = d * 86400 + t - s
  BY DEF Seconds, DaySeconds
<1>3. Later(b, total) = At(b.date + (s + total) \div 86400, (s + total) % 86400)
  BY DEF Later, DaySeconds
<1>4. b.date + d = a.date
  BY <1>1
<1> HIDE DEF d, t, s, total
<1>5. total \in Int /\ (s + total) \div 86400 = d /\ (s + total) % 86400 = t
  BY ONLY <1>1, <1>2, SMT
<1> QED
  BY <1>1, <1>3, <1>4, <1>5 DEF total

LEMMA DiffInMonthsIs ==
  ASSUME NEW a \in Datetime, NEW b \in Datetime, NEW k \in Int
  PROVE  /\ InMonths(DiffInMonths(a, b, k)) = k
         /\ AddTo(DiffInMonths(a, b, k), b) = a
<1> DEFINE to == MonthsOn(k, b)
           m == SetMonths(NoDelta, k)
           d == [m EXCEPT !.seconds = Seconds(to, a)]
<1>1. to \in Datetime
  BY MonthsOnIs
<1>2. /\ Seconds(to, a) \in Int /\ Later(to, Seconds(to, a)) = a
  BY <1>1, LaterSeconds
<1>3. /\ Plain(m) /\ InMonths(m) = k
      /\ \A p \in DOMAIN NoDelta \ {"months", "years"} : m[p] = NoDelta[p]
  BY NoDeltaIsPlain, SetMonthsIs
<1>4. m.days = 0 /\ m.hours = 0 /\ m.minutes = 0
  BY <1>3, NoDeltaIsPlain DEF Plain, Parts, RelativePart
<1> HIDE DEF m
<1>5. DiffInMonths(a, b, k) = Fix(d)
  BY DEF DiffInMonths, m
<1>6. /\ DOMAIN d = Parts /\ d.seconds = Seconds(to, a)
      /\ \A p \in Parts \ {"seconds"} : d[p] = m[p]
  BY <1>3 DEF Plain, Parts, RelativePart
<1> HIDE DEF d
<1>7. Plain(d)
  BY <1>2, <1>3, <1>6 DEF Plain, Relative, Parts, RelativePart, AbsolutePart
<1>8. InMonths(d) = k
  BY <1>3, <1>6 DEF InMonths, Parts, RelativePart
<1>9. InSeconds(d) = Seconds(to, a)
  <2>1. d.days = 0 /\ d.hours = 0 /\ d.minutes = 0
    BY <1>4, <1>6 DEF Parts, RelativePart
  <2> QED
    BY <1>2, <1>6, <2>1 DEF InSeconds, DaySeconds
<1>10. /\ InMonths(Fix(d)) = k /\ InSeconds(Fix(d)) = Seconds(to, a)
       /\ Relative(Fix(d)) /\ Abs(Fix(d).months) < 12
       /\ \A p \in DOMAIN d \ RelativePart : Fix(d)[p] = d[p]
  BY <1>7, <1>8, <1>9, FixKeeps DEF Plain, Normal
<1>11. DOMAIN Fix(d) = DOMAIN d
  BY DEF Fix
<1>12. Plain(Fix(d))
  BY <1>7, <1>10, <1>11 DEF Plain, Parts, RelativePart, AbsolutePart
<1>13. AddTo(Fix(d), b) = Later(to, Seconds(to, a))
  BY <1>10, <1>12, PlainSum
<1> QED
  BY <1>2, <1>5, <1>10, <1>13

LEMMA MonthsBetweenIs ==
  ASSUME NEW a \in Datetime, NEW b \in Datetime
  PROVE  /\ MonthsBetween(a, b) \in Int
         /\ MonthIndex(b) + MonthsBetween(a, b) = MonthIndex(a)
         /\ MonthIndex(a) \in Int
<1>1. a.date \in Int /\ b.date \in Int
  BY DEF Datetime
<1>2. /\ YearOf(a.date) \in Int /\ MonthOf(a.date) \in Int
      /\ YearOf(b.date) \in Int /\ MonthOf(b.date) \in Int
  BY <1>1, DateParts
<1> QED
  BY <1>2 DEF MonthsBetween, MonthIndex

\* The loop of the difference is left after one turn at most, with the first
\* number of months that does not pass.
LEMMA MonthsCountedIs ==
  ASSUME NEW a \in Datetime, NEW b \in Datetime, NEW back \in {1, -1}
  PROVE  LET k == MonthsCounted(a, b, MonthsBetween(a, b), back)
         IN  /\ k \in Int
             /\ IF back = 1 THEN /\ ~Earlier(MonthsOn(k, b), a)
                                 /\ Earlier(MonthsOn(k - 1, b), a)
                            ELSE /\ ~Earlier(a, MonthsOn(k, b))
                                 /\ Earlier(a, MonthsOn(k + 1, b))
<1> DEFINE m == MonthsBetween(a, b)
           IsBefore(dt) == IF back = 1 THEN Earlier(dt, a) ELSE Earlier(a, dt)
           Short(k) == IsBefore(MonthsOn(m + k * back, b))
           turns == CHOOSE k \in 0..2 : ~Short(k) /\ \A j \in 0..(k - 1) : Short(j)
<1>1. m \in Int /\ MonthIndex(b) + m = MonthIndex(a) /\ MonthIndex(a) \in Int
      /\ MonthIndex(b) \in Int
  BY MonthsBetweenIs
<1>2. MonthsCounted(a, b, m, back) = m + turns * back
  BY DEF MonthsCounted
<1> HIDE DEF m
<1>3. \A k \in Int : /\ MonthsOn(k, b) \in Datetime
                     /\ MonthIndex(MonthsOn(k, b)) = MonthIndex(b) + k
  BY MonthsOnIs
<1>4. /\ Earlier(a, MonthsOn(m + 1, b)) /\ ~Earlier(MonthsOn(m + 1, b), a)
      /\ Earlier(MonthsOn(m - 1, b), a) /\ ~Earlier(a, MonthsOn(m - 1, b))
  <2>1. /\ MonthsOn(m + 1, b) \in Datetime /\ MonthsOn(m - 1, b) \in Datetime
        /\ MonthIndex(MonthsOn(m + 1, b)) = MonthIndex(a) + 1
        /\ MonthIndex(MonthsOn(m - 1, b)) = MonthIndex(a) - 1
    BY <1>1, <1>3
  <2>2. Earlier(a, MonthsOn(m + 1, b)) /\ Earlier(MonthsOn(m - 1, b), a)
    BY <1>1, <2>1, EarlierIndex
  <2> QED
    BY <2>1, <2>2, Ordered
<1>5. m + 0 * back = m /\ m + 1 * back = m + back /\ m + back - back = m
  BY <1>1
<1>6. ~Short(1) /\ (Short(0) <=> IsBefore(MonthsOn(m, b)))
  BY <1>1, <1>4, <1>5
<1> HIDE DEF Short
<1>7. turns \in {0, 1} /\ ~Short(turns) /\ (turns = 1 => Short(0))
  <2>1. \E k \in 0..2 : ~Short(k) /\ \A j \in 0..(k - 1) : Short(j)
    <3>1. CASE Short(0)
      <4>1. \A j \in 0..(1 - 1) : Short(j)
        BY <3>1
      <4> QED
        BY <1>6, <4>1
    <3>2. CASE ~Short(0)
      <4>1. \A j \in 0..(0 - 1) : Short(j)
        OBVIOUS
      <4> QED
        BY <3>2, <4>1
    <3> QED
      BY <3>1, <3>2
  <2>2. turns \in 0..2 /\ ~Short(turns) /\ \A j \in 0..(turns - 1) : Short(j)
    BY <2>1
  <2> HIDE DEF turns
  <2>3. \A t \in 0..2 : /\ t = 2 => 1 \in 0..(t - 1)
                        /\ t = 1 => 0 \in 0..(t - 1)
    OBVIOUS
  <2>4. turns # 2
    BY <1>6, <2>2, <2>3
  <2> QED
    BY <2>2, <2>3, <2>4
<1> HIDE DEF turns
<1>8. CASE turns = 0
  <2>1. m + turns * back = m /\ ~IsBefore(MonthsOn(m, b))
    BY <1>1, <1>6, <1>7, <1>8
  <2> QED
    BY <1>1, <1>2, <1>4, <2>1 DEF m
<1>9. CASE turns = 1
  <2>1. m + turns * back = m + back /\ IsBefore(MonthsOn(m, b))
    BY <1>1, <1>6, <1>7, <1>9
  <2>2. CASE back = 1
    <3>1. m + turns * back = m + 1 /\ Earlier(MonthsOn(m, b), a) /\ m + 1 - 1 = m
      BY <1>1, <2>1, <2>2
    <3> QED
      BY <1>1, <1>2, <1>4, <2>2, <3>1 DEF m
  <2>3. CASE back = -1
    <3>1. m + turns * back = m - 1 /\ Earlier(a, MonthsOn(m, b)) /\ m - 1 + 1 = m
      BY <1>1, <2>1, <2>3
    <3> QED
      BY <1>1, <1>2, <1>4, <2>3, <3>1 DEF m
  <2> QED
    BY <2>2, <2>3
<1> QED
  BY <1>7, <1>8, <1>9

LEMMA DiffIs ==
  ASSUME NEW a \in Datetime, NEW b \in Datetime
  PROVE  LET d == Diff(a, b)
         IN  /\ AddTo(d, b) = a
             /\ IF Earlier(a, b)
                THEN /\ AtMost(a, MonthsOn(InMonths(d), b))
                     /\ Earlier(MonthsOn(InMonths(d) - 1, b), a)
                ELSE /\ AtMost(MonthsOn(InMonths(d), b), a)
                     /\ Earlier(a, MonthsOn(InMonths(d) + 1, b))
<1> DEFINE back == IF Earlier(a, b) THEN 1 ELSE -1
           k == MonthsCounted(a, b, MonthsBetween(a, b), back)
<1>1. back \in {1, -1} /\ (back = 1 <=> Earlier(a, b))
  OBVIOUS
<1>2. Diff(a, b) = DiffInMonths(a, b, k)
  BY DEF Diff
<1> HIDE DEF back
<1>3. /\ k \in Int
      /\ IF back = 1 THEN ~Earlier(MonthsOn(k, b), a) /\ Earlier(MonthsOn(k - 1, b), a)
                     ELSE ~Earlier(a, MonthsOn(k, b)) /\ Earlier(a, MonthsOn(k + 1, b))
  BY <1>1, MonthsCountedIs
<1> HIDE DEF k
<1>4. InMonths(Diff(a, b)) = k /\ AddTo(Diff(a, b), b) = a
  BY <1>2, <1>3, DiffInMonthsIs
<1>5. MonthsOn(k, b) \in Datetime
  BY <1>3, MonthsOnIs
<1>6. /\ ~Earlier(MonthsOn(k, b), a) => AtMost(a, MonthsOn(k, b))
      /\ ~Earlier(a, MonthsOn(k, b)) => AtMost(MonthsOn(k, b), a)
  BY <1>5, Ordered
<1> QED
  BY <1>1, <1>3, <1>4, <1>6

-----------------------------------------------------------------------------
(* What deltas do to a datetime.                                            *)

LEMMA DeltaParts ==
  ASSUME NEW d, IsDelta(d)
  PROVE  DOMAIN d = Parts /\ Relative(d) /\ d.weekday \in {None} \cup WeekdayPart
BY DEF IsDelta, NoDelta, Parts, Relative

LEMMA AbsoluteIs ==
  ASSUME NEW a, IsDelta(a), NEW p \in RelativePart
  PROVE  Absolute(a)[p] >= 0
<1> DEFINE d == [q \in DOMAIN a |-> IF q \in RelativePart THEN Abs(a[q]) ELSE a[q]]
           minutes == d.minutes + Carry(d.seconds, 60)
           hours == d.hours + Carry(minutes, 60)
<1>1. \A q \in RelativePart : q \in DOMAIN a /\ a[q] \in Int
  BY DeltaParts DEF Relative
<1>2. \A q \in RelativePart : q \in DOMAIN d /\ d[q] \in Nat
  BY <1>1 DEF Abs
<1>3. Absolute(a) = Fix(d)
  BY DEF Absolute
<1>4. /\ d.seconds \in Nat /\ d.minutes \in Nat /\ d.hours \in Nat
      /\ d.days \in Nat /\ d.months \in Nat /\ d.years \in Nat
  BY <1>2 DEF RelativePart
<1>5. \A x \in Nat : /\ Keep(x, 12) \in Nat /\ Carry(x, 12) \in Nat
                    /\ Keep(x, 24) \in Nat /\ Carry(x, 24) \in Nat
                    /\ Keep(x, 60) \in Nat /\ Carry(x, 60) \in Nat
  BY DEF Keep, Carry, Abs, Sign
<1> HIDE DEF d
<1>6. minutes \in Nat
  <2>1. Carry(d.seconds, 60) \in Nat
    BY <1>4, <1>5
  <2> QED
    BY <1>4, <2>1
<1>7. hours \in Nat
  <2> HIDE DEF minutes
  <2>1. Carry(minutes, 60) \in Nat
    BY <1>5, <1>6
  <2> QED
    BY <1>4, <2>1
<1> HIDE DEF minutes, hours
<1>8. /\ Keep(d.seconds, 60) \in Nat /\ Keep(minutes, 60) \in Nat
      /\ Keep(hours, 24) \in Nat /\ d.days + Carry(hours, 24) \in Nat
      /\ Keep(d.months, 12) \in Nat /\ d.years + Carry(d.months, 12) \in Nat
  <2>1. Carry(hours, 24) \in Nat /\ Carry(d.months, 12) \in Nat
    BY <1>4, <1>5, <1>7
  <2>2. d.days + Carry(hours, 24) \in Nat /\ d.years + Carry(d.months, 12) \in Nat
    BY <1>4, <2>1
  <2> QED
    BY <1>4, <1>5, <1>6, <1>7, <2>2
<1>9. Relative(d)
  BY <1>2 DEF Relative
<1>10. \A q \in RelativePart : Fix(d)[q] \in Nat
  BY <1>8, <1>9, FixParts DEF RelativePart, minutes, hours
<1> QED
  BY <1>3, <1>10

\* Before its weekday, a sum depends on the other parts alone.
LEMMA OtherParts ==
  ASSUME NEW a, NEW b, DOMAIN a = Parts, DOMAIN b = Parts,
         \A p \in Parts \ {"weekday"} : a[p] = b[p], NEW dt
  PROVE  TimeReached(a, dt, MonthReached(a, dt)) = TimeReached(b, dt, MonthReached(b, dt))
<1>1. /\ a.year = b.year /\ a.month = b.month /\ a.day = b.day
      /\ a.hour = b.hour /\ a.minute = b.minute /\ a.second = b.second
      /\ a.years = b.years /\ a.months = b.months /\ a.days = b.days
      /\ a.hours = b.hours /\ a.minutes = b.minutes /\ a.seconds = b.seconds
      /\ a.leapdays = b.leapdays
  BY DEF Parts, RelativePart, AbsolutePart
<1>2. MonthReached(a, dt) = MonthReached(b, dt)
  BY <1>1 DEF MonthReached
<1>3. \A r : DayReached(a, dt, r) = DayReached(b, dt, r) /\ LeapDays(a, r) = LeapDays(b, r)
  BY <1>1 DEF DayReached, LeapDays
<1> QED
  BY <1>1, <1>2, <1>3 DEF TimeReached

LEMMA EqualSum ==
  ASSUME NEW a, NEW b, IsDelta(a), IsDelta(b), Equal(a, b), NEW dt
  PROVE  AddTo(a, dt) = AddTo(b, dt)
<1>1. TimeReached(a, dt, MonthReached(a, dt)) = TimeReached(b, dt, MonthReached(b, dt))
  BY OtherParts, DeltaParts DEF Equal
<1>2. ASSUME NEW to PROVE WeekdayReached(a, to) = WeekdayReached(b, to)
  <2>1. CASE a.weekday = b.weekday
    BY <2>1 DEF WeekdayReached
  <2>2. CASE a.weekday # b.weekday
    <3>1. /\ a.weekday # None /\ b.weekday # None /\ a.weekday.day = b.weekday.day
          /\ Or(a.weekday.n, 1) = 1 /\ Or(b.weekday.n, 1) = 1
      BY <2>2 DEF Equal, EqualWeekday
    <3>2. Jump(a.weekday, to.date) = Jump(b.weekday, to.date)
      BY <3>1 DEF Jump
    <3> QED
      BY <3>1, <3>2 DEF WeekdayReached
  <2> QED
    BY <2>1, <2>2
<1> QED
  BY <1>1, <1>2 DEF AddTo

LEMMA NoMonths ==
  ASSUME NEW dt \in Datetime
  PROVE  AddTo(NoDelta, dt) = dt
<1> DEFINE y == YearOf(dt.date)
           m == MonthOf(dt.date)
           r == MonthReached(SetMonths(NoDelta, 0), dt)
           d == SetMonths(NoDelta, 0)
<1>1. /\ y \in Int /\ m \in 1..12 /\ DayOf(dt.date) \in 1..DaysIn(y, m)
      /\ DaysIn(y, m) \in 28..31 /\ Ordinal(y, m, DayOf(dt.date)) = dt.date
  BY DateParts, Months DEF Datetime
<1>2. Plain(d) /\ Abs(d.months) < 12 /\ InMonths(d) = 0
  BY NoDeltaIsPlain, SetMonthsIs
<1>3. /\ r.year \in Int /\ r.month \in 1..12 /\ 12 * r.year + r.month = 12 * y + m
  <2> HIDE DEF d
  <2>1. LET q == MonthReached(d, dt)
        IN  /\ q.year \in Int /\ q.month \in 1..12
            /\ 12 * q.year + q.month = MonthIndex(dt) + 0
    BY <1>2, PlainMonth
  <2> QED
    BY <1>1, <2>1 DEF d, MonthIndex
<1>4. MonthsOn(0, dt) = At(Ordinal(r.year, r.month,
                             Lesser(DaysIn(r.year, r.month), DayOf(dt.date))), dt.time)
  BY MonthsOnIs
<1>5. AddTo(NoDelta, dt) = Later(MonthsOn(0, dt), 0)
  <2>1. InMonths(NoDelta) = 0 /\ InSeconds(NoDelta) = 0 /\ Abs(NoDelta.months) < 12
    BY NoDeltaIsPlain DEF InMonths, InSeconds, Abs, DaySeconds
  <2> QED
    BY <2>1, NoDeltaIsPlain, PlainSum
<1> HIDE DEF y, m, r, d
<1>6. r.year = y /\ r.month = m
  BY <1>1, <1>3, SameMonth
<1>7. Lesser(DaysIn(y, m), DayOf(dt.date)) = DayOf(dt.date)
  BY <1>1 DEF Lesser
<1>8. MonthsOn(0, dt) = At(dt.date, dt.time)
  BY <1>1, <1>4, <1>6, <1>7
<1>9. dt = At(dt.date, dt.time) /\ dt.date \in Int /\ dt.time \in Nat /\ dt.time < 86400
  BY DEF Datetime, At, DaySeconds
<1>10. Later(dt, 0) = dt
  <2> DEFINE t == dt.time
  <2>1. t \in Nat /\ t < 86400 /\ dt.date \in Int /\ Later(dt, 0) = At(dt.date + (t + 0) \div 86400, (t + 0) % 86400)
    BY <1>9 DEF Later, DaySeconds
  <2> HIDE DEF t
  <2>2. (t + 0) \div 86400 = 0 /\ (t + 0) % 86400 = t
    BY ONLY <2>1, SMT
  <2>3. dt.date + 0 = dt.date
    BY <1>9
  <2> QED
    BY <1>9, <2>1, <2>2, <2>3 DEF t
<1> QED
  BY <1>5, <1>8, <1>9, <1>10

\* The weekdays between two dates: with the first of them, and up to less than
\* a week after the last one.
LEMMA WeekdaysBetween ==
  ASSUME NEW lo \in Int, NEW hi \in Int, NEW s \in Int, NEW n \in Nat,
         lo <= s, s < lo + 7, s + 7 * (n - 1) <= hi, hi < s + 7 * n
  PROVE  Cardinality({x \in lo..hi : Weekday(x) = Weekday(s)}) = n
<1> DEFINE S == {x \in lo..hi : Weekday(x) = Weekday(s)}
           f == [i \in 1..n |-> s + 7 * (i - 1)]
<1>1. f \in [1..n -> S]
  <2>1. ASSUME NEW i \in 1..n PROVE s + 7 * (i - 1) \in S
    <3>1. s + 7 * (i - 1) \in lo..hi
      BY <2>1
    <3>2. Weekday(s + 7 * (i - 1)) = Weekday(s)
      BY <2>1 DEF Weekday
    <3> QED
      BY <3>1, <3>2
  <2> QED
    BY <2>1
<1>2. \A i, j \in 1..n : f[i] = f[j] => i = j
  OBVIOUS
<1>3. ASSUME NEW x \in S PROVE \E i \in 1..n : f[i] = x
  <2>1. x \in Int /\ lo <= x /\ x <= hi /\ (x + 6) % 7 = (s + 6) % 7
    BY DEF Weekday
  <2> DEFINE i == (x - s) \div 7 + 1
  <2>2. i \in Int /\ x = s + 7 * (i - 1)
    BY <2>1
  <2> HIDE DEF i
  <2>3. i \in 1..n
    BY <2>1, <2>2
  <2> QED
    BY <2>2, <2>3
<1> HIDE DEF S
<1>4. f \in Bijection(1..n, S)
  BY <1>1, <1>2, <1>3 DEF Bijection, Injection, Surjection, IsInjective
<1>5. ExistsBijection(1..n, S)
  BY <1>4 DEF ExistsBijection
<1>6. Cardinality(S) = n
  BY <1>5, FS_CountingElements
<1> QED
  BY <1>6 DEF S

LEMMA WeekdaySum ==
  ASSUME NEW w \in WeekdayPart, NEW dt \in Datetime
  PROVE  AddTo([NoDelta EXCEPT !.weekday = w], dt)
           = At(dt.date + Jump(w, dt.date), dt.time)
<1> DEFINE d == [NoDelta EXCEPT !.weekday = w]
<1>1. /\ DOMAIN NoDelta = Parts /\ DOMAIN d = Parts /\ d.weekday = w
      /\ \A p \in Parts \ {"weekday"} : d[p] = NoDelta[p]
  BY DEF NoDelta, Parts, AbsolutePart
<1>2. w # None
  BY NoneAssumption
<1> HIDE DEF d
<1>3. TimeReached(d, dt, MonthReached(d, dt))
        = TimeReached(NoDelta, dt, MonthReached(NoDelta, dt))
  BY <1>1, OtherParts
<1>4. TimeReached(NoDelta, dt, MonthReached(NoDelta, dt)) = dt
  BY NoMonths, NoDeltaIsPlain DEF AddTo, WeekdayReached, Plain
<1>5. AddTo(d, dt) = WeekdayReached(d, dt)
  BY <1>3, <1>4 DEF AddTo
<1> QED
  BY <1>1, <1>2, <1>5 DEF WeekdayReached, d

LEMMA JumpIs ==
  ASSUME NEW date \in Int, NEW w \in WeekdayPart
  PROVE  LET n == IF w.n \in {None, 0} THEN 1 ELSE w.n
             to == date + Jump(w, date)
             between == IF n > 0 THEN date..to ELSE to..date
         IN  /\ to \in Int /\ Weekday(to) = w.day
             /\ Cardinality({d \in between : Weekday(d) = w.day}) = Abs(n)
<1> DEFINE n == IF w.n \in {None, 0} THEN 1 ELSE w.n
           to == date + Jump(w, date)
           day == w.day
<1>1. day \in 0..6 /\ n \in Int /\ n # 0 /\ Or(w.n, 1) = n
  BY NoneAssumption DEF WeekdayPart, Or
<1> HIDE DEF n, day
<1>2. CASE n > 0
  <2> DEFINE s == date + ((7 - Weekday(date) + day) % 7)
  <2>1. to = date + ((n - 1) * 7 + ((7 - Weekday(date) + day) % 7))
    BY <1>1, <1>2 DEF Jump, day
  <2>2. /\ s \in Int /\ date <= s /\ s < date + 7 /\ Weekday(s) = day
        /\ to = s + 7 * (n - 1) /\ to \in Int
    BY <1>1, <2>1 DEF Weekday
  <2> HIDE DEF to, s
  <2>3. Weekday(to) = Weekday(s)
    BY <1>1, <2>2 DEF Weekday
  <2>4. n \in Nat /\ s + 7 * (n - 1) <= to /\ to < s + 7 * n
    BY <1>1, <1>2, <2>2
  <2>5. Cardinality({x \in date..to : Weekday(x) = Weekday(s)}) = n
    BY <2>2, <2>4, WeekdaysBetween
  <2>6. Abs(n) = n
    BY <1>1, <1>2 DEF Abs
  <2> QED
    BY <1>2, <2>2, <2>3, <2>5, <2>6 DEF to, n, day
<1>3. CASE n < 0
  <2>1. to = date + (-((-n - 1) * 7 + ((Weekday(date) - day) % 7)))
    BY <1>1, <1>3 DEF Jump, day
  <2> DEFINE late == (Weekday(date) - day) % 7
  <2>2. /\ late \in 0..6 /\ to = date - late - 7 * (-n - 1) /\ to \in Int
        /\ Weekday(date - late) = day
    BY <1>1, <2>1 DEF Weekday
  <2> HIDE DEF to, late
  <2>3. Weekday(to) = day
    BY <1>1, <2>2 DEF Weekday
  <2>4. /\ -n \in Nat /\ to < to + 7 /\ to <= to
        /\ to + 7 * (-n - 1) <= date /\ date < to + 7 * (-n)
    BY <1>1, <1>3, <2>2
  <2>5. Cardinality({x \in to..date : Weekday(x) = Weekday(to)}) = -n
    BY <2>2, <2>4, WeekdaysBetween
  <2>6. Abs(n) = -n /\ ~(n > 0)
    BY <1>1, <1>3 DEF Abs
  <2> QED
    BY <1>1, <1>3, <2>2, <2>3, <2>5, <2>6 DEF to, n, day
<1> QED
  BY <1>1, <1>2, <1>3

LEMMA FixZero ==
  ASSUME NEW d, DOMAIN d = Parts, \A p \in RelativePart : d[p] = 0
  PROVE  /\ DOMAIN Fix(d) = Parts
         /\ \A p \in Parts : Fix(d)[p] = d[p]
<1>1. Relative(d) /\ RelativePart \subseteq Parts
  BY DEF Relative, Parts
<1>2. /\ d.seconds = 0 /\ d.minutes = 0 /\ d.hours = 0
      /\ d.days = 0 /\ d.months = 0 /\ d.years = 0
  BY DEF RelativePart
<1>3. \A base \in {12, 24, 60} : Keep(0, base) = 0 /\ Carry(0, base) = 0
  BY DEF Keep, Carry, Abs
<1>4. Carry(d.seconds, 60) = 0 /\ d.minutes + Carry(d.seconds, 60) = 0
  BY <1>2, <1>3
<1>5. d.hours + Carry(d.minutes + Carry(d.seconds, 60), 60) = 0
  BY <1>2, <1>3, <1>4
<1>6. /\ Fix(d).seconds = 0 /\ Fix(d).minutes = 0 /\ Fix(d).hours = 0
      /\ Fix(d).days = 0 /\ Fix(d).months = 0 /\ Fix(d).years = 0
      /\ DOMAIN Fix(d) = DOMAIN d
      /\ \A p \in DOMAIN d \ RelativePart : Fix(d)[p] = d[p]
  BY <1>1, <1>2, <1>3, <1>4, <1>5, FixParts
<1>7. \A p \in RelativePart : Fix(d)[p] = 0
  BY <1>6 DEF RelativePart
<1> QED
  BY <1>6, <1>7

\* The month and the day that a day of the year is in.
LEMMA OfYearDayIs ==
  ASSUME NEW n \in 1..365, NEW d, DOMAIN d = Parts
  PROVE  \E m \in 1..12 :
           /\ OfYearDay(d, n) = [d EXCEPT !.month = m, !.day = n - MonthRange[m]]
           /\ MonthRange[m] < n /\ n <= MonthRange[m + 1]
<1> DEFINE In(i) == n <= YearDays[i] /\ \A j \in 1..(i - 1) : n > YearDays[j]
           m == CHOOSE i \in 1..12 : In(i)
<1>1. \A i \in 2..12 : YearDays[i - 1] = MonthRange[i]
  BY DEF YearDays, MonthRange
<1>2. \A i \in 1..11 : YearDays[i] = MonthRange[i + 1]
  BY DEF YearDays, MonthRange
<1>3. \A i \in 1..12 : \A j \in 1..(i - 1) : MonthRange[j + 1] <= MonthRange[i]
  BY DEF MonthRange
<1>4. \A i \in 1..13 : MonthRange[i] \in Nat
  BY DEF MonthRange
<1>5. MonthRange[1] = 0 /\ MonthRange[13] = 365 /\ YearDays[12] = 366
  BY DEF MonthRange, YearDays
<1>6. \E i \in 1..12 : MonthRange[i] < n /\ n <= MonthRange[i + 1]
  BY DEF MonthRange
<1>7. \E i \in 1..12 : In(i)
  <2>1. PICK i \in 1..12 : MonthRange[i] < n /\ n <= MonthRange[i + 1]
    BY <1>6
  <2>2. n <= YearDays[i]
    BY <1>2, <1>5, <2>1
  <2>3. ASSUME NEW j \in 1..(i - 1) PROVE n > YearDays[j]
    <3>1. j \in 1..11 /\ MonthRange[j + 1] <= MonthRange[i]
      BY <1>3, <2>1, <2>3
    <3>2. YearDays[j] = MonthRange[j + 1] /\ MonthRange[j + 1] \in Nat /\ MonthRange[i] \in Nat
      BY <1>2, <1>4, <3>1
    <3> QED
      BY <2>1, <3>1, <3>2
  <2> QED
    BY <2>2, <2>3
<1>8. m \in 1..12 /\ In(m)
  BY <1>7
<1>9. OfYearDay(d, n) = [d EXCEPT !.month = m, !.day = IF m = 1 THEN n ELSE n - YearDays[m - 1]]
  BY DEF OfYearDay
<1> HIDE DEF m
<1>10. (IF m = 1 THEN n ELSE n - YearDays[m - 1]) = n - MonthRange[m]
  BY <1>1, <1>5, <1>8
<1>11. MonthRange[m] < n
  <2>1. CASE m = 1
    BY <1>5, <2>1
  <2>2. CASE m # 1
    <3>1. m - 1 \in 1..(m - 1) /\ m \in 2..12
      BY <1>8, <2>2
    <3>2. n > YearDays[m - 1]
      BY <1>8, <3>1
    <3>3. YearDays[m - 1] = MonthRange[m] /\ MonthRange[m] \in Nat
      BY <1>1, <1>4, <3>1
    <3> QED
      BY <3>2, <3>3
  <2> QED
    BY <2>1, <2>2
<1>12. n <= MonthRange[m + 1]
  <2>1. CASE m = 12
    BY <1>5, <2>1
  <2>2. CASE m # 12
    BY <1>2, <1>8, <2>2
  <2> QED
    BY <2>1, <2>2
<1> QED
  BY <1>8, <1>9, <1>10, <1>11, <1>12

\* Midnight of 1 January, with another month and day.
LEMMA MonthAndDay ==
  ASSUME NEW y \in Int, NEW d, DOMAIN d = Parts, \A p \in RelativePart : d[p] = 0,
         \A p \in AbsolutePart \ {"month", "day"} : d[p] = None,
         d.month \in 1..12, d.day \in 1..DaysIn(y, d.month), d.leapdays \in Int
  PROVE  AddTo(d, Midnight(y, 1, 1))
           = At(Ordinal(y, d.month, d.day)
                  + IF d.month > 2 /\ IsLeap(y) THEN d.leapdays ELSE 0, 0)
<1> DEFINE dt == Midnight(y, 1, 1)
           m == d.month
           r == MonthReached(d, dt)
           leap == IF m > 2 /\ IsLeap(y) THEN d.leapdays ELSE 0
<1>1. /\ d.year = None /\ d.weekday = None
      /\ d.hour = None /\ d.minute = None /\ d.second = None
      /\ d.years = 0 /\ d.months = 0 /\ d.days = 0
      /\ d.hours = 0 /\ d.minutes = 0 /\ d.seconds = 0
  BY DEF RelativePart, AbsolutePart
<1>2. m \notin {None, 0} /\ d.day \notin {None, 0} /\ DaysIn(y, m) \in 28..31
  <2>1. DaysIn(y, m) \in 28..31
    BY Months
  <2>2. d.day \in Int /\ d.day # 0 /\ m \in Int /\ m # 0
    BY <2>1
  <2> QED
    BY <2>1, <2>2, NoneAssumption
<1>3. dt.time = 0 /\ YearOf(dt.date) = y
  <2>1. DaysIn(y, 1) \in 28..31
    BY Months
  <2>2. 1 \in 1..DaysIn(y, 1) /\ 1 \in 1..12
    BY <2>1
  <2>3. YearOf(Ordinal(y, 1, 1)) = y
    BY <2>2, OrdinalParts
  <2> QED
    BY <2>3 DEF Midnight, At
<1>4. r = [year |-> y, month |-> m]
  <2>1. r = MonthOfYear(y + 0, m + 0)
    BY <1>1, <1>2, <1>3 DEF MonthReached, Or
  <2>2. y + 0 = y /\ m + 0 = m /\ ~(m > 12) /\ ~(m < 1)
    OBVIOUS
  <2> QED
    BY <2>1, <2>2 DEF MonthOfYear
<1>5. DayReached(d, dt, r) = d.day
  BY <1>2, <1>4 DEF DayReached, Or, Lesser
<1>6. LeapDays(d, r) = leap /\ leap \in Int
  BY <1>4 DEF LeapDays
<1> HIDE DEF dt, leap
<1>7. TimeReached(d, dt, r)
        = Later(At(Ordinal(y, m, d.day) + (0 + leap),
                   (0 \div 3600) * 3600 + ((0 \div 60) % 60) * 60 + (0 % 60)),
                0 * 3600 + 0 * 60 + 0)
  BY <1>1, <1>3, <1>4, <1>5, <1>6 DEF TimeReached, IfGiven
<1>8. (0 \div 3600) * 3600 + ((0 \div 60) % 60) * 60 + (0 % 60) = 0 /\ 0 + leap = leap
      /\ 0 * 3600 + 0 * 60 + 0 = 0
  BY <1>6
<1>9. Ordinal(y, m, d.day) + leap \in Int
  BY <1>6, OrdinalParts
<1>10. TimeReached(d, dt, r) = At(Ordinal(y, m, d.day) + leap, 0)
  BY <1>7, <1>8, <1>9 DEF Later, At, DaySeconds
<1> QED
  BY <1>1, <1>10 DEF AddTo, WeekdayReached, dt, leap

\* The days of a year by their number, with and without 29 February.
DayInMonth(y, n, m) ==
  /\ n - MonthRange[m] \in 1..DaysIn(2023, m)
  /\ n - MonthRange[m] \in 1..DaysIn(y, m)
  /\ AddTo(YearDay(n), Midnight(y, 1, 1)) = At(NewYear(y) + n - 1, 0)
  /\ AddTo(NonLeapYearDay(n), Midnight(y, 1, 1))
       = At(Ordinal(y, m, n - MonthRange[m]), 0)
  /\ Ordinal(2023, m, n - MonthRange[m]) = Ordinal(2023, 1, 1) + n - 1

LEMMA YearDayIs ==
  ASSUME NEW y \in Int, NEW n \in 1..365
  PROVE  \E m \in 1..12 : DayInMonth(y, n, m)
<1> DEFINE drop == IF n > 59 THEN -1 ELSE 0
           base == [NoDelta EXCEPT !.leapdays = drop]
<1>1. /\ DOMAIN NoDelta = Parts /\ DOMAIN base = Parts /\ base.leapdays = drop
      /\ \A p \in Parts \ {"leapdays"} : base[p] = NoDelta[p]
      /\ NoDelta.leapdays = 0
      /\ \A p \in RelativePart : NoDelta[p] = 0
      /\ \A p \in AbsolutePart : NoDelta[p] = None
  BY DEF NoDelta, Parts, RelativePart, AbsolutePart
<1>2. PICK m \in 1..12 :
        /\ OfYearDay(base, n) = [base EXCEPT !.month = m, !.day = n - MonthRange[m]]
        /\ MonthRange[m] < n /\ n <= MonthRange[m + 1]
  BY <1>1, OfYearDayIs
<1>3. PICK k \in 1..12 :
        /\ OfYearDay(NoDelta, n) = [NoDelta EXCEPT !.month = k, !.day = n - MonthRange[k]]
        /\ MonthRange[k] < n /\ n <= MonthRange[k + 1]
  BY <1>1, OfYearDayIs
<1>4. k = m
  <2>1. \A i, j \in 1..12 : i < j => MonthRange[i + 1] <= MonthRange[j]
    BY DEF MonthRange
  <2>2. \A i \in 1..13 : MonthRange[i] \in Nat
    BY DEF MonthRange
  <2>3. MonthRange[k] \in Nat /\ MonthRange[m] \in Nat
        /\ MonthRange[k + 1] \in Nat /\ MonthRange[m + 1] \in Nat
    BY <2>2
  <2>4. CASE k < m
    <3>1. MonthRange[k + 1] <= MonthRange[m]
      BY <2>1, <2>4
    <3> QED
      BY <1>2, <1>3, <2>3, <3>1
  <2>5. CASE m < k
    <3>1. MonthRange[m + 1] <= MonthRange[k]
      BY <2>1, <2>5
    <3> QED
      BY <1>2, <1>3, <2>3, <3>1
  <2> QED
    BY <2>4, <2>5
<1> DEFINE day == n - MonthRange[m]
           e == OfYearDay(base, n)
           f == OfYearDay(NoDelta, n)
<1>5. /\ day \in 1..DaysIn(y, m) /\ day \in 1..DaysIn(2023, m)
      /\ Ordinal(2023, m, day) = Ordinal(2023, 1, 1) + n - 1
      /\ Ordinal(y, m, day) + (IF m > 2 /\ IsLeap(y) THEN drop ELSE 0) = NewYear(y) + n - 1
  <2>1. MonthRange[m] \in Nat /\ MonthRange[m + 1] \in Nat
    BY DEF MonthRange
  <2>2. day \in 1..DaysIn(y, m) /\ day \in 1..DaysIn(2023, m)
    BY <1>2, <2>1 DEF DaysIn, DaysBefore, MonthRange
  <2>3. ~IsLeap(2023)
    BY DEF IsLeap
  <2>4. NewYear(y) \in Int /\ NewYear(2023) \in Int
    BY NewYearNext
  <2>5. Ordinal(2023, m, day) = NewYear(2023) + MonthRange[m] + day - 1
        /\ Ordinal(2023, 1, 1) = NewYear(2023)
    BY <2>1, <2>3, <2>4 DEF Ordinal, DaysBefore, MonthRange
  <2>6. m > 2 <=> n > 59
    BY <1>2 DEF MonthRange
  <2>7. Ordinal(y, m, day)
          = NewYear(y) + (MonthRange[m] + (IF m > 2 /\ IsLeap(y) THEN 1 ELSE 0)) + day - 1
    BY DEF Ordinal, DaysBefore
  <2> QED
    BY <1>2, <2>1, <2>2, <2>4, <2>5, <2>6, <2>7
<1>6. /\ DOMAIN e = Parts /\ e.month = m /\ e.day = day /\ e.leapdays = drop
      /\ \A p \in RelativePart : e[p] = 0
      /\ \A p \in AbsolutePart \ {"month", "day"} : e[p] = None
  <2>1. e = [base EXCEPT !.month = m, !.day = day]
    BY <1>2
  <2> HIDE DEF base, e, day, drop
  <2>2. /\ DOMAIN e = Parts /\ {"month", "day"} \subseteq AbsolutePart
        /\ AbsolutePart \subseteq Parts /\ RelativePart \subseteq Parts
        /\ "leapdays" \in Parts \ (RelativePart \cup AbsolutePart)
        /\ RelativePart \cap AbsolutePart = {}
    BY <1>1, <2>1 DEF Parts, RelativePart, AbsolutePart
  <2>3. /\ e.month = m /\ e.day = day
        /\ \A p \in Parts \ {"month", "day"} : e[p] = base[p]
    BY <1>1, <2>1, <2>2
  <2>4. \A p \in Parts \ {"month", "day", "leapdays"} : e[p] = NoDelta[p]
    BY <1>1, <2>3
  <2> QED
    BY <1>1, <2>2, <2>3, <2>4
<1>7. /\ DOMAIN f = Parts /\ f.month = m /\ f.day = day /\ f.leapdays = 0
      /\ \A p \in RelativePart : f[p] = 0
      /\ \A p \in AbsolutePart \ {"month", "day"} : f[p] = None
  <2>1. f = [NoDelta EXCEPT !.month = m, !.day = day]
    BY <1>3, <1>4
  <2> HIDE DEF base, f, day, drop
  <2>2. /\ DOMAIN f = Parts /\ {"month", "day"} \subseteq AbsolutePart
        /\ AbsolutePart \subseteq Parts /\ RelativePart \subseteq Parts
        /\ "leapdays" \in Parts \ (RelativePart \cup AbsolutePart)
        /\ RelativePart \cap AbsolutePart = {}
    BY <1>1, <2>1 DEF Parts, RelativePart, AbsolutePart
  <2>3. /\ f.month = m /\ f.day = day
        /\ \A p \in Parts \ {"month", "day"} : f[p] = NoDelta[p]
    BY <1>1, <2>1, <2>2
  <2> QED
    BY <1>1, <2>2, <2>3
<1>8. YearDay(n) = Fix(e) /\ NonLeapYearDay(n) = Fix(f)
  BY DEF YearDay, NonLeapYearDay
<1>9. drop \in Int /\ day \in Int
  BY <1>5
<1> HIDE DEF e, f, drop, day
<1>10. AddTo(Fix(e), Midnight(y, 1, 1))
         = At(Ordinal(y, m, day) + IF m > 2 /\ IsLeap(y) THEN drop ELSE 0, 0)
  <2>1. /\ DOMAIN Fix(e) = Parts /\ Fix(e).month = m /\ Fix(e).day = day
        /\ Fix(e).leapdays = drop
        /\ \A p \in RelativePart : Fix(e)[p] = 0
        /\ \A p \in AbsolutePart \ {"month", "day"} : Fix(e)[p] = None
    BY <1>6, FixZero DEF Parts, RelativePart, AbsolutePart
  <2> QED
    BY <1>5, <1>9, <2>1, MonthAndDay
<1>11. AddTo(Fix(f), Midnight(y, 1, 1))
         = At(Ordinal(y, m, day) + IF m > 2 /\ IsLeap(y) THEN 0 ELSE 0, 0)
  <2>1. /\ DOMAIN Fix(f) = Parts /\ Fix(f).month = m /\ Fix(f).day = day
        /\ Fix(f).leapdays = 0
        /\ \A p \in RelativePart : Fix(f)[p] = 0
        /\ \A p \in AbsolutePart \ {"month", "day"} : Fix(f)[p] = None
    BY <1>7, FixZero DEF Parts, RelativePart, AbsolutePart
  <2> QED
    BY <1>5, <1>9, <2>1, MonthAndDay
<1>12. Ordinal(y, m, day) + (IF m > 2 /\ IsLeap(y) THEN 0 ELSE 0) = Ordinal(y, m, day)
  BY <1>5, OrdinalParts
<1> QED
  BY <1>5, <1>8, <1>10, <1>11, <1>12 DEF DayInMonth, day

-----------------------------------------------------------------------------
(* Easter.                                                                  *)

LeapDay(y) == IF IsLeap(y) THEN 1 ELSE 0

\* The days up to the last one of February and, in the Julian calendar, those
\* of its years.
Gregorian(y) == 365 * (y - 1) + y \div 4 - y \div 100 + y \div 400
Julian(y) == 365 * (y - 1) + y \div 4

LEMMA LeapCount ==
  ASSUME NEW y \in Int
  PROVE  /\ Gregorian(y) \in Int /\ Julian(y) \in Int /\ LeapDay(y) \in Int
         /\ NewYear(y) \in Int /\ NewYear(y) + LeapDay(y) = Gregorian(y) + 1
BY DEF NewYear, IsLeap, Gregorian, Julian, LeapDay

LEMMA EasterDateIs ==
  ASSUME NEW p \in -6..60
  PROVE  LET e == EasterDate(p)
         IN  /\ e.month \in 3..5 /\ e.day \in Int
             /\ MonthRange[e.month] + e.day = 87 + p
<1> DEFINE m == 3 + (p + 26) \div 30
           d == 1 + ((p + 27 + (p + 6) \div 40) % 31)
<1>1. EasterDate(p) = [month |-> m, day |-> d]
  BY DEF EasterDate
<1>2. m \in 3..5 /\ d \in Int
  OBVIOUS
<1>3. MonthRange[3] = 59 /\ MonthRange[4] = 90 /\ MonthRange[5] = 120
  BY DEF MonthRange
<1>4. m = 3 => 59 + d = 87 + p
  OBVIOUS
<1>5. m = 4 => 90 + d = 87 + p
  OBVIOUS
<1>6. m = 5 => 120 + d = 87 + p
  OBVIOUS
<1> HIDE DEF m, d
<1> QED
  BY <1>1, <1>2, <1>3, <1>4, <1>5, <1>6

LEMMA EasterOrdinal ==
  ASSUME NEW y \in Int, NEW p \in -6..60
  PROVE  Ordinal(y, EasterDate(p).month, EasterDate(p).day) = Gregorian(y) + 87 + p
<1> DEFINE m == EasterDate(p).month
           d == EasterDate(p).day
<1>1. m \in 3..5 /\ d \in Int /\ MonthRange[m] + d = 87 + p
  BY EasterDateIs
<1> HIDE DEF m, d
<1>2. MonthRange[m] \in Int
  BY <1>1 DEF MonthRange
<1>3. Ordinal(y, m, d) = NewYear(y) + (MonthRange[m] + LeapDay(y)) + d - 1
  BY <1>1 DEF Ordinal, DaysBefore, LeapDay
<1>4. Ordinal(y, m, d) = Gregorian(y) + 87 + p
  BY <1>1, <1>2, <1>3, LeapCount
<1> QED
  BY <1>4 DEF m, d

LEMMA JulianOrdinal ==
  ASSUME NEW y \in Int, NEW p \in -6..60
  PROVE  FromJulian(y, EasterDate(p).month, EasterDate(p).day) = Julian(y) + 85 + p
<1> DEFINE m == EasterDate(p).month
           d == EasterDate(p).day
           leap == IF y % 4 = 0 THEN 1 ELSE 0
<1>1. m \in 3..5 /\ d \in Int /\ MonthRange[m] + d = 87 + p
  BY EasterDateIs
<1> HIDE DEF m, d
<1>2. MonthRange[m] \in Int
  BY <1>1 DEF MonthRange
<1>3. FromJulian(y, m, d) = 365 * (y - 1) + (y - 1) \div 4 + MonthRange[m] + leap + d - 2
  BY <1>1 DEF FromJulian
<1>4. leap \in Int /\ 365 * (y - 1) + (y - 1) \div 4 + leap = Julian(y)
  BY DEF Julian
<1>5. (y - 1) \div 4 \in Int
  OBVIOUS
<1> HIDE DEF leap
<1> DEFINE n == 365 * (y - 1)
           q == (y - 1) \div 4
           r == MonthRange[m]
<1>6. n \in Int /\ q \in Int /\ r \in Int /\ n + q + leap = Julian(y) /\ r + d = 87 + p
  BY <1>1, <1>2, <1>4, <1>5
<1>7. FromJulian(y, m, d) = n + q + r + leap + d - 2
  BY <1>3
<1> HIDE DEF n, q, r
<1>8. FromJulian(y, m, d) = Julian(y) + 85 + p
  BY <1>1, <1>4, <1>6, <1>7
<1> QED
  BY <1>8 DEF m, d

\* The old method: the full moon is within thirty days, and Easter is the next
\* Sunday in the Julian calendar.
LEMMA OldEaster ==
  ASSUME NEW y \in EasterYears
  PROVE  \E p \in -6..29 :
           /\ Easter(y, 1) = EasterDate(p)
           /\ Easter(y, 2) = EasterDate(p + JulianDays(y, 2))
           /\ (Julian(y) + 85 + p + 6) % 7 = 6
<1> DEFINE i == (19 * (y % 19) + 15) % 30
           w == (y + y \div 4 + i) % 7
           p == i - w
<1>1. i \in 0..29 /\ w \in 0..6 /\ p \in -6..29
      /\ (Julian(y) + 85 + p + 6) % 7 = 6
  BY DEF Julian, EasterYears
<1>2. /\ FullMoon(y, 1, BeforeMoon(y)) = i /\ FullMoon(y, 2, BeforeMoon(y)) = i
      /\ MoonWeekday(y, 1, i) = w /\ MoonWeekday(y, 2, i) = w
  BY DEF FullMoon, MoonWeekday
<1>3. JulianDays(y, 1) = 0 /\ JulianDays(y, 2) \in Int
  BY DEF JulianDays, EasterYears
<1> HIDE DEF i, w
<1>4. i - w + 0 = p
  BY <1>1
<1>5. Easter(y, 1) = EasterDate(p) /\ Easter(y, 2) = EasterDate(p + JulianDays(y, 2))
  BY <1>2, <1>3, <1>4 DEF Easter, EasterAfter
<1> HIDE DEF p
<1> QED
  BY <1>1, <1>5

\* The western method: the full moon is at most on 18 April.
LEMMA WesternEaster ==
  ASSUME NEW y \in EasterYears
  PROVE  \E p \in -6..28 :
           /\ Easter(y, 3) = EasterDate(p)
           /\ (Gregorian(y) + 87 + p + 6) % 7 = 6
<1> DEFINE h == BeforeMoon(y)
           i == FullMoon(y, 3, h)
           w == MoonWeekday(y, 3, i)
           p == i - w
           late == (21 - (y % 19)) \div 11
<1>1. h \in 0..29
  BY DEF BeforeMoon, EasterYears
<1>2. late \in 0..1
  BY DEF EasterYears
<1>3. i = h - (h \div 28) * (1 - (h \div 28) * (29 \div (h + 1)) * late)
  BY DEF FullMoon
<1> HIDE DEF h, late, i
<1>4. i \in 0..28
  <2>1. CASE h < 28
    <3>1. h \div 28 = 0
      BY <1>1, <2>1
    <3>2. h \div 28 = 0 /\ i = h - 0 * (1 - 0 * (29 \div (h + 1)) * late)
      BY <1>3, <3>1
    <3>3. 29 \div (h + 1) \in Int
      BY <1>1
    <3>4. i = h
      BY <1>1, <1>2, <3>2, <3>3
    <3> QED
      BY <1>1, <2>1, <3>4
  <2>2. CASE h = 28
    <3>1. i = 28 - 1 * (1 - 1 * 1 * late)
      BY <1>3, <2>2
    <3> QED
      BY <1>2, <3>1
  <2>3. CASE h = 29
    <3>1. i = 29 - 1 * (1 - 1 * 0 * late)
      BY <1>3, <2>3
    <3> QED
      BY <1>2, <3>1
  <2> QED
    BY <1>1, <2>1, <2>2, <2>3
<1>5. w = (y + y \div 4 + i + 2 - y \div 100 + (y \div 100) \div 4) % 7
  BY DEF MoonWeekday
<1>6. (y \div 100) \div 4 = y \div 400
  BY DEF EasterYears
<1>7. w \in 0..6 /\ (Gregorian(y) + 87 + p + 6) % 7 = 6
  BY <1>4, <1>5, <1>6 DEF Gregorian, EasterYears
<1>8. JulianDays(y, 3) = 0
  BY DEF JulianDays
<1> HIDE DEF w
<1>9. p \in -6..28 /\ i - w + 0 = p
  BY <1>4, <1>7
<1>10. Easter(y, 3) = EasterDate(p)
  BY <1>8, <1>9 DEF Easter, EasterAfter, i, w, h
<1> QED
  BY <1>7, <1>9, <1>10

LEMMA EasterAgrees ==
  ASSUME NEW y \in EasterYears
  PROVE  LET julian == Easter(y, 1)
             orthodox == Easter(y, 2)
             western == Easter(y, 3)
             date == Ordinal(y, western.month, western.day)
         IN  /\ FromJulian(y, julian.month, julian.day)
                  = Ordinal(y, orthodox.month, orthodox.day)
             /\ Weekday(Ordinal(y, orthodox.month, orthodox.day)) = 6
             /\ Weekday(date) = 6
             /\ Ordinal(y, 3, 22) <= date /\ date <= Ordinal(y, 4, 25)
<1> DEFINE j == JulianDays(y, 2)
           yj == Julian(y)
           yg == Gregorian(y)
<1>1. y \in Int
  BY DEF EasterYears
<1>2. yj \in Int /\ yg \in Int /\ j \in 10..28 /\ yg + 2 + j = yj
  BY DEF JulianDays, Julian, Gregorian, EasterYears
<1>3. PICK p \in -6..29 :
        /\ Easter(y, 1) = EasterDate(p) /\ Easter(y, 2) = EasterDate(p + j)
        /\ (yj + 85 + p + 6) % 7 = 6
  BY OldEaster
<1>4. PICK q \in -6..28 :
        /\ Easter(y, 3) = EasterDate(q) /\ (yg + 87 + q + 6) % 7 = 6
  BY WesternEaster
<1> HIDE DEF j
<1>5. p \in -6..60 /\ q \in -6..60 /\ p + j \in -6..60
  BY <1>2
<1>6. FromJulian(y, Easter(y, 1).month, Easter(y, 1).day) = yj + 85 + p
  BY <1>1, <1>3, <1>5, JulianOrdinal
<1>7. Ordinal(y, Easter(y, 2).month, Easter(y, 2).day) = yg + 87 + (p + j)
  BY <1>1, <1>3, <1>5, EasterOrdinal
<1>8. Ordinal(y, Easter(y, 3).month, Easter(y, 3).day) = yg + 87 + q
  BY <1>1, <1>4, <1>5, EasterOrdinal
<1>9. Ordinal(y, 3, 22) = yg + 81 /\ Ordinal(y, 4, 25) = yg + 115
  <2>1. /\ Ordinal(y, 3, 22) = NewYear(y) + (59 + LeapDay(y)) + 22 - 1
        /\ Ordinal(y, 4, 25) = NewYear(y) + (90 + LeapDay(y)) + 25 - 1
    BY DEF Ordinal, DaysBefore, MonthRange, LeapDay
  <2> QED
    BY <1>1, <2>1, LeapCount
<1> HIDE DEF yj, yg
<1>10. yg + 87 + (p + j) = yj + 85 + p
  BY <1>2
<1>11. /\ yg + 81 <= yg + 87 + q /\ yg + 87 + q <= yg + 115
  BY <1>2
<1> QED
  BY <1>3, <1>4, <1>6, <1>7, <1>8, <1>9, <1>10, <1>11 DEF Weekday

-----------------------------------------------------------------------------
(* The computations.  Each is done in one step, so that what holds of every *)
(* call holds of every behaviour.                                           *)

LEMMA CallAlways == DSpec => [](call \in Calls \cup {None})
<1>1. DInit => call \in Calls \cup {None}
  BY DEF DInit
<1>2. call \in Calls \cup {None} /\ [DNext]_vars => (call \in Calls \cup {None})'
  BY DEF DNext, vars
<1> QED
  BY <1>1, <1>2, PTL DEF DSpec

\* What a call is computed from.
LEMMA CallOf ==
  ASSUME call \in Calls
  PROVE  /\ call.op = "diff" => call.a \in Datetime /\ call.b \in Datetime
         /\ call.op = "weekday" =>
              /\ [day |-> call.day, n |-> call.n] \in WeekdayPart
              /\ call.dt \in Datetime
         /\ call.op = "yearday" => call.day \in 1..365 /\ call.year \in Int
         /\ call.op = "arithmetic" =>
              IsDelta(call.a) /\ IsDelta(call.b) /\ call.factor \in Int
         /\ call.op = "equal" => IsDelta(call.a) /\ IsDelta(call.b)
         /\ call.op = "easter" => call.year \in EasterYears
<1>1. CASE call \in [op : {"diff"}, a : Moments, b : Moments]
  BY <1>1, DateutilAssumption
<1>2. CASE call \in [op : {"weekday"}, day : 0..6, n : {None} \cup (-2..2), dt : Moments]
  BY <1>2, DateutilAssumption DEF WeekdayPart
<1>3. CASE call \in [op : {"yearday"}, day : 1..365, year : {YearOf(dt.date) : dt \in Moments}]
  <2>1. call.year \in Int
    BY <1>3, DateutilAssumption, DateParts DEF Datetime
  <2> QED
    BY <1>3, <2>1
<1>4. CASE call \in [op : {"arithmetic"}, a : Deltas, b : Deltas, factor : {-3, 0, 2}]
  BY <1>4, DateutilAssumption
<1>5. CASE call \in [op : {"equal"}, a : Deltas, b : Deltas]
  BY <1>5, DateutilAssumption
<1>6. CASE call \in [op : {"easter"}, year : Years]
  BY <1>6, DateutilAssumption
<1>7. CASE call \in UNION {[op : {"zone"}, zone : {z}, utc : Instants(z)] : z \in Zones}
  BY <1>7
<1> QED
  BY <1>1, <1>2, <1>3, <1>4, <1>5, <1>6, <1>7 DEF Calls

\* The difference of any two datetimes takes the second to the first, and
\* counts as many whole months as fit between them (relativedelta.py:112-169).
THEOREM DiffsAreExact == DSpec => []DiffExact
<1>1. call \in Calls \cup {None} => DiffExact
  <2> SUFFICES ASSUME call \in Calls, call.op = "diff" PROVE DiffExact
    BY DEF DiffExact
  <2>1. call.a \in Datetime /\ call.b \in Datetime
    BY CallOf
  <2> QED
    BY <2>1, DiffIs DEF DiffExact
<1> QED
  BY <1>1, CallAlways, PTL

LEMMA NthWeekdayIs ==
  ASSUME call \in Calls
  PROVE  NthWeekday
<1> SUFFICES ASSUME call.op = "weekday" PROVE NthWeekday
  BY DEF NthWeekday
<1> DEFINE w == [day |-> call.day, n |-> call.n]
           date == call.dt.date
           n == IF call.n \in {None, 0} THEN 1 ELSE call.n
           to == date + Jump(w, date)
           between == IF n > 0 THEN date..to ELSE to..date
<1>1. w \in WeekdayPart /\ call.dt \in Datetime /\ w.n = call.n /\ w.day = call.day
  BY CallOf
<1>2. date \in Int
  BY <1>1 DEF Datetime
<1>3. AddTo([NoDelta EXCEPT !.weekday = w], call.dt) = At(to, call.dt.time)
  BY <1>1, WeekdaySum
<1>4. /\ Weekday(to) = call.day
      /\ Cardinality({d \in between : Weekday(d) = call.day}) = Abs(n)
  <2> DEFINE m == IF w.n \in {None, 0} THEN 1 ELSE w.n
             span == IF m > 0 THEN date..to ELSE to..date
  <2>1. \A x \in Int, v \in WeekdayPart :
          LET k == IF v.n \in {None, 0} THEN 1 ELSE v.n
              there == x + Jump(v, x)
              days == IF k > 0 THEN x..there ELSE there..x
          IN  /\ Weekday(there) = v.day
              /\ Cardinality({d \in days : Weekday(d) = v.day}) = Abs(k)
    BY JumpIs
  <2> HIDE DEF w, date
  <2>2. /\ Weekday(to) = w.day
        /\ Cardinality({d \in span : Weekday(d) = w.day}) = Abs(m)
    BY <1>1, <1>2, <2>1
  <2>3. m = n /\ span = between
    BY <1>1
  <2> HIDE DEF m, span, n, between, to
  <2> QED
    BY <1>1, <2>2, <2>3
<1>5. At(to, call.dt.time).date = to /\ At(to, call.dt.time).time = call.dt.time
  BY DEF At
<1> HIDE DEF to
<1> QED
  BY <1>3, <1>4, <1>5 DEF NthWeekday

LEMMA YearDayReachedIs ==
  ASSUME call \in Calls
  PROVE  YearDayReached
<1> SUFFICES ASSUME call.op = "yearday" PROVE YearDayReached
  BY DEF YearDayReached
<1> DEFINE y == call.year
           n == call.day
<1>1. y \in Int /\ n \in 1..365
  BY CallOf
<1> HIDE DEF y, n
<1>2. PICK m \in 1..12 : DayInMonth(y, n, m)
  BY <1>1, YearDayIs
<1> DEFINE d == n - MonthRange[m]
<1> HIDE DEF d
<1>3. d \in 1..DaysIn(2023, m) /\ d \in 1..DaysIn(y, m)
  BY <1>2 DEF DayInMonth, d
<1>4. /\ MonthOf(Ordinal(y, m, d)) = m /\ DayOf(Ordinal(y, m, d)) = d
      /\ MonthOf(Ordinal(2023, m, d)) = m /\ DayOf(Ordinal(2023, m, d)) = d
  BY <1>1, <1>3, OrdinalParts
<1>5. AddTo(YearDay(n), Midnight(y, 1, 1)).date = Midnight(y, 1, 1).date + n - 1
  <2>1. Ordinal(y, 1, 1) = NewYear(y)
    BY <1>1, NewYearNext DEF Ordinal, DaysBefore, MonthRange
  <2> QED
    BY <1>2, <2>1 DEF DayInMonth, At, Midnight
<1>6. AddTo(NonLeapYearDay(n), Midnight(y, 1, 1)).date = Ordinal(y, m, d)
  BY <1>2 DEF DayInMonth, At, d
<1>7. Ordinal(2023, 1, 1) + n - 1 = Ordinal(2023, m, d)
  BY <1>2 DEF DayInMonth, d
<1> QED
  BY <1>4, <1>5, <1>6, <1>7 DEF YearDayReached, y, n

\* A weekday leads to the n-th such day from a datetime on or back, and a day
\* of the year to that day, with or without 29 February, whatever the datetime
\* and the year (relativedelta.py:208-227, 384-401).
THEOREM PartsAreReached == DSpec => []PartsReached
<1>1. call \in Calls \cup {None} => PartsReached
  BY NthWeekdayIs, YearDayReachedIs DEF PartsReached, NthWeekday, YearDayReached
<1> QED
  BY <1>1, CallAlways, PTL

LEMMA TotalsAre ==
  ASSUME NEW a, IsDelta(a)
  PROVE  InMonths(a) \in Int /\ InSeconds(a) \in Int
BY DEF IsDelta, RelativePart, InMonths, InSeconds, DaySeconds

LEMMA ArithmeticIs ==
  ASSUME call \in Calls
  PROVE  ArithmeticExact
<1> SUFFICES ASSUME call.op = "arithmetic" PROVE ArithmeticExact
  BY DEF ArithmeticExact
<1> DEFINE a == call.a
           b == call.b
           k == call.factor
<1>1. IsDelta(a) /\ IsDelta(b) /\ k \in Int
  BY CallOf
<1> HIDE DEF a, b, k
<1>2. /\ DOMAIN a = DOMAIN b /\ Relative(a) /\ Relative(b)
      /\ InMonths(a) \in Int /\ InSeconds(a) \in Int
  BY <1>1, DeltaParts, TotalsAre
<1>3. /\ InMonths(Sum(a, b)) = InMonths(a) + InMonths(b)
      /\ InSeconds(Sum(a, b)) = InSeconds(a) + InSeconds(b)
      /\ InMonths(Difference(a, b)) = InMonths(a) - InMonths(b)
      /\ InSeconds(Difference(a, b)) = InSeconds(a) - InSeconds(b)
      /\ InMonths(Negation(a)) = -InMonths(a)
      /\ InSeconds(Negation(a)) = -InSeconds(a)
      /\ Normal(Sum(a, b)) /\ Normal(Difference(a, b)) /\ Normal(Negation(a))
      /\ InFloat(a, k) => /\ InMonths(Product(a, k)) = InMonths(a) * k
                          /\ InSeconds(Product(a, k)) = InSeconds(a) * k
                          /\ Normal(Product(a, k))
  BY <1>1, <1>2, ArithmeticKeeps
<1>4. InMonths(a) * k = k * InMonths(a) /\ InSeconds(a) * k = k * InSeconds(a)
  <2> DEFINE m == InMonths(a)
             s == InSeconds(a)
  <2>1. m \in Int /\ s \in Int
    BY <1>2
  <2> HIDE DEF m, s
  <2>2. m * k = k * m /\ s * k = k * s
    BY <1>1, <2>1
  <2> QED
    BY <2>2 DEF m, s
<1>5. \A p \in RelativePart : Absolute(a)[p] >= 0
  BY <1>1, AbsoluteIs
<1> QED
  BY <1>3, <1>4, <1>5 DEF ArithmeticExact, Normal, a, b, k

\* The operators on deltas lose nothing and leave no unit with more than it
\* holds, a product as long as its numbers are exact as floats; equal deltas do
\* the same to every datetime, and a delta without parts does nothing
\* (relativedelta.py:231-262, 405-545).
THEOREM DeltasAreExact == DSpec => []DeltasExact
<1>1. ASSUME call \in Calls PROVE EqualActsAlike
  <2> SUFFICES ASSUME call.op = "equal", NEW dt \in Moments
               PROVE  /\ Equal(call.a, call.b) => AddTo(call.a, dt) = AddTo(call.b, dt)
                      /\ ~NonZero(call.a) => AddTo(call.a, dt) = dt
    BY DEF EqualActsAlike
  <2>1. IsDelta(call.a) /\ IsDelta(call.b) /\ dt \in Datetime
    BY <1>1, CallOf, DateutilAssumption
  <2> QED
    BY <2>1, EqualSum, NoMonths DEF NonZero
<1>2. call \in Calls \cup {None} => DeltasExact
  BY <1>1, ArithmeticIs DEF DeltasExact, ArithmeticExact, EqualActsAlike
<1> QED
  BY <1>2, CallAlways, PTL

\* In every year that the algorithms are valid in, the old method gives the
\* same day in both calendars, and the western one a Sunday between 22 March
\* and 25 April (easter.py:25-89).
THEOREM EastersAlwaysAgree == DSpec => []EastersAgree
<1>1. call \in Calls \cup {None} => EastersAgree
  <2> SUFFICES ASSUME call \in Calls, call.op = "easter" PROVE EastersAgree
    BY DEF EastersAgree
  <2>1. call.year \in EasterYears
    BY CallOf
  <2> QED
    BY <2>1, EasterAgrees DEF EastersAgree
<1> QED
  BY <1>1, CallAlways, PTL

-----------------------------------------------------------------------------
(* The turns of a rule.                                                     *)

\* The least of some numbers is the one with the fewest numbers up to it:
\* strict inclusion of finite sets is well-founded.
LEMMA MinIs ==
  ASSUME NEW T \in SUBSET Nat, T # {}
  PROVE  Min(T) \in T /\ \A u \in T : Min(T) <= u
<1> DEFINE Upto(k) == T \cap (0..k)
           D == {Upto(k) : k \in T}
<1>1. D \subseteq FiniteSubsetsOf(Nat)
  <2> SUFFICES ASSUME NEW k \in T PROVE Upto(k) \in FiniteSubsetsOf(Nat)
    OBVIOUS
  <2>1. IsFiniteSet(0..k)
    BY FS_Interval
  <2>2. IsFiniteSet(Upto(k))
    BY <2>1, FS_Subset
  <2> QED
    BY <2>2 DEF FiniteSubsetsOf
<1>2. IsWellFoundedOn(StrictSubsetOrdering(Nat), FiniteSubsetsOf(Nat))
  BY FS_StrictSubsetOrderingWellFounded
<1>3. D # {}
  OBVIOUS
<1>4. \E B \in D : \A C \in D : ~ (<<C, B>> \in StrictSubsetOrdering(Nat))
  <2> HIDE DEF D
  <2> QED
    BY <1>1, <1>2, <1>3, WFMin
<1>5. PICK k \in T : \A u \in T : <<Upto(u), Upto(k)>> \notin StrictSubsetOrdering(Nat)
  BY <1>4
<1>6. ASSUME NEW u \in T, u < k PROVE FALSE
  <2>1. Upto(u) \subseteq Upto(k) /\ k \in Upto(k) /\ k \notin Upto(u)
    BY <1>6
  <2>2. Upto(u) \in SUBSET Nat /\ Upto(k) \in SUBSET Nat /\ Upto(u) # Upto(k)
    BY <2>1
  <2> HIDE DEF Upto
  <2>3. <<Upto(u), Upto(k)>> \in StrictSubsetOrdering(Nat)
    BY <2>1, <2>2 DEF StrictSubsetOrdering
  <2> QED
    BY <2>3, <1>5
<1>7. \A u \in T : k <= u
  BY <1>6
<1> QED
  BY <1>7 DEF Min

\* The greatest of some numbers has the least distance from a bound.
LEMMA MaxIs ==
  ASSUME NEW n \in Nat, NEW T \in SUBSET (0..n), T # {}
  PROVE  Max(T) \in T /\ \A u \in T : u <= Max(T)
<1> DEFINE D == {n - t : t \in T}
<1>1. D \in SUBSET Nat /\ D # {}
  <2>1. \A t \in T : n - t \in Nat
    OBVIOUS
  <2> QED
    BY <2>1
<1>2. PICK d \in D : \A e \in D : d <= e
  <2> HIDE DEF D
  <2> QED
    BY <1>1, MinIs
<1>3. PICK t \in T : d = n - t
  BY <1>2
<1>4. \A u \in T : u <= t
  <2> SUFFICES ASSUME NEW u \in T PROVE u <= t
    OBVIOUS
  <2>1. n - t <= n - u
    BY <1>2, <1>3
  <2> QED
    BY <2>1
<1> QED
  BY <1>4 DEF Max

LEMMA GcdIs ==
  ASSUME NEW a \in Nat \ {0}, NEW b \in Nat \ {0}
  PROVE  /\ Gcd(a, b) \in Nat \ {0}
         /\ a % Gcd(a, b) = 0 /\ b % Gcd(a, b) = 0
<1> DEFINE T == {d \in 1..Lesser(a, b) : a % d = 0 /\ b % d = 0}
<1>1. Lesser(a, b) \in Nat /\ 1 <= Lesser(a, b)
  BY DEF Lesser
<1>2. 1 \in T /\ T \in SUBSET (0..Lesser(a, b))
  BY <1>1
<1> HIDE DEF T
<1>3. Max(T) \in T
  BY <1>1, <1>2, MaxIs
<1>4. Gcd(a, b) = Max(T)
  BY DEF Gcd, T
<1> HIDE DEF Gcd
<1>5. Gcd(a, b) \in T
  BY <1>3, <1>4
<1> QED
  BY <1>1, <1>5 DEF T

\* A time of a turn: the day may be too much for the month.
Place == [year : Int, month : 1..12, day : 1..31, time : {t \in Nat : t < DaySeconds}]

\* In the frequencies whose turns are days or weeks it is a date.
OnCalendar(r, a) == Yearly(r) \/ Monthly(r) \/ a.day <= DaysIn(a.year, a.month)

\* The arguments that no BY part changes.
Stepped(r) == r.freq \in Frequency /\ r.interval \in Nat \ {0} /\ r.wkst \in 0..6

LEMMA MonthsLaterIs ==
  ASSUME NEW a \in Place, NEW n \in Nat \ {0}
  PROVE  MonthsLater(a, n) \in Place /\ Before(a, MonthsLater(a, n))
<1> DEFINE k == a.month - 1 + n
           b == MonthsLater(a, n)
<1>1. a.year \in Int /\ a.month \in 1..12 /\ k \in Nat /\ a.month <= k
  BY DEF Place
<1>2. /\ k \div 12 \in Nat /\ k % 12 \in 0..11
      /\ k \div 12 = 0 => k % 12 = k
  BY <1>1
<1>3. b = [year |-> a.year + k \div 12, month |-> 1 + (k % 12), day |-> a.day,
           time |-> a.time]
  <2>1. a = [year |-> a.year, month |-> a.month, day |-> a.day, time |-> a.time]
    BY DEF Place
  <2>2. b = [a EXCEPT !.year = a.year + k \div 12, !.month = 1 + (k % 12)]
    BY DEF MonthsLater
  <2> HIDE DEF b, k
  <2> QED
    BY <2>1, <2>2
<1> HIDE DEF k
<1>4. /\ b.year = a.year + k \div 12 /\ b.month = 1 + (k % 12)
      /\ b \in Place
  <2>1. a.year + k \div 12 \in Int /\ 1 + (k % 12) \in 1..12
    BY <1>1, <1>2
  <2> QED
    BY <1>3, <2>1 DEF Place
<1> HIDE DEF b, k
<1> QED
  BY <1>1, <1>2, <1>4 DEF Before, b

\* A later date has a greater year, month or day, in this order.
LEMMA DaysLaterIs ==
  ASSUME NEW a \in Place, a.day <= DaysIn(a.year, a.month), NEW n \in Nat,
         NEW t \in Nat, t < DaySeconds, n = 0 => a.time < t
  PROVE  LET b == DaysLater(a, n, t)
         IN  b \in Place /\ b.day <= DaysIn(b.year, b.month) /\ Before(a, b)
<1> DEFINE date == Ordinal(a.year, a.month, a.day)
           y == YearOf(date + n)
           m == MonthOf(date + n)
           d == DayOf(date + n)
           b == DaysLater(a, n, t)
<1>1. /\ a.year \in Int /\ a.month \in 1..12 /\ a.day \in 1..DaysIn(a.year, a.month)
      /\ a = [year |-> a.year, month |-> a.month, day |-> a.day, time |-> a.time]
      /\ a.time \in Nat
  <2>1. a.year \in Int /\ a.month \in 1..12 /\ a.day \in 1..31 /\ a.time \in Nat
    BY DEF Place
  <2>2. DaysIn(a.year, a.month) \in 28..31
    BY <2>1, Months
  <2>3. a.day \in 1..DaysIn(a.year, a.month)
    BY <2>1, <2>2
  <2> QED
    BY <2>1, <2>3 DEF Place
<1>2. date \in Int /\ YearOf(date) = a.year /\ MonthOf(date) = a.month /\ DayOf(date) = a.day
  BY <1>1, OrdinalParts
<1>3. /\ y \in Int /\ m \in 1..12 /\ d \in 1..DaysIn(y, m) /\ Ordinal(y, m, d) = date + n
      /\ DaysIn(y, m) \in 28..31
  <2>1. /\ y \in Int /\ m \in 1..12 /\ d \in 1..DaysIn(y, m)
        /\ Ordinal(y, m, d) = date + n
    BY <1>2, DateParts
  <2> HIDE DEF y, m, d
  <2> QED
    BY <2>1, Months
<1>4. b = [year |-> y, month |-> m, day |-> d, time |-> t]
  BY DEF DaysLater, OnDate
<1>5. n = 0 => y = a.year /\ m = a.month /\ d = a.day
  BY <1>2
<1> HIDE DEF b, y, m, d
<1>6. b \in Place /\ b.day <= DaysIn(b.year, b.month)
  BY <1>3, <1>4 DEF Place
<1>7. ASSUME n = 0 PROVE Before(a, b)
  <2>1. b = [a EXCEPT !.time = b.time]
    BY <1>1, <1>4, <1>5, <1>7
  <2> QED
    BY <1>4, <1>7, <2>1 DEF Before
<1>8. ASSUME n # 0 PROVE Before(a, b)
  <2>1. date < date + n
    BY <1>2, <1>8
  <2> HIDE DEF date
  <2>2. ~(12 * y + m < 12 * a.year + a.month)
    BY <1>1, <1>2, <1>3, <2>1, EarlierMonth DEF date
  <2>3. CASE y = a.year /\ m = a.month
    <3>1. DaysBefore(y, m) \in Int /\ NewYear(y) \in Int
      <4>1. DaysBefore(y, m) \in Nat
        BY <1>3, Months
      <4>2. NewYear(y) \in Int
        BY <1>3, NewYearNext
      <4> QED
        BY <4>1, <4>2
    <3>2. a.day < d
      BY <1>1, <1>3, <2>1, <2>3, <3>1 DEF Ordinal, date
    <3> QED
      BY <1>4, <2>3, <3>2 DEF Before
  <2>4. CASE ~(y = a.year /\ m = a.month)
    <3>1. a.year < y \/ (a.year = y /\ a.month < m)
      BY <1>1, <1>3, <2>2, <2>4
    <3> QED
      BY <1>4, <3>1 DEF Before
  <2> QED
    BY <2>3, <2>4
<1> QED
  BY <1>6, <1>7, <1>8 DEF b

\* The units of the frequencies below a day divide it.
LEMMA UnitIs ==
  ASSUME NEW r, Timed(r)
  PROVE  /\ Unit(r) \in Nat \ {0} /\ Base(r) \in Nat \ {0}
         /\ \A t \in Nat : t < DaySeconds => t \div Unit(r) < Base(r)
         /\ \A t \in Nat : t \div Unit(r) \in Nat /\ t % Unit(r) \in Nat /\ t % Unit(r) < Unit(r)
         /\ \A t \in Nat : t = (t \div Unit(r)) * Unit(r) + (t % Unit(r))
         /\ \A x, z \in Nat : x < Base(r) /\ z < Unit(r) => x * Unit(r) + z < DaySeconds
         /\ \A x, y, z \in Nat : x < y => x * Unit(r) + z < y * Unit(r) + z
<1>1. CASE r.freq = "HOURLY"
  <2>1. Unit(r) = 3600 /\ Base(r) = 24
    BY <1>1, SMT DEF Unit, Base, DaySeconds
  <2>2. \A t \in Nat : t < 86400 => t \div 3600 < 24
    BY ONLY SMT
  <2>3. \A t \in Nat : t \div 3600 \in Nat /\ t % 3600 \in Nat /\ t % 3600 < 3600
    BY ONLY SMT
  <2>4. \A t \in Nat : t = (t \div 3600) * 3600 + (t % 3600)
    BY ONLY SMT
  <2>5. \A x, z \in Nat : x < 24 /\ z < 3600 => x * 3600 + z < 86400
    BY ONLY SMT
  <2>6. \A x, y, z \in Nat : x < y => x * 3600 + z < y * 3600 + z
    BY ONLY SMT
  <2> QED
    BY <2>1, <2>2, <2>3, <2>4, <2>5, <2>6, SMT DEF DaySeconds
<1>2. CASE r.freq = "MINUTELY"
  <2>1. Unit(r) = 60 /\ Base(r) = 1440
    BY <1>2, SMT DEF Unit, Base, DaySeconds
  <2>2. \A t \in Nat : t < 86400 => t \div 60 < 1440
    BY ONLY SMT
  <2>3. \A t \in Nat : t \div 60 \in Nat /\ t % 60 \in Nat /\ t % 60 < 60
    BY ONLY SMT
  <2>4. \A t \in Nat : t = (t \div 60) * 60 + (t % 60)
    BY ONLY SMT
  <2>5. \A x, z \in Nat : x < 1440 /\ z < 60 => x * 60 + z < 86400
    BY ONLY SMT
  <2>6. \A x, y, z \in Nat : x < y => x * 60 + z < y * 60 + z
    BY ONLY SMT
  <2> QED
    BY <2>1, <2>2, <2>3, <2>4, <2>5, <2>6, SMT DEF DaySeconds
<1>3. CASE r.freq = "SECONDLY"
  <2>1. Unit(r) = 1 /\ Base(r) = 86400
    BY <1>3, SMT DEF Unit, Base, DaySeconds
  <2>2. \A t \in Nat : t < 86400 => t \div 1 < 86400
    BY ONLY SMT
  <2>3. \A t \in Nat : t \div 1 \in Nat /\ t % 1 \in Nat /\ t % 1 < 1
    BY ONLY SMT
  <2>4. \A t \in Nat : t = (t \div 1) * 1 + (t % 1)
    BY ONLY SMT
  <2>5. \A x, z \in Nat : x < 86400 /\ z < 1 => x * 1 + z < 86400
    BY ONLY SMT
  <2>6. \A x, y, z \in Nat : x < y => x * 1 + z < y * 1 + z
    BY ONLY SMT
  <2> QED
    BY <2>1, <2>2, <2>3, <2>4, <2>5, <2>6, SMT DEF DaySeconds
<1> QED
  BY <1>1, <1>2, <1>3 DEF Timed

\* The next time lies some intervals after the time it is taken from, which is
\* never before that of the turn.
LEMMA JumpedIs ==
  ASSUME NEW r, Timed(r), Stepped(r), NEW a \in Place, a.day <= DaysIn(a.year, a.month),
         NEW f \in BOOLEAN, NEW k \in Nat \ {0}
  PROVE  LET from == TimeFrom(r, a, f)
             b == DaysLater(a, (from + k * r.interval) \div Base(r), TimeAfter(r, a, from, k))
         IN  b \in Place /\ b.day <= DaysIn(b.year, b.month) /\ Before(a, b)
<1> DEFINE u == Unit(r)
           base == Base(r)
           now == a.time \div u
           from == TimeFrom(r, a, f)
           to == from + k * r.interval
           t == TimeAfter(r, a, from, k)
<1>1. /\ u \in Nat \ {0} /\ base \in Nat \ {0} /\ r.interval \in Nat \ {0}
      /\ a.time \in Nat /\ a.time < DaySeconds
  BY UnitIs DEF Place, Stepped
<1>2. /\ now \in Nat /\ now < base /\ a.time % u \in Nat /\ a.time % u < u
      /\ a.time = now * u + (a.time % u)
  BY <1>1, UnitIs
<1>3. from \in Nat /\ now <= from
  <2>1. CASE f
    <3> DEFINE q == (base - 1 - now) \div r.interval
    <3>1. from = now + q * r.interval
      BY <2>1 DEF TimeFrom
    <3>2. q \in Nat
      <4> DEFINE x == base - 1 - now
                 i == r.interval
      <4>1. x \in Nat /\ i \in Nat \ {0} /\ q = x \div i
        BY <1>1, <1>2
      <4> HIDE DEF x, i, q
      <4>2. x \div i \in Nat
        BY ONLY <4>1, SMT
      <4> QED
        BY <4>1, <4>2
    <3> HIDE DEF q, from, now
    <3>3. q * r.interval \in Nat
      BY <1>1, <3>2
    <3> QED
      BY <1>2, <3>1, <3>3
  <2>2. CASE ~f
    BY <1>2, <2>2 DEF TimeFrom
  <2> QED
    BY <2>1, <2>2
<1> HIDE DEF from
<1>4. to \in Nat /\ now < to
  <2>1. k * r.interval \in Nat \ {0}
    BY <1>1
  <2> QED
    BY <1>2, <1>3, <2>1
<1>5. t = (to % base) * u + (a.time % u)
  BY DEF TimeAfter
<1> HIDE DEF u, base, now, to, t
<1>6. /\ to \div base \in Nat /\ to % base \in 0..(base - 1)
      /\ to \div base = 0 => to % base = to
  BY ONLY <1>1, <1>4, SMT
<1>7. t \in Nat /\ t < DaySeconds
  <2>1. to % base \in Nat /\ to % base < base
    BY <1>1, <1>6
  <2>2. (to % base) * u + (a.time % u) < DaySeconds
    BY <1>2, <2>1, UnitIs DEF u, base
  <2>3. (to % base) * u \in Nat
    BY <1>1, <2>1
  <2> QED
    BY <1>2, <1>5, <2>2, <2>3
<1>8. to \div base = 0 => a.time < t
  <2> SUFFICES ASSUME to \div base = 0 PROVE a.time < t
    OBVIOUS
  <2>1. to % base = to /\ now \in Nat /\ a.time % u \in Nat
    BY <1>1, <1>2, <1>6
  <2>2. now * u + (a.time % u) < to * u + (a.time % u)
    <3> DEFINE z == a.time % u
    <3>1. now \in Nat /\ to \in Nat /\ z \in Nat /\ now < to
      BY <1>4, <2>1
    <3> HIDE DEF z
    <3>2. now * u + z < to * u + z
      BY <3>1, UnitIs DEF u
    <3> QED
      BY <3>2 DEF z
  <2> QED
    BY <1>2, <1>5, <2>1, <2>2
<1>9. LET b == DaysLater(a, to \div base, t)
      IN  b \in Place /\ b.day <= DaysIn(b.year, b.month) /\ Before(a, b)
  BY <1>6, <1>7, <1>8, DaysLaterIs
<1> QED
  BY <1>9 DEF from, to, base, t

LEMMA FollowingIs ==
  ASSUME NEW r, Stepped(r), NEW a \in Place, OnCalendar(r, a), NEW f \in BOOLEAN,
         Timed(r) => Intervals(r, a, TimeFrom(r, a, f)) # {}
  PROVE  /\ Following(r, a, f) \in Place /\ OnCalendar(r, Following(r, a, f))
         /\ Before(a, Following(r, a, f))
<1> DEFINE b == Following(r, a, f)
<1>1. r.interval \in Nat \ {0} /\ a.time \in Nat /\ a.time < DaySeconds /\ a.year \in Int
  BY DEF Stepped, Place
<1>2. CASE Yearly(r)
  <2>1. b = [a EXCEPT !.year = a.year + r.interval]
    <3>1. ~Monthly(r) /\ ~Weekly(r) /\ r.freq # "DAILY" /\ ~Timed(r)
      BY <1>2 DEF Yearly, Monthly, Weekly, Timed
    <3> QED
      BY <1>2, <3>1 DEF Following
  <2> HIDE DEF b
  <2>2. b \in Place /\ b.year = a.year + r.interval
    BY <1>1, <2>1 DEF Place
  <2>3. a.year < b.year
    BY <1>1, <2>2
  <2>4. Before(a, b)
    BY <2>3 DEF Before
  <2> QED
    BY <1>2, <2>2, <2>4 DEF b, OnCalendar
<1>3. CASE Monthly(r)
  <2>1. b = MonthsLater(a, r.interval)
    <3>1. ~Yearly(r) /\ ~Weekly(r) /\ r.freq # "DAILY" /\ ~Timed(r)
      BY <1>3 DEF Yearly, Monthly, Weekly, Timed
    <3> QED
      BY <1>3, <3>1 DEF Following
  <2> QED
    BY <1>1, <1>3, <2>1, MonthsLaterIs DEF OnCalendar
<1>4. CASE Weekly(r)
  <2> DEFINE w == (WeekdayAt(a.year, DaysBefore(a.year, a.month) + a.day - 1) - r.wkst) % 7
             n == 7 * r.interval - w
  <2>1. b = DaysLater(a, n, a.time)
    <3>1. ~Yearly(r) /\ ~Monthly(r) /\ r.freq # "DAILY" /\ ~Timed(r)
      BY <1>4 DEF Yearly, Monthly, Weekly, Timed
    <3> QED
      BY <1>4, <3>1 DEF Following
  <2>2. w \in 0..6
    <3>1. a.month \in 1..12 /\ a.day \in Int /\ r.wkst \in Int
      BY DEF Place, Stepped
    <3>2. DaysBefore(a.year, a.month) \in Nat /\ NewYear(a.year) \in Int
      BY <1>1, <3>1, Months, NewYearNext
    <3> QED
      BY <3>1, <3>2 DEF WeekdayAt, Weekday
  <2> HIDE DEF w
  <2>3. n \in Nat /\ n # 0
    BY <1>1, <2>2
  <2>4. a.day <= DaysIn(a.year, a.month)
    BY <1>4 DEF OnCalendar, Yearly, Monthly, Weekly
  <2> HIDE DEF n, b
  <2> QED
    BY <1>1, <2>1, <2>3, <2>4, DaysLaterIs DEF OnCalendar, b
<1>5. CASE r.freq = "DAILY"
  <2>1. b = DaysLater(a, r.interval, a.time)
    <3>1. ~Yearly(r) /\ ~Monthly(r) /\ ~Weekly(r) /\ ~Timed(r)
      BY <1>5 DEF Yearly, Monthly, Weekly, Timed
    <3> QED
      BY <1>5, <3>1 DEF Following
  <2>2. a.day <= DaysIn(a.year, a.month)
    BY <1>5 DEF OnCalendar, Yearly, Monthly
  <2> HIDE DEF b
  <2> QED
    BY <1>1, <2>1, <2>2, DaysLaterIs DEF OnCalendar, b
<1>6. CASE Timed(r)
  <2> DEFINE from == TimeFrom(r, a, f)
             I == Intervals(r, a, from)
             k == Min(I)
  <2>1. b = DaysLater(a, (from + k * r.interval) \div Base(r), TimeAfter(r, a, from, k))
    <3>1. ~Yearly(r) /\ ~Monthly(r) /\ ~Weekly(r) /\ r.freq # "DAILY"
      BY <1>6 DEF Yearly, Monthly, Weekly, Timed
    <3> QED
      BY <1>6, <3>1 DEF Following
  <2>2. I \in SUBSET (Nat \ {0})
    <3>1. Gcd(r.interval, Base(r)) \in Nat \ {0} /\ Base(r) \in Nat
      BY <1>1, <1>6, UnitIs, GcdIs
    <3>2. Base(r) \div Gcd(r.interval, Base(r)) \in Int
      BY <3>1
    <3> HIDE DEF from
    <3> QED
      BY <3>2 DEF Intervals
  <2> HIDE DEF I
  <2>3. k \in Nat \ {0}
    <3>1. I # {}
      BY <1>6 DEF I
    <3>2. I \in SUBSET Nat
      BY <2>2
    <3> QED
      BY <2>2, <3>1, <3>2, MinIs
  <2>4. a.day <= DaysIn(a.year, a.month)
    BY <1>6 DEF OnCalendar, Yearly, Monthly, Timed
  <2> HIDE DEF k, b
  <2> QED
    BY <1>6, <2>1, <2>3, <2>4, JumpedIs DEF OnCalendar, b
<1> QED
  BY <1>2, <1>3, <1>4, <1>5, <1>6 DEF Stepped, Frequency, Yearly, Monthly, Weekly, Timed

\* A rule that turns has steps, at a time from which it can make one.
Turning ==
  pc = "turn" => Stepped(rule) /\ at \in Place /\ OnCalendar(rule, at)

LEMMA ConstructKeeps ==
  ASSUME NEW r \in Rules
  PROVE  /\ Stepped(Construct(r)) /\ Construct(r).freq = r.freq
         /\ r.start.date \in Int /\ r.start.time \in Nat /\ r.start.time < DaySeconds
<1>1. IsRule(r)
  BY RecurrenceAssumption
<1>2. {"freq", "interval", "wkst"} \subseteq DOMAIN r
      /\ \A p \in {"bymonth", "bymonthday", "byweekday", "byhour", "byminute", "bysecond"} :
           p \notin {"freq", "interval", "wkst"}
  BY <1>1 DEF IsRule
<1>3. /\ DOMAIN WithDays(r) = DOMAIN r
      /\ \A p \in {"freq", "interval", "wkst"} : WithDays(r)[p] = r[p]
  <2> DEFINE y == [r EXCEPT !.bymonth = IfGiven(@, {MonthOf(r.start.date)}),
                            !.bymonthday = {DayOf(r.start.date)}]
             m == [r EXCEPT !.bymonthday = {DayOf(r.start.date)}]
             w == [r EXCEPT !.byweekday = {[day |-> Weekday(r.start.date), n |-> None]}]
  <2>1. WithDays(r) \in {r, y, m, w}
    <3>1. CASE Yearly(r)
      BY <3>1 DEF WithDays
    <3>2. CASE ~Yearly(r) /\ Monthly(r)
      BY <3>2 DEF WithDays, Yearly, Monthly, Weekly
    <3>3. CASE ~Yearly(r) /\ ~Monthly(r) /\ Weekly(r)
      BY <3>3 DEF WithDays
    <3>4. CASE ~Yearly(r) /\ ~Monthly(r) /\ ~Weekly(r)
      BY <3>4 DEF WithDays
    <3> QED
      BY <3>1, <3>2, <3>3, <3>4
  <2>2. /\ DOMAIN y = DOMAIN r /\ DOMAIN m = DOMAIN r /\ DOMAIN w = DOMAIN r
        /\ \A p \in {"freq", "interval", "wkst"} : y[p] = r[p] /\ m[p] = r[p] /\ w[p] = r[p]
    BY <1>2
  <2> QED
    BY <2>1, <2>2
<1>4. \A p \in {"freq", "interval", "wkst"} : Construct(r)[p] = WithDays(r)[p]
  <2> DEFINE d == WithDays(r)
  <2>1. {"freq", "interval", "wkst"} \subseteq DOMAIN d
    BY <1>2, <1>3
  <2> HIDE DEF d
  <2>2. \A p \in {"freq", "interval", "wkst"} : WithTimes(d)[p] = d[p]
    <3>1. PICK h, m, s : WithTimes(d) = [d EXCEPT !.byhour = h, !.byminute = m, !.bysecond = s]
      BY Zenon DEF WithTimes
    <3> QED
      BY <2>1, <3>1
  <2> QED
    BY <2>2 DEF Construct, d
<1> QED
  BY <1>1, <1>3, <1>4 DEF IsRule, Stepped, Datetime

LEMMA StartTurns == Init => Turning
<1> SUFFICES ASSUME NEW r \in Rules, Start(r), pc = "turn" PROVE Turning
  BY DEF Init, Turning
<1>1. rule = Construct(r)
  BY DEF Start
<1>2. Stepped(rule) /\ r.start.date \in Int /\ r.start.time \in Nat /\ r.start.time < DaySeconds
  BY <1>1, ConstructKeeps
<1>3. at = [year |-> YearOf(r.start.date), month |-> MonthOf(r.start.date),
            day |-> DayOf(r.start.date), time |-> r.start.time]
  BY DEF Start
<1>4. /\ at.year \in Int /\ at.month \in 1..12 /\ at.day \in 1..DaysIn(at.year, at.month)
      /\ at.time = r.start.time
  BY <1>2, <1>3, DateParts
<1>5. DaysIn(at.year, at.month) \in 28..31
  BY <1>4, Months
<1>6. at \in Place
  BY <1>2, <1>3, <1>4, <1>5 DEF Place
<1> QED
  BY <1>2, <1>4, <1>5, <1>6 DEF Turning, OnCalendar

\* A turn that leads to another one leads to that which follows.
LEMMA TurnGoes ==
  ASSUME Turn, pc' = "turn"
  PROVE  /\ pc = "turn" /\ rule' = rule
         /\ \E f \in BOOLEAN : /\ at' = Following(rule, at, f)
                               /\ Timed(rule) => Intervals(rule, at, TimeFrom(rule, at, f)) # {}
<1>1. pc = "turn" /\ rule' = rule /\ Generate(Results(rule, at, timeset))
  BY DEF Turn
<1> DEFINE f == SelectedDays(rule, at) = {}
<1>2. Advance(f)
  BY <1>1 DEF Generate
<1> HIDE DEF f
<1>3. ~(Timed(rule) /\ Intervals(rule, at, TimeFrom(rule, at, f)) = {})
  BY <1>2 DEF Advance
<1>4. GoTo(Following(rule, at, f))
  BY <1>2, <1>3 DEF Advance
<1>5. at' = Following(rule, at, f)
  BY <1>4 DEF GoTo
<1>6. f \in BOOLEAN
  BY DEF f
<1> QED
  BY <1>1, <1>3, <1>5, <1>6

\* Every turn leads to a later time, whatever the frequency, the interval and
\* the parts of the rule, the day that is jumped over and the value the next
\* time is taken from: no rule goes round for ever (rrule.py:839-1080).
THEOREM TurnsAlwaysAdvance == DSpec => TurnsAdvance
<1>1. DInit => Turning
  <2>1. NoRule => Turning
    BY DEF NoRule, Turning
  <2> QED
    BY <2>1, StartTurns DEF DInit
<1>2. ASSUME Turning, Turn, pc' = "turn" PROVE Turning' /\ Before(at, at')
  <2>1. PICK f \in BOOLEAN :
          /\ at' = Following(rule, at, f)
          /\ Timed(rule) => Intervals(rule, at, TimeFrom(rule, at, f)) # {}
    BY <1>2, TurnGoes
  <2>2. /\ Stepped(rule) /\ at \in Place /\ OnCalendar(rule, at) /\ rule' = rule
    BY <1>2, TurnGoes DEF Turning
  <2>3. at' \in Place /\ OnCalendar(rule, at') /\ Before(at, at')
    BY <2>1, <2>2, FollowingIs
  <2> QED
    BY <2>2, <2>3 DEF Turning
<1>3. Turning /\ [DNext]_vars => Turning'
  <2>1. CASE Turn /\ pc' = "turn"
    BY <1>2, <2>1
  <2>2. CASE pc' # "turn"
    BY <2>2 DEF Turning
  <2>3. CASE UNCHANGED vars
    BY <2>3 DEF Turning, vars, ruleVars
  <2> QED
    BY <2>1, <2>2, <2>3 DEF DNext
<1>4. Turning /\ [DNext]_vars => [pc' = "turn" => Before(at, at')]_ruleVars
  <2>1. CASE Turn
    BY <1>2, <2>1
  <2>2. CASE UNCHANGED vars
    BY <2>2 DEF vars
  <2> QED
    BY <2>1, <2>2 DEF DNext
<1> QED
  BY <1>1, <1>3, <1>4, PTL DEF DSpec, TurnsAdvance
=============================================================================
