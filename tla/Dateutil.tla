------------------------------ MODULE Dateutil ------------------------------
(***************************************************************************)
(* The calls of the dateutil package in the Lambda layer, one per          *)
(* behaviour: a rule that is iterated, turn by turn (Recurrence), or a     *)
(* computation that is done in one step - differences, sums and            *)
(* replacements (RelativeDelta), time zones (TimeZones), Easter (Calendar).*)
(***************************************************************************)
EXTENDS Recurrence, TimeZones

CONSTANTS
  Moments,    \* datetimes
  Deltas,     \* relativedelta objects
  Zones,      \* time zones
  Near,       \* minutes before and after a change of the offset
  Years       \* years whose Easter is asked for

ASSUME DateutilAssumption ==
  /\ Moments \subseteq Datetime
  /\ \A d \in Deltas : IsDelta(d)
  /\ Years \subseteq EasterYears
  /\ \A z \in Zones : Regular(z)
  \* A day at most.
  /\ Near \subseteq -1440..1440

VARIABLE call  \* the computation; None when a rule is iterated

vars == <<ruleVars, call>>

-----------------------------------------------------------------------------
(* The moments at which a zone changes its offset, in UTC.                  *)

\* The first minutes of the years of the moments.
YearsOfMoments == {MinuteOf(Midnight(YearOf(dt.date), 1, 1)) : dt \in Moments}

Changes(z) ==
  CASE z.kind = "fixed" -> {0}
    [] z.kind = "range" ->
         YearsOfMoments \cup
         IF z.hasdst THEN {Begins(z, t) - z.std : t \in YearsOfMoments}
                          \cup {Ends(z, t) - z.std : t \in YearsOfMoments}
         ELSE {}
    [] z.kind = "file" -> {tr.utc : tr \in {z.transitions[i] : i \in DOMAIN z.transitions}}
    [] z.kind = "local" -> {z.on, z.off}

Instants(z) == {t + k : t \in Changes(z), k \in Near}

Calls ==
  [op : {"diff"}, a : Moments, b : Moments]
  \cup [op : {"weekday"}, day : 0..6, n : {None} \cup (-2..2), dt : Moments]
  \cup [op : {"yearday"}, day : 1..365, year : {YearOf(dt.date) : dt \in Moments}]
  \cup [op : {"arithmetic"}, a : Deltas, b : Deltas, factor : {-3, 0, 2}]
  \cup [op : {"equal"}, a : Deltas, b : Deltas]
  \cup [op : {"easter"}, year : Years]
  \cup UNION {[op : {"zone"}, zone : {z}, utc : Instants(z)] : z \in Zones}

-----------------------------------------------------------------------------
(* No rule: the variables of Recurrence are not in use. *)
NoRule ==
  /\ args = None /\ rule = None /\ pc = "call" /\ at = None
  /\ timeset = <<>> /\ left = None /\ out = <<>>

DInit ==
  \/ Init /\ call = None
  \/ NoRule /\ call \in Calls

DNext == Turn /\ UNCHANGED call

DSpec == DInit /\ [][DNext]_vars

-----------------------------------------------------------------------------
(* Properties. *)

\* The difference of two datetimes takes one to the other, and counts as many
\* months as fit between them, over ends of months and leap days
\* (relativedelta.py:112-169).
DiffExact ==
  LET Between(d, a, b) ==
        /\ AddTo(d, b) = a
        /\ IF Earlier(a, b)
           THEN /\ AtMost(a, MonthsOn(InMonths(d), b))
                /\ Earlier(MonthsOn(InMonths(d) - 1, b), a)
           ELSE /\ AtMost(MonthsOn(InMonths(d), b), a)
                /\ Earlier(a, MonthsOn(InMonths(d) + 1, b))
  IN  call # None /\ call.op = "diff" =>
        Between(Diff(call.a, call.b), call.a, call.b)

\* A weekday with n leads to the n-th such day from the datetime on, the
\* datetime included, or back from it (relativedelta.py:392-401).
NthWeekday ==
  call # None /\ call.op = "weekday" =>
    LET n == IF call.n \in {None, 0} THEN 1 ELSE call.n
        to == AddTo([NoDelta EXCEPT !.weekday = [day |-> call.day, n |-> call.n]],
                    call.dt)
        between == IF n > 0 THEN call.dt.date..to.date ELSE to.date..call.dt.date
    IN  /\ Weekday(to.date) = call.day /\ to.time = call.dt.time
        /\ Cardinality({d \in between : Weekday(d) = call.day}) = Abs(n)

\* yearday = n is the n-th day of any year, nlyearday = n the day that is the
\* n-th of a year without a leap day (relativedelta.py:208-227, 384-386).
YearDayReached ==
  call # None /\ call.op = "yearday" =>
    LET from == Midnight(call.year, 1, 1)
        common == Ordinal(2023, 1, 1) + call.day - 1
        to == AddTo(NonLeapYearDay(call.day), from).date
    IN  /\ AddTo(YearDay(call.day), from).date = from.date + call.day - 1
        /\ MonthOf(to) = MonthOf(common) /\ DayOf(to) = DayOf(common)

\* A delta that replaces parts of a datetime comes to the day they name.
PartsReached == NthWeekday /\ YearDayReached

\* Nothing is lost when deltas are added, subtracted, negated and multiplied:
\* what is carried from unit to unit keeps the total, and no unit keeps more
\* than it holds, whatever the signs (relativedelta.py:231-262).  A product is
\* made of floats (relativedelta.py:495-507) and exact as far as these are.
ArithmeticExact ==
  call # None /\ call.op = "arithmetic" =>
    LET a == call.a
        b == call.b
        Is(d, months, seconds) ==
          /\ InMonths(d) = months /\ InSeconds(d) = seconds
          /\ Abs(d.months) < 12 /\ Abs(d.hours) < 24
          /\ Abs(d.minutes) < 60 /\ Abs(d.seconds) < 60
    IN  /\ Is(Sum(a, b), InMonths(a) + InMonths(b), InSeconds(a) + InSeconds(b))
        /\ Is(Difference(a, b), InMonths(a) - InMonths(b), InSeconds(a) - InSeconds(b))
        /\ Is(Negation(a), -InMonths(a), -InSeconds(a))
        /\ InFloat(a, call.factor) =>
             Is(Product(a, call.factor), call.factor * InMonths(a),
                call.factor * InSeconds(a))
        /\ \A p \in RelativePart : Absolute(a)[p] >= 0

\* Deltas that are equal do the same to every datetime, and a delta that is
\* false does nothing (relativedelta.py:475-491, 520-545).
EqualActsAlike ==
  call # None /\ call.op = "equal" =>
    \A dt \in Moments :
      /\ Equal(call.a, call.b) => AddTo(call.a, dt) = AddTo(call.b, dt)
      /\ ~NonZero(call.a) => AddTo(call.a, dt) = dt

\* The operators on deltas, and their comparison, agree with what deltas do.
DeltasExact == ArithmeticExact /\ EqualActsAlike

-----------------------------------------------------------------------------
(* The times in UTC that the wall clock of a zone shows as a time. *)
Shown(z, wall, offsets) == {u \in {wall - o : o \in offsets} : FromUtc(z, u).wall = wall}

Offsets(z) ==
  CASE z.kind = "fixed" -> {z.offset}
    [] z.kind = "file" -> {z.before, z.std}
                          \cup {z.transitions[i].offset : i \in DOMAIN z.transitions}
    [] OTHER -> {z.std, z.dst}

\* A time in UTC survives the way to the wall clock and back, also in the hour
\* that the clock shows twice, where fold tells the two apart (_common.py
\* 183-257, tz.py); of a file, wherever its transitions are sound.
ZoneRoundTrip ==
  call # None /\ call.op = "zone" /\ Settled(call.zone, call.utc) =>
    LET local == FromUtc(call.zone, call.utc)
    IN  local.wall - UtcOffset(call.zone, local.wall, local.fold) = call.utc

\* datetime_ambiguous and datetime_exists say how many times in UTC a time on
\* the wall clock stands for: two, or one at least.
WallTimes ==
  call # None /\ call.op = "zone" /\ Settled(call.zone, call.utc) =>
    \A o \in Offsets(call.zone) :
      LET wall == call.utc + o
          shown == Shown(call.zone, wall, Offsets(call.zone))
      IN  /\ Ambiguous(call.zone, wall) <=> Cardinality(shown) = 2
          /\ Exists(call.zone, wall) <=> shown # {}

\* resolve_imaginary takes a time in the gap of a zone forward, over the gap
\* and no further, and leaves every other time alone.
ImaginaryResolved ==
  LET OverGap(resolved, wall, last, next) ==
        last < wall /\ wall < next /\ resolved - wall = next - last - 1
      Right(z, wall, resolved) ==
        /\ Exists(z, resolved)
        /\ IF Exists(z, wall) THEN resolved = wall
           ELSE \E u \in Changes(z) :
                  OverGap(resolved, wall, FromUtc(z, u - 1).wall, FromUtc(z, u).wall)
  IN  call # None /\ call.op = "zone" /\ Settled(call.zone, call.utc) =>
        \A o \in Offsets(call.zone) :
          Right(call.zone, call.utc + o, ResolveImaginary(call.zone, call.utc + o))

-----------------------------------------------------------------------------
\* The Julian calendar's date as an ordinal of the Gregorian one.
FromJulian(y, m, d) ==
  LET n == y - 1
  IN  365 * n + n \div 4 + MonthRange[m] + (IF m > 2 /\ y % 4 = 0 THEN 1 ELSE 0)
      + d - 2

\* Easter by the old method in either calendar is the same day, and by the
\* western one it is a Sunday between 22 March and 25 April (easter.py:50-89).
EastersAgree ==
  call # None /\ call.op = "easter" =>
    LET y == call.year
        julian == Easter(y, 1)
        orthodox == Easter(y, 2)
        western == Easter(y, 3)
        date == Ordinal(y, western.month, western.day)
    IN  /\ FromJulian(y, julian.month, julian.day)
             = Ordinal(y, orthodox.month, orthodox.day)
        /\ Weekday(Ordinal(y, orthodox.month, orthodox.day)) = 6
        /\ Weekday(date) = 6
        /\ Ordinal(y, 3, 22) <= date /\ date <= Ordinal(y, 4, 25)
=============================================================================
