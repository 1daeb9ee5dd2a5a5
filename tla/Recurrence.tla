----------------------------- MODULE Recurrence -----------------------------
(***************************************************************************)
(* dateutil/rrule.py: a recurrence rule, from the arguments of its         *)
(* constructor to the datetimes it generates.  One step is one turn of the *)
(* loop of _iter: a year, month, week, day, hour, minute or second.        *)
(*                                                                         *)
(* A rule is the record of the arguments; a BY part is a set, or None when *)
(* it is not given.  A weekday is its number and n, which may be None.     *)
(***************************************************************************)
EXTENDS RelativeDelta, FiniteSetsExt

CONSTANTS
  Rules,   \* the arguments rules are made with
  MaxYear  \* datetime.MAXYEAR

Frequency == {"YEARLY", "MONTHLY", "WEEKLY", "DAILY", "HOURLY", "MINUTELY", "SECONDLY"}

\* Arguments that the constructor and the datetimes it makes accept.
IsRule(r) ==
  /\ DOMAIN r = {"freq", "start", "interval", "wkst", "count", "until", "bymonth",
                 "bymonthday", "byyearday", "byweekno", "byweekday", "byeaster",
                 "byhour", "byminute", "bysecond", "bysetpos"}
  /\ r.freq \in Frequency /\ r.start \in Datetime
  /\ r.interval \in Nat \ {0} /\ r.wkst \in 0..6
  /\ r.count \in Nat \cup {None} /\ r.until \in Datetime \cup {None}
  /\ r.byhour = None \/ r.byhour \subseteq 0..23
  /\ r.byminute = None \/ r.byminute \subseteq 0..59
  /\ r.bysecond = None \/ r.bysecond \subseteq 0..59
  \* The days of eastermask.
  /\ r.byeaster = None \/ r.byeaster \subseteq -450..250

ASSUME RecurrenceAssumption == MaxYear \in Nat /\ \A r \in Rules : IsRule(r)

VARIABLES
  args,     \* the arguments of the rule
  rule,     \* the rule, None when its constructor raised an error
  pc,       \* "turn", or how the loop ended: "done", "error"
  at,       \* year, month, day and time of the turn
  timeset,  \* the times of the days of the turn
  left,     \* count
  out       \* what was generated

ruleVars == <<args, rule, pc, at, timeset, left, out>>

Given(s) == s # None /\ s # {}

\* The members of a set of numbers, the least first.
Ascending(s) ==
  LET sorted[r \in SUBSET s] ==
        IF r = {} THEN <<>> ELSE <<Min(r)>> \o sorted[r \ {Min(r)}]
  IN  sorted[s]

Hour(t) == t \div 3600
Minute(t) == (t \div 60) % 60
Second(t) == t % 60

Yearly(r) == r.freq = "YEARLY"
Monthly(r) == r.freq = "MONTHLY"
Weekly(r) == r.freq = "WEEKLY"
Timed(r) == r.freq \in {"HOURLY", "MINUTELY", "SECONDLY"}

-----------------------------------------------------------------------------
(* The constructor.                                                         *)

\* No part says which days.
Free(r) ==
  /\ r.byweekno = None /\ r.byyearday = None /\ r.bymonthday = None
  /\ r.byweekday = None /\ r.byeaster = None

\* What is taken from the start then.
WithDays(r) ==
  IF ~Free(r) THEN r
  ELSE CASE Yearly(r) -> [r EXCEPT !.bymonth = IfGiven(@, {MonthOf(r.start.date)}),
                                   !.bymonthday = {DayOf(r.start.date)}]
         [] Monthly(r) -> [r EXCEPT !.bymonthday = {DayOf(r.start.date)}]
         [] Weekly(r) -> [r EXCEPT !.byweekday =
                            {[day |-> Weekday(r.start.date), n |-> None]}]
         [] OTHER -> r

\* math.gcd, of positive numbers.
Gcd(a, b) == Max({d \in 1..Lesser(a, b) : a % d = 0 /\ b % d = 0})

\* __construct_byset: the values that steps of the interval can reach.
BySet(r, start, values, base) ==
  {v \in values : (v - start) % Gcd(r.interval, base) = 0}

\* The hours, minutes and seconds: by default those of the start, unless the
\* rule steps through them.
WithTimes(r) ==
  LET t == r.start.time
      Part(given, isfreq, finer, start, base) ==
        IF given = None THEN IF finer THEN None ELSE {start}
        ELSE IF isfreq THEN BySet(r, start, given, base) ELSE given
  IN  [r EXCEPT
         !.byhour = Part(@, r.freq = "HOURLY", Timed(r), Hour(t), 24),
         !.byminute = Part(@, r.freq = "MINUTELY", r.freq \in {"MINUTELY", "SECONDLY"},
                           Minute(t), 60),
         !.bysecond = Part(@, r.freq = "SECONDLY", r.freq = "SECONDLY", Second(t), 60)]

\* A value that is never reached is an error: the set is empty.
Constructible(r) ==
  LET full == WithTimes(r) IN
  /\ r.freq = "HOURLY" => full.byhour # {}
  /\ r.freq = "MINUTELY" => full.byminute # {}
  /\ r.freq = "SECONDLY" => full.bysecond # {}
  /\ r.bysetpos # None => \A p \in r.bysetpos : p # 0 /\ Abs(p) <= 366

Construct(r) == WithTimes(WithDays(r))

\* byweekday and bynweekday: n counts only in months and years.
PlainDays(r) ==
  {w.day : w \in {v \in r.byweekday : v.n = None \/ ~(Yearly(r) \/ Monthly(r))}}
NthDays(r) ==
  {v \in r.byweekday : v.n # None /\ (Yearly(r) \/ Monthly(r))}

-----------------------------------------------------------------------------
(* _iterinfo: the days of a year that the parts select, by their number     *)
(* from 0; a week may go on into the next year.                             *)

WeekdayAt(y, i) == Weekday(NewYear(y) + i)

\* The days from i on up to the end of their week.
RestOfWeek(r, y, i) ==
  {j \in i..(i + 6) : \A k \in (i + 1)..j : WeekdayAt(y, k) # r.wkst}

\* Where week 1 of the year begins, and how many weeks the year has.
Weeks(r, y) ==
  LET first == (7 - WeekdayAt(y, 0) + r.wkst) % 7
      length == IF first >= 4 THEN YearLength(y) + ((WeekdayAt(y, 0) - r.wkst) % 7)
                              ELSE YearLength(y) - first
  IN  [first |-> first, start |-> IF first >= 4 THEN 0 ELSE first,
       number |-> length \div 7 + (length % 7) \div 4]

WeekFrom(w, n) ==
  IF n > 1 /\ w.start # w.first THEN w.start + (n - 1) * 7 - (7 - w.first)
                                ELSE w.start + (n - 1) * 7

\* The days before week 1, when the last week of the last year is asked for.
LastYearsWeek(r, y, w) ==
  LET lyear == WeekdayAt(y - 1, 0)
      lfirst == (7 - lyear + r.wkst) % 7
      llength == IF lfirst >= 4 THEN YearLength(y - 1) + ((lyear - r.wkst) % 7)
                                ELSE YearLength(y) - w.start
      last == IF -1 \in r.byweekno THEN -1 ELSE 52 + (llength % 7) \div 4
  IN  IF last \in r.byweekno THEN 0..(w.start - 1) ELSE {}

\* wnomask
WeekNumberDays(r, y) ==
  LET w == Weeks(r, y)
      asked == {IF n < 0 THEN n + w.number + 1 ELSE n : n \in r.byweekno}
      next == WeekFrom(w, w.number + 1)
  IN  UNION {RestOfWeek(r, y, WeekFrom(w, n)) : n \in asked \cap 1..w.number}
      \cup (IF 1 \in r.byweekno /\ next < YearLength(y)
            THEN RestOfWeek(r, y, next) ELSE {})
      \cup LastYearsWeek(r, y, w)

MonthDays(y, m) == DaysBefore(y, m)..(DaysBefore(y, m + 1) - 1)

\* nwdaymask: the n-th weekday of the month, or of the months of the year.
NthDaysOf(r, y, m) ==
  LET ranges == IF Monthly(r) THEN {MonthDays(y, m)}
                ELSE IF Given(r.bymonth) THEN {MonthDays(y, k) : k \in r.bymonth}
                ELSE {0..(YearLength(y) - 1)}
      Nth(range, w) ==
        LET from == IF w.n < 0 THEN Max(range) + (w.n + 1) * 7
                               ELSE Min(range) + (w.n - 1) * 7
        IN  IF w.n < 0 THEN from - ((WeekdayAt(y, from) - w.day) % 7)
                       ELSE from + ((7 - WeekdayAt(y, from) + w.day) % 7)
  IN  UNION {range \cap {Nth(range, w) : w \in NthDays(r)} : range \in ranges}

\* eastermask: a place before the year counts from the end of the mask.
EasterDays(r, y) ==
  LET e == Easter(y, 3)
      places == {Ordinal(y, e.month, e.day) - NewYear(y) + offset : offset \in r.byeaster}
  IN  {IF i < 0 THEN i + YearLength(y) + 7 ELSE i : i \in places}

\* The number of a day in its year, and that of the same day from the end.
InYear(y, i) ==
  IF i < YearLength(y) THEN {i + 1, i - YearLength(y)}
  ELSE {i + 1 - YearLength(y), i - YearLength(y) - YearLength(y + 1)}

\* Every part that is given selects the day.
Selected(r, days, y, i) ==
  LET date == NewYear(y) + i
      day == DayOf(date)
  IN  /\ Given(r.bymonth) => MonthOf(date) \in r.bymonth
      /\ Given(r.byweekno) => i \in days.weekno
      /\ Given(r.byweekday) =>
           /\ PlainDays(r) # {} => Weekday(date) \in PlainDays(r)
           /\ NthDays(r) # {} => i \in days.nth
      /\ Given(r.byeaster) => i \in days.easter
      /\ Given(r.bymonthday) =>
           \/ day \in r.bymonthday
           \/ day - DaysIn(YearOf(date), MonthOf(date)) - 1 \in r.bymonthday
      /\ Given(r.byyearday) => InYear(y, i) \cap r.byyearday # {}

\* Mutant: a week ends with its year.
DaySetOfYear(r, a) ==
  CASE Yearly(r) -> 0..(YearLength(a.year) - 1)
    [] Monthly(r) -> MonthDays(a.year, a.month)
    [] Weekly(r) -> RestOfWeek(r, a.year, DaysBefore(a.year, a.month) + a.day - 1)
                      \cap 0..(YearLength(a.year) - 1)
    [] OTHER -> {DaysBefore(a.year, a.month) + a.day - 1}

\* ydayset, mdayset, wdayset and ddayset
DaySet(r, a) ==
  CASE Yearly(r) -> 0..(YearLength(a.year) - 1)
    [] Monthly(r) -> MonthDays(a.year, a.month)
    [] Weekly(r) -> RestOfWeek(r, a.year, DaysBefore(a.year, a.month) + a.day - 1)
    [] OTHER -> {DaysBefore(a.year, a.month) + a.day - 1}

\* The days of the turn that the parts select.
SelectedDays(r, a) ==
  LET days == [weekno |-> IF Given(r.byweekno) THEN WeekNumberDays(r, a.year) ELSE {},
               nth |-> IF Given(r.byweekday) /\ NthDays(r) # {}
                       THEN NthDaysOf(r, a.year, a.month) ELSE {},
               easter |-> IF Given(r.byeaster) THEN EasterDays(r, a.year) ELSE {}]
  IN  {i \in DaySet(r, a) : Selected(r, days, a.year, i)}

-----------------------------------------------------------------------------
(* The times of a day.                                                      *)

Times(hours, minutes, seconds) ==
  Ascending({h * 3600 + m * 60 + s : h \in hours, m \in minutes, s \in seconds})

\* htimeset, mtimeset, stimeset; the rules of days have the same times always.
TimeSet(r, t) ==
  CASE r.freq = "HOURLY" -> Times({Hour(t)}, r.byminute, r.bysecond)
    [] r.freq = "MINUTELY" -> Times({Hour(t)}, {Minute(t)}, r.bysecond)
    [] r.freq = "SECONDLY" -> <<t>>
    [] OTHER -> Times(r.byhour, r.byminute, r.bysecond)

\* The parts of the frequency itself and of those above it.
TimeSelected(r, t) ==
  /\ Given(r.byhour) => Hour(t) \in r.byhour
  /\ r.freq # "HOURLY" /\ Given(r.byminute) => Minute(t) \in r.byminute
  /\ r.freq = "SECONDLY" /\ Given(r.bysecond) => Second(t) \in r.bysecond

-----------------------------------------------------------------------------
(* The results of a turn.                                                   *)

\* bysetpos: positions among the results of the turn, negative ones from the
\* end; a position that does not exist is left out.
Positions(r, n) == 1..n \cap {IF p < 0 THEN n + 1 + p ELSE p : p \in r.bysetpos}

\* Each of the days of a year with each of the times.
Combined(y, days, times) ==
  LET n == Len(times)
  IN  [i \in 1..(Len(days) * n) |->
         At(NewYear(y) + days[1 + (i - 1) \div n], times[1 + ((i - 1) % n)])]

InPositions(r, all) ==
  LET places == Ascending(Positions(r, Len(all)))
  IN  IF Given(r.bysetpos) THEN [i \in DOMAIN places |-> all[places[i]]] ELSE all

Results(r, a, times) ==
  InPositions(r, Combined(a.year, Ascending(SelectedDays(r, a)), times))

\* until
Beyond(r, dt) == r.until # None /\ Earlier(r.until, dt)

-----------------------------------------------------------------------------
(* To the next turn.                                                        *)

MonthsLater(a, n) ==
  [a EXCEPT !.year = @ + (a.month - 1 + n) \div 12,
            !.month = 1 + ((a.month - 1 + n) % 12)]

\* fixday: a day that is too much for the month goes on into the next ones.
OnDate(date, time) ==
  [year |-> YearOf(date), month |-> MonthOf(date), day |-> DayOf(date), time |-> time]

DaysLater(a, n, time) == OnDate(Ordinal(a.year, a.month, a.day) + n, time)

Unit(r) == CASE r.freq = "HOURLY" -> 3600 [] r.freq = "MINUTELY" -> 60 [] OTHER -> 1
Base(r) == DaySeconds \div Unit(r)

\* Mutant: the jump over a day that is not selected goes back.
TimeFromBack(r, a, filtered) ==
  LET now == a.time \div Unit(r)
  IN  IF filtered THEN now - ((Base(r) - 1 - now) \div r.interval) * r.interval ELSE now

\* After a day that is not selected, the next turn is the first of the next.
TimeFrom(r, a, filtered) ==
  LET now == a.time \div Unit(r)
  IN  IF filtered THEN now + ((Base(r) - 1 - now) \div r.interval) * r.interval ELSE now

\* The time after k intervals.
TimeAfter(r, a, from, k) ==
  ((from + k * r.interval) % Base(r)) * Unit(r) + (a.time % Unit(r))

\* The numbers of intervals that lead to a time the parts select.
Intervals(r, a, from) ==
  {k \in 1..(Base(r) \div Gcd(r.interval, Base(r))) :
     TimeSelected(r, TimeAfter(r, a, from, k))}

\* The loops, with __mod_distance in them, take the first of these.
Following(r, a, filtered) ==
  CASE Yearly(r) -> [a EXCEPT !.year = @ + r.interval]
    [] Monthly(r) -> MonthsLater(a, r.interval)
    [] Weekly(r) ->
         DaysLater(a, 7 * r.interval
                      - ((WeekdayAt(a.year, DaysBefore(a.year, a.month) + a.day - 1)
                          - r.wkst) % 7), a.time)
    [] r.freq = "DAILY" -> DaysLater(a, r.interval, a.time)
    [] Timed(r) ->
         LET from == TimeFrom(r, a, filtered)
             Jumped(k) == DaysLater(a, (from + k * r.interval) \div Base(r),
                                    TimeAfter(r, a, from, k))
         IN  Jumped(Min(Intervals(r, a, from)))

GoTo(next) ==
  IF next.year > MaxYear THEN pc' = "done" /\ UNCHANGED <<at, timeset>>
  ELSE /\ at' = next /\ timeset' = TimeSet(rule, next.time)
       /\ UNCHANGED pc

Advance(filtered) ==
  IF Timed(rule) /\ Intervals(rule, at, TimeFrom(rule, at, filtered)) = {}
  THEN pc' = "error" /\ UNCHANGED <<at, timeset>>
  ELSE GoTo(Following(rule, at, filtered))

-----------------------------------------------------------------------------
\* rrule(...) and the beginning of _iter; an error of the constructor ends it.
Start(r) ==
  /\ args = r
  /\ IF Constructible(r)
     THEN /\ rule = Construct(r) /\ pc = "turn"
          /\ timeset = IF Timed(r) => TimeSelected(Construct(r), r.start.time)
                       THEN TimeSet(Construct(r), r.start.time) ELSE <<>>
     ELSE rule = None /\ pc = "error" /\ timeset = <<>>
  /\ at = [year |-> YearOf(r.start.date), month |-> MonthOf(r.start.date),
           day |-> DayOf(r.start.date), time |-> r.start.time]
  /\ left = r.count
  /\ out = <<>>

\* The results between the start and the end are generated, up to the count; a
\* result beyond the end or the count ends the loop.
Generate(results) ==
  LET new == SelectSeq(results, LAMBDA dt : ~Beyond(rule, dt)
                                            /\ ~Earlier(dt, rule.start))
      kept == IF left # None /\ left < Len(new) THEN left ELSE Len(new)
  IN  /\ out' = out \o SubSeq(new, 1, kept)
      /\ left' = IF left = None THEN None ELSE left - kept
      /\ IF kept < Len(new) \/ \E i \in DOMAIN results : Beyond(rule, results[i])
         THEN pc' = "done" /\ UNCHANGED <<at, timeset>>
         ELSE Advance(SelectedDays(rule, at) = {})

\* One turn of the loop.
Turn ==
  /\ pc = "turn"
  /\ Generate(Results(rule, at, timeset))
  /\ UNCHANGED <<args, rule>>

Init == \E r \in Rules : Start(r)

Spec == Init /\ [][Turn]_ruleVars

-----------------------------------------------------------------------------
(* What the rule promises (RFC 5545, which rrule.py:3 says it implements),  *)
(* stated on the arguments and without the turns.                           *)

\* The week of a date, by its first day, and of which week-year it is: the one
\* that has four days of it at least.
WeekStart(r, date) == date - ((Weekday(date) - r.wkst) % 7)
FirstWeek(r, y) == WeekStart(r, NewYear(y) + 3)
WeekNumbers(r, date) ==
  LET y == YearOf(WeekStart(r, date) + 3)
      n == (WeekStart(r, date) - FirstWeek(r, y)) \div 7 + 1
  IN  {n, n - (FirstWeek(r, y + 1) - FirstWeek(r, y)) \div 7 - 1}

\* How many periods of the frequency after that of the start.
Period(r, dt) ==
  LET y == YearOf(dt.date) - YearOf(r.start.date)
  IN  CASE Yearly(r) -> y
        [] Monthly(r) -> 12 * y + MonthOf(dt.date) - MonthOf(r.start.date)
        [] Weekly(r) ->
             (WeekStart(r, dt.date) - WeekStart(r, r.start.date)) \div 7
        [] r.freq = "DAILY" -> dt.date - r.start.date
        [] OTHER -> (dt.date - r.start.date) * Base(r)
                    + dt.time \div Unit(r) - r.start.time \div Unit(r)

\* The places of a date among the same weekdays of its month or year.
Nths(r, date) ==
  LET y == YearOf(date)
      bymonth == Monthly(r) \/ Given(r.bymonth)
      first == IF bymonth THEN Ordinal(y, MonthOf(date), 1) ELSE NewYear(y)
      last == IF bymonth THEN first + DaysIn(y, MonthOf(date)) - 1
                         ELSE NewYear(y + 1) - 1
  IN  {(date - first) \div 7 + 1, -((last - date) \div 7) - 1}

PromisedDay(r, date) ==
  LET y == YearOf(date)
      month == MonthOf(date)
      day == DayOf(date)
      easter == Easter(y, 3)
  IN  /\ IF r.bymonth # None THEN month \in r.bymonth
         ELSE Free(r) /\ Yearly(r) => month = MonthOf(r.start.date)
      /\ r.bymonthday # None =>
           {day, day - DaysIn(y, month) - 1} \cap r.bymonthday # {}
      /\ Free(r) /\ (Yearly(r) \/ Monthly(r)) => day = DayOf(r.start.date)
      /\ r.byweekday # None =>
           \E w \in r.byweekday :
             /\ w.day = Weekday(date)
             /\ w.n # None /\ (Yearly(r) \/ Monthly(r)) => w.n \in Nths(r, date)
      /\ Free(r) /\ Weekly(r) => Weekday(date) = Weekday(r.start.date)
      /\ r.byyearday # None =>
           {date - NewYear(y) + 1, date - NewYear(y + 1)} \cap r.byyearday # {}
      /\ r.byweekno # None => WeekNumbers(r, date) \cap r.byweekno # {}
      /\ r.byeaster # None =>
           date - Ordinal(y, easter.month, easter.day) \in r.byeaster

PromisedTimes(r) ==
  LET Part(given, fixed, start, base) ==
        IF given # None THEN given ELSE IF fixed THEN {start} ELSE 0..(base - 1)
      t == r.start.time
  IN  {h * 3600 + m * 60 + s :
         h \in Part(r.byhour, ~Timed(r), Hour(t), 24),
         m \in Part(r.byminute, ~Timed(r) \/ r.freq = "HOURLY", Minute(t), 60),
         s \in Part(r.bysecond, r.freq # "SECONDLY", Second(t), 60)}

Promised(r) ==
  LET last == IF r.until = None THEN NewYear(MaxYear + 1) - 1 ELSE r.until.date
      \* The year, month or week of the start begins before it.
      margin == CASE Yearly(r) -> 366 [] Monthly(r) -> 31 [] Weekly(r) -> 7 [] OTHER -> 0
      dates == {d \in (r.start.date - margin)..(last + margin) : PromisedDay(r, d)}
      all == {dt \in [date : dates, time : PromisedTimes(r)] :
                Period(r, dt) >= 0 /\ Period(r, dt) % r.interval = 0}
      InPosition(dt) ==
        LET same == {x \in all : Period(r, x) = Period(r, dt)}
            place == Cardinality({x \in same : AtMost(x, dt)})
        IN  {place, place - Cardinality(same) - 1} \cap r.bysetpos # {}
      chosen == {dt \in all : /\ ~Earlier(dt, r.start) /\ ~Beyond(r, dt)
                              /\ YearOf(dt.date) <= MaxYear
                              /\ Given(r.bysetpos) => InPosition(dt)}
      Counted(dts) ==
        IF r.count = None THEN dts
        ELSE {dt \in dts : Cardinality({x \in dts : Earlier(x, dt)}) < r.count}
  IN  Counted(chosen)

-----------------------------------------------------------------------------
(* Properties. *)

\* A rule generates what RFC 5545 promises of it, each once and in order:
\* whatever the weeks that cross a year, months too short for a day, days that
\* are skipped in one jump, positions among the times of a period, the count
\* and the end.
RuleExact ==
  pc \in {"done", "error"} =>
    /\ \A i \in 1..(Len(out) - 1) : Earlier(out[i], out[i + 1])
    /\ {out[i] : i \in DOMAIN out} = Promised(args)

\* Every turn but the last leads to a later time, whatever the day that is
\* jumped over and the value the next time is taken from: no rule goes round
\* for ever, since the years end (_iter and __mod_distance).
Before(a, b) ==
  \/ a.year < b.year
  \/ a.year = b.year /\ a.month < b.month
  \/ a.year = b.year /\ a.month = b.month /\ a.day < b.day
  \/ [a EXCEPT !.time = b.time] = b /\ a.time < b.time

TurnsAdvance == [][pc' = "turn" => Before(at, at')]_ruleVars
=============================================================================
