---------------------------- MODULE MC_Dateutil ----------------------------
(***************************************************************************)
(* The instance of Dateutil for TLC: rules and moments around the leap day *)
(* of 2024, ends of months and of years, and changes of the clock.         *)
(***************************************************************************)
EXTENDS Dateutil

-----------------------------------------------------------------------------
(* Rules. *)

Plain(freq, start) ==
  [freq |-> freq, start |-> start, interval |-> 1, wkst |-> 0, count |-> None,
   until |-> None, bymonth |-> None, bymonthday |-> None, byyearday |-> None,
   byweekno |-> None, byweekday |-> None, byeaster |-> None, byhour |-> None,
   byminute |-> None, bysecond |-> None, bysetpos |-> None]

Noon(y, m, d) == At(Ordinal(y, m, d), 43200)
Days(w) == {[day |-> d, n |-> None] : d \in w}
Nth(d, n) == [day |-> d, n |-> n]

Leap == Plain("YEARLY", Noon(2024, 2, 29))
Year == Plain("YEARLY", Noon(2023, 12, 15))
YearRules ==
  {Leap, [Leap EXCEPT !.bymonth = {1, 2}], [Year EXCEPT !.interval = 2],
   [Year EXCEPT !.byyearday = {1, 60, 366, -1, -366}],
   [Year EXCEPT !.bymonthday = {29, 31, -30}, !.bymonth = {2, 12}, !.count = 4],
   [Year EXCEPT !.byweekday = {Nth(0, 20), Nth(6, -53), Nth(2, 1)}],
   [Year EXCEPT !.byweekday = {Nth(4, -1), Nth(5, 5)}, !.bymonth = {2, 12}],
   [Year EXCEPT !.byweekno = {1, -1}, !.byweekday = Days({0, 6})],
   [Year EXCEPT !.byweekno = {1, 20}, !.wkst = 6, !.byweekday = Days({2})],
   [Year EXCEPT !.byweekno = {53}, !.byweekday = Days({0, 3})],
   [Year EXCEPT !.byeaster = {-2, 0, 49}],
   [Year EXCEPT !.byhour = {0, 23}, !.bymonthday = {1, -1}, !.bysetpos = {1, -2, -1}],
   [Year EXCEPT !.byweekday = Days({1, 3}), !.bymonth = {2, 1}, !.bysetpos = {5, -1},
                !.until = Noon(2025, 2, 27)],
   [Year EXCEPT !.bymonth = {2}, !.bymonthday = {30}]}

Month == Plain("MONTHLY", Noon(2023, 10, 31))
MonthRules ==
  {[Month EXCEPT !.until = Noon(2024, 12, 31)], [Month EXCEPT !.interval = 4],
   [Month EXCEPT !.bymonthday = {-1}, !.count = 7],
   [Month EXCEPT !.bymonthday = {13}, !.byweekday = Days({4})],
   [Month EXCEPT !.byweekday = {Nth(4, -1), Nth(3, 5)}, !.count = 6],
   [Month EXCEPT !.byweekday = Days({0, 1, 2, 3, 4}), !.bysetpos = {-1},
                 !.until = Noon(2024, 2, 29)],
   [Month EXCEPT !.byminute = {0, 30}, !.bymonthday = {1, 31}, !.bysetpos = {2, -3},
                 !.until = Noon(2024, 3, 31)],
   [Month EXCEPT !.interval = 12, !.byeaster = {-150}]}

Week == [Plain("WEEKLY", Noon(2024, 12, 24)) EXCEPT !.until = Noon(2025, 2, 4)]
WeekRules ==
  {Week, [Week EXCEPT !.interval = 2, !.byweekday = Days({1, 6})],
   [Week EXCEPT !.interval = 2, !.byweekday = Days({1, 6}), !.wkst = 6],
   [Week EXCEPT !.byweekday = {Nth(2, 1), Nth(5, -1)}, !.bysetpos = {2}],
   [Week EXCEPT !.byweekday = Days({2, 4}), !.bysetpos = {-1}, !.wkst = 3],
   [Week EXCEPT !.bymonth = {1}, !.byhour = {6, 18}]}

Day == [Plain("DAILY", Noon(2024, 2, 20)) EXCEPT !.until = Noon(2024, 3, 10)]
DayRules ==
  {[Day EXCEPT !.interval = 3], [Day EXCEPT !.bymonth = {3}, !.count = 2],
   [Day EXCEPT !.byhour = {0, 13}, !.byminute = {5}, !.bysecond = {0, 59},
               !.bysetpos = {-1, 2}, !.count = 5],
   [Day EXCEPT !.count = 0], [Day EXCEPT !.byyearday = {60, -306}]}

Hours == [Plain("HOURLY", Noon(2024, 2, 28)) EXCEPT !.until = Noon(2024, 3, 2)]
Minutes == [Plain("MINUTELY", Noon(2024, 2, 29)) EXCEPT !.until = Noon(2024, 3, 2)]
Seconds900 == [Plain("SECONDLY", Noon(2024, 2, 29)) EXCEPT
                 !.interval = 900, !.until = Noon(2024, 3, 2)]
TimeRules ==
  {[Hours EXCEPT !.interval = 7], [Hours EXCEPT !.interval = 5, !.byhour = {0, 17}],
   [Hours EXCEPT !.interval = 6, !.byhour = {7}], [Hours EXCEPT !.bymonthday = {29}, !.interval = 5],
   [Hours EXCEPT !.byhour = {5, 12}, !.byminute = {0, 30}, !.bysetpos = {-1}],
   [Minutes EXCEPT !.interval = 420], [Minutes EXCEPT !.interval = 90, !.byhour = {1, 12}],
   [Minutes EXCEPT !.interval = 45, !.byminute = {15}, !.bymonth = {3}],
   [Minutes EXCEPT !.interval = 60, !.byminute = {30}],
   [Minutes EXCEPT !.interval = 1440, !.byhour = {3}],
   [Seconds900 EXCEPT !.byhour = {11, 12}, !.byminute = {0, 45}],
   [Seconds900 EXCEPT !.interval = 5400, !.bymonth = {3}],
   [Seconds900 EXCEPT !.interval = 40, !.bysecond = {20}, !.byhour = {0}, !.byminute = {7}]}

SomeRules ==
  YearRules \cup MonthRules \cup WeekRules \cup DayRules \cup TimeRules

-----------------------------------------------------------------------------
(* Computations. *)

SomeMoments ==
  {At(Ordinal(d[1], d[2], d[3]), t) :
     d \in {<<2023, 1, 29>>, <<2023, 2, 28>>, <<2023, 12, 31>>, <<2024, 1, 31>>,
            <<2024, 2, 28>>, <<2024, 2, 29>>, <<2024, 3, 1>>, <<2024, 3, 30>>},
     t \in {0, 43201}}

Relative(y, m, d, h, n, s) ==
  [NoDelta EXCEPT !.years = y, !.months = m, !.days = d, !.hours = h,
                  !.minutes = n, !.seconds = s]

SomeDeltas ==
  {NoDelta, Relative(0, 0, 0, 0, 0, -61), Relative(0, -11, 1, 23, 59, 59),
   Relative(-1, 7, 0, -23, 0, 1), Relative(1, 0, 40, 0, -59, 0)}
  \cup {[NoDelta EXCEPT !.weekday = w] :
          w \in {Nth(0, None), Nth(0, 1), Nth(0, 2), Nth(0, -1), Nth(6, None)}}
  \cup {[NoDelta EXCEPT !.month = 2, !.day = 31], [NoDelta EXCEPT !.leapdays = -1]}

Sunday(n) == Nth(6, n)
Rule(m, week, time) ==
  [month |-> m, weekday |-> 6, week |-> week, day |-> None, yday |-> None,
   jyday |-> None, time |-> time]
YearRule(y, j, time) ==
  [month |-> None, weekday |-> None, week |-> None, day |-> None, yday |-> y,
   jyday |-> j, time |-> time]

\* The yearly rules of a zone in the north, of one in the south, of strings
\* with weekdays and with days of the year, and of zones without such a rule.
RangeZones ==
  {RangeZone(-300, TRUE, None, None, None),
   RangeZone(600, TRUE, None,
             [NoDelta EXCEPT !.hours = 2, !.month = 10, !.day = 1, !.weekday = Sunday(1)],
             [NoDelta EXCEPT !.hours = 2, !.month = 4, !.day = 1, !.weekday = Sunday(1)]),
   StrZone(60, None, Rule(3, -1, None), Rule(10, -1, 10800)),
   StrZone(60, None, YearRule(None, 60, None), YearRule(300, None, 0)),
   StrZone(-720, -660, YearRule(60, None, None), YearRule(None, None, None)),
   RangeZone(60, FALSE, None, None, None)}

To(utc, isdst, offset) == [utc |-> utc, isdst |-> isdst, offset |-> offset]

\* Two years of daylight saving time; a change of the standard time in winter,
\* and one together with the end of daylight saving time; double summer time; a
\* first transition that takes the clock back, and daylight saving time that
\* does; a file without any transition.
FileZones ==
  {FileZone(<<To(0, FALSE, 60), To(10000, TRUE, 120), To(20000, FALSE, 60),
              To(30000, TRUE, 120), To(40000, FALSE, 60)>>, 60),
   FileZone(<<To(0, FALSE, 60), To(10000, TRUE, 120), To(20000, FALSE, 60),
              To(30000, FALSE, 0)>>, 60),
   FileZone(<<To(0, FALSE, 60), To(10000, TRUE, 120), To(20000, TRUE, 120),
              To(30000, FALSE, 60)>>, 60),
   FileZone(<<To(0, FALSE, 60), To(10000, TRUE, 120), To(20000, FALSE, 120)>>, 60),
   FileZone(<<To(0, FALSE, -30), To(10000, TRUE, 60), To(20000, FALSE, -60),
              To(30000, FALSE, -120)>>, 0),
   FileZone(<<To(0, FALSE, 0), To(10000, TRUE, 60), To(20000, TRUE, 120),
              To(30000, TRUE, 60), To(40000, FALSE, 0)>>, 0),
   FileZone(<<To(0, FALSE, 60), To(10000, TRUE, 0), To(20000, FALSE, 60)>>, 60),
   FileZone(<<>>, -180)}

SomeZones ==
  {FixedZone(0), FixedZone(-210)} \cup RangeZones \cup FileZones
  \cup {LocalZone(-300, -240, 10000, 20000), LocalZone(0, 30, 10000, 20000),
        LocalZone(60, 60, 10000, 20000)}

SomeNear == {60 * h + m : h \in -3..3, m \in {-1, 0, 30}}
SomeYears == 1583..2100
=============================================================================
