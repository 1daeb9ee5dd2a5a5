----------------------------- MODULE TimeZones -----------------------------
(***************************************************************************)
(* The time zones of dateutil/tz: fixed offsets (tzutc, tzoffset), yearly  *)
(* rules (tzrange, tzstr), compiled zone files (tzfile) and the zone of    *)
(* the machine (tzlocal).                                                  *)
(*                                                                         *)
(* A time is the minutes since 1 January 1970, in UTC or on the wall clock *)
(* of a zone; of two equal times on the wall clock the later one has fold  *)
(* 1.  Offsets are minutes.  A zone is a record whose kind says which of   *)
(* the classes it is of.                                                   *)
(***************************************************************************)
EXTENDS RelativeDelta, FiniteSets

Epoch == Ordinal(1970, 1, 1)

MinuteOf(dt) == (dt.date - Epoch) * 1440 + dt.time \div 60
YearAt(t) == YearOf(Epoch + t \div 1440)

-----------------------------------------------------------------------------
(* tzutc and tzoffset *)

FixedZone(offset) == [kind |-> "fixed", offset |-> offset]

-----------------------------------------------------------------------------
(* tzrange: daylight saving time from one delta to another of every year,   *)
(* both in standard time.                                                   *)

FirstSundayOfApril ==
  [NoDelta EXCEPT !.hours = 2, !.month = 4, !.day = 1,
                  !.weekday = [day |-> 6, n |-> 1]]
LastSundayOfOctober ==
  [NoDelta EXCEPT !.hours = 1, !.month = 10, !.day = 31,
                  !.weekday = [day |-> 6, n |-> -1]]

\* The constructor: named says that there is a name for daylight saving time.
RangeZone(std, named, dst, start, end) ==
  LET from == IF named THEN IfGiven(start, FirstSundayOfApril) ELSE start IN
  [kind |-> "range",
   std |-> IfGiven(std, 0),
   dst |-> IF dst # None THEN dst
           ELSE IF named /\ std # None THEN std + 60 ELSE 0,
   start |-> from,
   end |-> IF named THEN IfGiven(end, LastSundayOfOctober) ELSE end,
   hasdst |-> from # None /\ NonZero(from)]

\* _delta of tzstr: a rule of the string is a weekday of a month, a day of it,
\* or a day of the year; the end is given in daylight saving time.
StrDelta(x, isend, saved) ==
  LET day ==
        IF x.month # None /\ x.weekday # None
        THEN [NoDelta EXCEPT !.month = x.month,
                             !.day = IF x.week > 0 THEN 1 ELSE 31,
                             !.weekday = [day |-> x.weekday, n |-> x.week]]
        ELSE IF x.month # None
        THEN [NoDelta EXCEPT !.month = x.month, !.day = x.day]
        ELSE IF x.yday # None THEN YearDay(x.yday)
        ELSE IF x.jyday # None THEN NonLeapYearDay(x.jyday)
        ELSE [(IF isend THEN LastSundayOfOctober ELSE FirstSundayOfApril)
                EXCEPT !.hours = 0]
  IN  Fix([day EXCEPT !.seconds = IfGiven(x.time, 7200)
                                  - IF isend THEN saved * 60 ELSE 0])

\* tzstr with a name for daylight saving time.
StrZone(std, dst, start, end) ==
  LET z == RangeZone(std, TRUE, dst, NoDelta, NoDelta)
  IN  [z EXCEPT !.start = StrDelta(start, FALSE, 0),
                !.end = StrDelta(end, TRUE, z.dst - z.std),
                !.hasdst = NonZero(StrDelta(start, FALSE, 0))]

\* transitions(year)
Begins(z, t) == MinuteOf(AddTo(z.start, Midnight(YearAt(t), 1, 1)))
Ends(z, t) == MinuteOf(AddTo(z.end, Midnight(YearAt(t), 1, 1)))

\* _naive_isdst: the year may begin in daylight saving time.
Within(t, on, off) ==
  IF on < off THEN on <= t /\ t < off ELSE ~(off <= t /\ t < on)

RangeAmbiguous(z, wall) ==
  z.hasdst /\ Ends(z, wall) <= wall /\ wall < Ends(z, wall) + z.dst - z.std

\* _isdst
RangeIsDst(z, wall, fold) ==
  z.hasdst /\ \/ Within(wall, Begins(z, wall), Ends(z, wall))
              \/ RangeAmbiguous(z, wall) /\ fold = 0

\* fromutc
RangeFromUtc(z, utc) ==
  LET Shows(isdst) ==
        LET wall == utc + IF isdst THEN z.dst ELSE z.std
        IN  [wall |-> wall,
             fold |-> IF ~isdst /\ RangeAmbiguous(z, wall) THEN 1 ELSE 0]
  IN  IF ~z.hasdst THEN [wall |-> utc + z.std, fold |-> 0]
      ELSE Shows(Within(utc, Begins(z, utc) - z.std, Ends(z, utc) - z.std))

-----------------------------------------------------------------------------
(* tzfile: the transitions of a compiled file, each to a type of time.      *)

\* What daylight saving time saves after the i-th transition: the change of the
\* offset where it last began with one, be it in an earlier year.
Saved(transitions, i) ==
  LET Began(j) == transitions[j].isdst /\ ~transitions[j - 1].isdst
                  /\ transitions[j].offset # transitions[j - 1].offset
      began == {j \in 2..i : Began(j)}
      last == CHOOSE j \in began : \A k \in began : k <= j
  IN  IF transitions[i].isdst /\ began # {}
      THEN transitions[last].offset - transitions[last - 1].offset ELSE 0

Standard(transitions, i) == transitions[i].offset - Saved(transitions, i)

\* The offset that takes a transition to the wall clock: that of the standard
\* time it leads to, or of the one before when that changes along with it.
Adjustment(transitions, i) ==
  IF /\ i > 1 /\ Standard(transitions, i) # Standard(transitions, i - 1)
     /\ transitions[i].isdst # transitions[i - 1].isdst
  THEN Standard(transitions, i - 1) ELSE Standard(transitions, i)

\* The last part of _read_tzfile.
WallTransitions(transitions) ==
  [i \in DOMAIN transitions |-> transitions[i].utc + Adjustment(transitions, i)]

\* A file: its transitions, and the first of its types that is not of daylight
\* saving time.  ttinfo_std is the last such type of the transitions.
FileZone(transitions, before) ==
  LET n == Len(transitions)
      standard == {i \in 1..n : ~transitions[i].isdst}
  IN  [kind |-> "file", transitions |-> transitions,
       wall |-> WallTransitions(transitions),
       before |-> before,
       std |-> IF n = 0 THEN before
               ELSE IF standard = {} THEN transitions[n].offset
               ELSE transitions[CHOOSE i \in standard :
                                  \A j \in standard : j <= i].offset]

\* _find_last_transition: how many transitions are not after the time.
Passed(list, t) == Cardinality({i \in DOMAIN list : list[i] <= t})

\* _get_ttinfo: after the last transition it is standard time.
FileOffset(z, passed) ==
  IF passed >= Len(z.transitions) THEN z.std
  ELSE IF passed = 0 THEN z.before ELSE z.transitions[passed].offset

\* Mutant: the time of the transition itself is not ambiguous.
AmbiguousAfter(z, wall, passed) ==
  passed > 1 /\ wall # z.wall[passed] /\
  wall < z.wall[passed] + FileOffset(z, passed - 1) - FileOffset(z, passed)

FileAmbiguous(z, wall, passed) ==
  passed > 1 /\
  wall < z.wall[passed] + FileOffset(z, passed - 1) - FileOffset(z, passed)

\* Mutant: of two equal times it is always the later one.
ResolvedLater(z, wall, fold) == Passed(z.wall, wall)

\* _resolve_ambiguous_time
Resolved(z, wall, fold) ==
  LET passed == Passed(z.wall, wall)
  IN  IF fold = 0 /\ FileAmbiguous(z, wall, passed) THEN passed - 1 ELSE passed

FileFromUtc(z, utc) ==
  LET passed == Passed([i \in DOMAIN z.transitions |-> z.transitions[i].utc], utc)
      wall == utc + FileOffset(z, passed)
  IN  [wall |-> wall, fold |-> IF FileAmbiguous(z, wall, passed) THEN 1 ELSE 0]

-----------------------------------------------------------------------------
(* tzlocal: time.localtime tells whether a moment is in daylight saving     *)
(* time, here between two moments.                                          *)

LocalZone(std, dst, on, off) ==
  [kind |-> "local", std |-> std, dst |-> dst, on |-> on, off |-> off]

\* _naive_is_dst: the wall clock is read as standard time.
LocalNaive(z, wall) == z.on <= wall - z.std /\ wall - z.std < z.off

LocalAmbiguous(z, wall) ==
  ~LocalNaive(z, wall) /\ LocalNaive(z, wall - (z.dst - z.std))

LocalIsDst(z, wall, fold) ==
  z.dst # z.std /\ IF LocalAmbiguous(z, wall) THEN fold = 0 ELSE LocalNaive(z, wall)

LocalOffset(z, wall, fold) == IF LocalIsDst(z, wall, fold) THEN z.dst ELSE z.std

LocalSaved(z, wall, fold) == LocalOffset(z, wall, fold) - z.std

\* fromutc of _tzinfo: the difference of offset and saving is taken at the time
\* in UTC, the saving at the standard time; _fold_status says which of two
\* equal times it is.
LocalFromUtc(z, utc) ==
  LET std == LocalOffset(z, utc, 0) - LocalSaved(z, utc, 0)
      wall == utc + std + LocalSaved(z, utc + std, 1)
  IN  [wall |-> wall,
       fold |-> IF LocalAmbiguous(z, wall) /\ wall - utc = std THEN 1 ELSE 0]

-----------------------------------------------------------------------------
(* What the zones have in common.                                           *)

UtcOffset(z, wall, fold) ==
  CASE z.kind = "fixed" -> z.offset
    [] z.kind = "range" -> IF RangeIsDst(z, wall, fold) THEN z.dst ELSE z.std
    [] z.kind = "file" -> FileOffset(z, Resolved(z, wall, fold))
    [] z.kind = "local" -> LocalOffset(z, wall, fold)

FromUtc(z, utc) ==
  CASE z.kind = "fixed" -> [wall |-> utc + z.offset, fold |-> 0]
    [] z.kind = "range" -> RangeFromUtc(z, utc)
    [] z.kind = "file" -> FileFromUtc(z, utc)
    [] z.kind = "local" -> LocalFromUtc(z, utc)

\* datetime_ambiguous
Ambiguous(z, wall) ==
  CASE z.kind = "fixed" -> FALSE
    [] z.kind = "range" -> RangeAmbiguous(z, wall)
    [] z.kind = "file" -> FileAmbiguous(z, wall, Passed(z.wall, wall))
    [] z.kind = "local" -> LocalAmbiguous(z, wall)

\* datetime_exists: the time comes back from UTC.
Exists(z, wall) == FromUtc(z, wall - UtcOffset(z, wall, 0)).wall = wall

\* Mutant: a time in a gap goes back.
ResolveBack(z, wall) ==
  IF Exists(z, wall) THEN wall
  ELSE wall - UtcOffset(z, wall + 1440, 0) + UtcOffset(z, wall - 1440, 0)

\* resolve_imaginary: a time in a gap goes forward by the change of the offset.
ResolveImaginary(z, wall) ==
  IF Exists(z, wall) THEN wall
  ELSE wall + UtcOffset(z, wall + 1440, 0) - UtcOffset(z, wall - 1440, 0)
-----------------------------------------------------------------------------
(* What the properties of zones assume of the data of a zone.               *)

\* A date and time of every year, as the rules of a zone give it.
IsYearly(d) ==
  /\ IsDelta(d) /\ d.years = 0 /\ d.months = 0 /\ d.leapdays \in Int
  /\ d.year = None /\ d.month \in {None} \cup 1..12 /\ d.day \in {None} \cup 1..31
  /\ d.hour \in {None} \cup Int /\ d.minute \in {None} \cup Int
  /\ d.second \in {None} \cup Int

\* The clock changes three days inside the year at least, and two days apart.
RegularYear(z, y, north) ==
  LET first == MinuteOf(Midnight(y, 1, 1))
      next == MinuteOf(Midnight(y + 1, 1, 1))
      on == Begins(z, first)
      off == Ends(z, first)
  IN  /\ first + 4320 <= on /\ on + 4320 <= next
      /\ first + 4320 <= off /\ off + 4320 <= next
      /\ IF north THEN on + 2880 <= off ELSE off + 2880 <= on

\* In the same order every year; after 400 years the calendar repeats itself.
RegularYears(z, north) == \A y \in 2001..2400 : RegularYear(z, y, north)

RegularRange(z) ==
  /\ z.std \in Int /\ z.dst \in Int /\ z.hasdst \in BOOLEAN
  /\ z.hasdst =>
       /\ Abs(z.std) < 1440 /\ Abs(z.dst) < 1440
       /\ z.std <= z.dst /\ z.dst <= z.std + 1440
       /\ IsYearly(z.start) /\ IsYearly(z.end)
       /\ \E north \in BOOLEAN : RegularYears(z, north)

\* What a compiled file holds: the transitions in their order, and offsets and
\* standard times that are less than a day.
Offset == -1439..1439

RegularFile(z) ==
  LET tr == z.transitions
  IN  /\ tr \in Seq([utc : Int, isdst : BOOLEAN, offset : Offset])
      /\ z.before \in Offset /\ z.std \in Offset /\ z.wall = WallTransitions(tr)
      /\ \A i \in DOMAIN tr : /\ Standard(tr, i) \in Offset
                              /\ \A j \in 1..(i - 1) : tr[j].utc < tr[i].utc

\* A transition that the wall clock of _read_tzfile is right for.  The clock
\* may go forward from standard time, and back from one standard time to
\* another.  The end of daylight saving time takes back what it saved, so that
\* the standard time stays; within it the clock may change if nothing is saved,
\* or go forward by as much at least.  The first transition may not go back, nor
\* may the beginning of daylight saving time.
Sound(z, i) ==
  LET tr == z.transitions
      old == FileOffset(z, i - 1)
      new == FileOffset(z, i)
      saved == IF i = 1 THEN 0 ELSE Saved(tr, i - 1)
      summer == i > 1 /\ tr[i - 1].isdst
      Forward == /\ summer /\ tr[i].isdst => saved \in 0..(new - old)
                 /\ summer /\ ~tr[i].isdst => saved \in (old - new)..0
      Back == /\ i > 1 /\ (tr[i].isdst => summer)
              /\ saved = IF summer /\ ~tr[i].isdst THEN old - new ELSE 0
  IN  /\ new = tr[i].offset /\ Abs(new - old) <= 1440
      /\ old < new => Forward
      /\ new < old => Back

\* There is one transition at most within six days of the time, and it is sound.
Settled(z, t) ==
  z.kind = "file" =>
    LET near == {i \in DOMAIN z.transitions : Abs(z.transitions[i].utc - t) < 8640}
    IN  \A i, j \in near : i = j /\ Sound(z, i)

\* The two moments are two days apart, and the clock changes by a day at most.
RegularLocal(z) ==
  /\ z.std \in Int /\ z.dst \in Int /\ z.on \in Int /\ z.off \in Int
  /\ Abs(z.dst - z.std) <= 1440 /\ z.on + 2880 <= z.off

Regular(z) ==
  \/ z.kind = "fixed" /\ z.offset \in Int
  \/ z.kind = "range" /\ RegularRange(z)
  \/ z.kind = "file" /\ RegularFile(z)
  \/ z.kind = "local" /\ RegularLocal(z)

=============================================================================
