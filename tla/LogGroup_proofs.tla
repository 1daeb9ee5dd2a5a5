-------------------------- MODULE LogGroup_proofs --------------------------
(***************************************************************************)
(* Proofs about LogGroup, for every set of streams, every list of          *)
(* prefixes, every configuration, every schedule and every set of faults.  *)
(***************************************************************************)
EXTENDS LogGroup, FiniteSetTheorems, WellFoundedInduction, TLAPS

-----------------------------------------------------------------------------
(* What Config.get_time_range promises its caller, for every configuration *)
(* and every state file.                                                   *)

SearchRecord ==
  [outcome : {"found"}, time : Int]
    \cup [outcome : {"none", "error"}, time : {NoTime}]

\* The start of a full backup is a time, whatever the search gave.
LEMMA OldestStartType ==
  ASSUME NEW present \in Int, NEW search \in SearchRecord
  PROVE  OldestStart(present, search) \in Int
BY TimeAssumption DEF OldestStart, SearchRecord

\* A number of days is a natural number of ticks.
LEMMA EffectiveDaysType ==
  ASSUME NEW cloudwatchDays \in Nat, NEW retentionDay \in Nat
  PROVE  EffectiveDays(cloudwatchDays, retentionDay) \in Nat
BY DEF EffectiveDays

LEMMA DaysAreTicks ==
  ASSUME NEW n \in Nat PROVE n * Day \in Nat
BY TimeAssumption

\* The deletion time is not after the present: max(0, ...) in config.py:196.
LEMMA DeletionNotAhead ==
  ASSUME NEW present \in Int, NEW cloudwatchDays \in Nat, NEW retentionDay \in Nat
  PROVE  /\ DeletionTime(present, cloudwatchDays, retentionDay) \in Int
         /\ DeletionTime(present, cloudwatchDays, retentionDay) <= present
<1> DEFINE e == EffectiveDays(cloudwatchDays, retentionDay)
<1>1. e * Day \in Nat
  BY EffectiveDaysType, DaysAreTicks
<1> HIDE DEF e
<1>2. present - e * Day \in Int /\ present - e * Day <= present
  BY <1>1
<1> QED
  BY <1>2 DEF DeletionTime, e

\* A range that is read is not empty, and ends after the last read time: a
\* run that reads anything moves last_read_time forward (config.py:388-399).
THEOREM RangeMovesForward ==
  ASSUME NEW present \in Int, NEW retentionDay \in Int, NEW cloudwatchDays \in Nat,
         NEW readUpTo \in TimeOrNone, NEW runAt \in TimeOrNone,
         NEW search \in SearchRecord,
         NEW r, r = GetTimeRange(present, retentionDay, cloudwatchDays, readUpTo,
                                 runAt, search),
         r # NoRange
  PROVE  /\ r \in [start : Int, end : Int]
         /\ r.start < r.end
         /\ readUpTo # NoTime => readUpTo < r.end
<1> USE TimeAssumption
<1> DEFINE deletion == DeletionTime(present, cloudwatchDays, retentionDay)
           a == RetentionRange(deletion, present, readUpTo, runAt)
           b == FullBackupRange(present, readUpTo, search)
           c == DefaultRange(present, readUpTo)
<1>1. CASE retentionDay > 0 /\ cloudwatchDays # 0
  <2>1. r = Validated(a, readUpTo)
    BY <1>1 DEF GetTimeRange
  <2>2. deletion \in Int
    BY <1>1, DeletionNotAhead
  <2> HIDE DEF deletion
  <2>3. a = WindowUpTo(deletion) \/ (readUpTo # NoTime /\ a = Between(readUpTo, deletion))
    BY DEF RetentionRange
  <2>4. r = a /\ (readUpTo # NoTime => ~(a.end <= readUpTo))
    BY <2>1 DEF Validated
  <2> QED
    BY <2>2, <2>3, <2>4 DEF WindowUpTo, Between, TimeOrNone
<1>2. CASE ~(retentionDay > 0 /\ cloudwatchDays # 0)
           /\ (retentionDay > 0 \/ retentionDay = -1)
  <2>1. r = b
    BY <1>2 DEF GetTimeRange
  <2>2. OldestStart(present, search) \in Int
    BY OldestStartType
  <2> QED
    BY <2>1, <2>2 DEF FullBackupRange, Window, Between, TimeOrNone
<1>3. CASE ~(retentionDay > 0 \/ retentionDay = -1)
  <2>1. r = Validated(c, readUpTo)
    BY <1>3 DEF GetTimeRange
  <2>2. c = WindowUpTo(present) \/ (readUpTo # NoTime /\ c = Window(readUpTo))
    BY DEF DefaultRange
  <2>3. r = c
    BY <2>1 DEF Validated
  <2>4. readUpTo # NoTime => ~(c.end <= readUpTo)
    BY <2>1, <2>3 DEF Validated
  <2> QED
    BY <2>2, <2>3, <2>4 DEF WindowUpTo, Window, Between, TimeOrNone
<1> QED
  BY <1>1, <1>2, <1>3

\* With a finite retention a range never reaches beyond the present
\* (config.py:200, 215, 224, 230).
THEOREM RetentionNotAhead ==
  ASSUME NEW present \in Int, NEW retentionDay \in Nat \ {0},
         NEW cloudwatchDays \in Nat \ {0},
         NEW readUpTo \in TimeOrNone, NEW runAt \in TimeOrNone,
         NEW search \in SearchRecord,
         NEW r, r = GetTimeRange(present, retentionDay, cloudwatchDays, readUpTo,
                                 runAt, search),
         r # NoRange
  PROVE  r.end <= present
<1> DEFINE deletion == DeletionTime(present, cloudwatchDays, retentionDay)
           a == RetentionRange(deletion, present, readUpTo, runAt)
<1>1. r = a
  BY DEF GetTimeRange, Validated
<1>2. deletion <= present
  BY DeletionNotAhead
<1> HIDE DEF deletion
<1>3. a.end = deletion
  BY DEF RetentionRange, WindowUpTo, Between
<1> QED
  BY <1>1, <1>2, <1>3

-----------------------------------------------------------------------------
(* First and last times. *)

\* The least element of T is the k whose T \cap (0..k) is smallest: strict
\* inclusion of finite sets is well-founded.
LEMMA LeastNatural ==
  ASSUME NEW T \in SUBSET Nat, T # {}
  PROVE  \E t \in T : \A u \in T : t <= u
<1> DEFINE Below(k) == T \cap (0..k)
           D == {Below(k) : k \in T}
<1>1. D \subseteq FiniteSubsetsOf(Nat)
  <2> SUFFICES ASSUME NEW k \in T PROVE Below(k) \in FiniteSubsetsOf(Nat)
    OBVIOUS
  <2>1. IsFiniteSet(0..k)
    BY FS_Interval
  <2>2. IsFiniteSet(Below(k))
    BY <2>1, FS_Subset
  <2> QED
    BY <2>2 DEF FiniteSubsetsOf
<1>2. D # {}
  OBVIOUS
<1>3. IsWellFoundedOn(StrictSubsetOrdering(Nat), FiniteSubsetsOf(Nat))
  BY FS_StrictSubsetOrderingWellFounded
<1>4. \E B \in D : \A C \in D : ~ (<<C, B>> \in StrictSubsetOrdering(Nat))
  <2> HIDE DEF D
  <2> QED
    BY <1>1, <1>2, <1>3, WFMin
<1>5. PICK k \in T : \A u \in T : <<Below(u), Below(k)>> \notin StrictSubsetOrdering(Nat)
  BY <1>4
<1>6. ASSUME NEW u \in T, ~ (k <= u) PROVE FALSE
  <2>1. Below(u) \subseteq Below(k) /\ Below(u) # Below(k)
    <3>1. k \in Below(k) /\ k \notin Below(u)
      BY <1>6
    <3>2. Below(u) \subseteq Below(k)
      BY <1>6
    <3> QED
      BY <3>1, <3>2
  <2>2. Below(u) \in SUBSET Nat /\ Below(k) \in SUBSET Nat
    OBVIOUS
  <2> HIDE DEF Below
  <2>3. <<Below(u), Below(k)>> \in StrictSubsetOrdering(Nat)
    BY <2>1, <2>2 DEF StrictSubsetOrdering
  <2> QED
    BY <2>3, <1>5
<1> QED
  BY <1>6

LEMMA OldestIn ==
  ASSUME NEW T \in SUBSET Nat, T # {}
  PROVE  Oldest(T) \in T /\ \A u \in T : Oldest(T) <= u
BY LeastNatural DEF Oldest

\* The least distance from the bound is that of the newest time.
LEMMA NewestIn ==
  ASSUME NEW n \in Nat, NEW T \in SUBSET (0..n), T # {}
  PROVE  Newest(T) \in T /\ \A u \in T : u <= Newest(T)
<1> DEFINE D == {n - t : t \in T}
<1>1. D \in SUBSET Nat /\ D # {}
  <2>1. \A t \in T : t \in Int /\ n - t \in Nat
    OBVIOUS
  <2>2. D \subseteq Nat
    BY <2>1
  <2>3. PICK t \in T : TRUE
    OBVIOUS
  <2>4. n - t \in D
    BY <2>3
  <2> QED
    BY <2>2, <2>4
<1>2. PICK d \in D : \A e \in D : d <= e
  BY <1>1, LeastNatural
<1>3. PICK t \in T : d = n - t
  BY <1>2
<1>4. \A u \in T : u <= t
  BY <1>2, <1>3
<1> QED
  BY <1>3, <1>4 DEF Newest

-----------------------------------------------------------------------------
(* Types, and what the phases of an invocation rely on: from the time the  *)
(* range is known to the end of the run it is a proper range that does not *)
(* end before last_read_time, if the run has seen that, and a prefix is    *)
(* being processed while streams are listed and read.                      *)

Running == {"list", "read", "cleanup", "save_read", "save_run"}

RangeInv ==
  pc \in Running =>
    /\ range \in [start : Int, end : Int]
    /\ range.start < range.end
    /\ lastRead # NoTime /\ ~blind => lastRead <= range.end

PrefixInv == pc \in {"list", "read"} => prefix \in 1..Len(Prefixes)

BlindInv == blind => "load" \in Faults

Inv == TypeOK /\ RangeInv /\ PrefixInv /\ BlindInv

LEMMA LenPrefixes == Len(Prefixes) \in Nat
BY GroupAssumption

LEMMA MatchedType ==
  ASSUME NEW i \in 1..Len(Prefixes) PROVE Matched(i) \subseteq Stream
BY GroupAssumption DEF Matched

LEMMA StoredType ==
  ASSUME TypeOK, NEW s \in Stream PROVE Stored(s) \in SUBSET (0..MaxTime)
BY DEF TypeOK, Stored

LEMMA SearchResultType ==
  ASSUME TypeOK, NEW search \in SearchResult PROVE search \in SearchRecord
<1> DEFINE Times(S) == UNION {Stored(s) : s \in S}
<1>1. CASE search = [outcome |-> "error", time |-> NoTime]
  BY <1>1 DEF SearchRecord
<1>2. CASE search # [outcome |-> "error", time |-> NoTime]
  <2>1. PICK S \in SUBSET Stream :
          search = IF Times(S) = {} THEN [outcome |-> "none", time |-> NoTime]
                   ELSE [outcome |-> "found", time |-> Oldest(Times(S))]
    BY <1>2 DEF SearchResult
  <2>2. Times(S) \in SUBSET (0..MaxTime)
    BY StoredType
  <2>3. Times(S) \in SUBSET Nat
    BY <2>2, GroupAssumption
  <2> HIDE DEF Times
  <2>4. Times(S) # {} => Oldest(Times(S)) \in Int
    BY <2>3, OldestIn
  <2> QED
    BY <2>1, <2>4 DEF SearchRecord
<1> QED
  BY <1>1, <1>2

LEMMA LookupType ==
  ASSUME TypeOK, NEW days \in RetentionLookup PROVE days \in Nat
BY DEF RetentionLookup, TypeOK, Setup

LEMMA ModeDayType == TypeOK => ModeDay \in Int
BY DEF ModeDay, TypeOK, Setup

\* The range an invocation begins with.
LEMMA BeginRange ==
  ASSUME TypeOK, NEW days \in RetentionLookup, NEW search \in SearchResult,
         NEW r,
         r = GetTimeRange(now, ModeDay, days,
                          lastRead, lastRun, search),
         r # NoRange
  PROVE  /\ r \in [start : Int, end : Int]
         /\ r.start < r.end
         /\ lastRead # NoTime => lastRead < r.end
<1>1. now \in Int /\ lastRead \in TimeOrNone /\ lastRun \in TimeOrNone
  BY DEF TypeOK
<1>2. days \in Nat /\ search \in SearchRecord
  BY LookupType, SearchResultType
<1>3. ModeDay \in Int
  BY ModeDayType
<1> HIDE DEF GetTimeRange
<1> QED
  BY <1>1, <1>2, <1>3, RangeMovesForward

\* The set-up of a full backup ends with a time as well: the full backup
\* mode always gives a range.
LEMMA FullBackupType ==
  ASSUME TypeOK, NEW search \in SearchResult,
         NEW r, r = GetTimeRange(now, -1, setup.cloudwatchDays, NoTime, lastRun, search)
  PROVE  r.start \in Int
<1>1. now \in Int /\ search \in SearchRecord
  BY SearchResultType DEF TypeOK
<1>2. r = FullBackupRange(now, NoTime, search)
  BY DEF GetTimeRange
<1>3. OldestStart(now, search) \in Int
  BY <1>1, OldestStartType
<1> QED
  BY <1>2, <1>3 DEF FullBackupRange, Window, Between

\* What a worker may have read.
LEMMA ReadOutcomeType ==
  ASSUME TypeOK, NEW s \in Stream, NEW T \in ReadOutcome(s)
  PROVE  T \subseteq Readable(s)
BY DEF ReadOutcome, OutcomeOf, FirstTimes, LastTimes

LEMMA ReadTimes ==
  ASSUME TypeOK, NEW s \in Stream, NEW T \in ReadOutcome(s)
  PROVE  /\ T \in SUBSET (0..MaxTime)
         /\ T # {} => Newest(T) \in 0..MaxTime /\ Newest(T) < range.end
<1>1. T \subseteq Readable(s)
  BY ReadOutcomeType
<1>2. T \in SUBSET (0..MaxTime)
  BY <1>1, StoredType DEF Readable, ReadableFrom
<1>3. T # {} => Newest(T) \in T
  BY <1>2, NewestIn, GroupAssumption
<1> QED
  BY <1>1, <1>2, <1>3 DEF Readable, ReadableFrom

-----------------------------------------------------------------------------
LEMMA InvInit == Init => Inv
<1> SUFFICES ASSUME Init PROVE Inv
  OBVIOUS
<1> USE DEF Init, NoRange, Between, TimeOrNone
<1>1. /\ logged \in [Stream -> SUBSET (0..MaxTime)] /\ now \in 0..MaxTime
      /\ setup \in Setup
  BY GroupAssumption
<1>2. archive \in [Stream -> [0..MaxTime -> Nat]]
  OBVIOUS
<1>3. prefix \in 0..Len(Prefixes)
  BY LenPrefixes
<1> QED
  BY <1>1, <1>2, <1>3 DEF Inv, TypeOK, RangeInv, PrefixInv, BlindInv, Running

LEMMA FinishType ==
  ASSUME Finish
  PROVE  /\ range' \in [start : TimeOrNone, end : TimeOrNone]
         /\ prefix' \in 0..Len(Prefixes)
         /\ todo' \subseteq Stream
         /\ collected' \subseteq [stream : Stream, time : 0..MaxTime]
         /\ found' \in BOOLEAN
         /\ pc' = "idle"
<1>1. range' \in [start : TimeOrNone, end : TimeOrNone]
  BY DEF Finish, NoRange, Between, TimeOrNone
<1>2. prefix' \in 0..Len(Prefixes)
  BY LenPrefixes DEF Finish
<1> QED
  BY <1>1, <1>2 DEF Finish

\* The steps that only leave an invocation, and those of the environment.
LEMMA OutsideStep ==
  ASSUME Inv, \/ Tick \/ (\E s \in Stream : Log(s)) \/ SaveRunTime \/ Crash
              \/ BeginInit \/ FinishInit \/ Reconfigure
  PROVE  Inv'
<1> USE DEF Inv, TypeOK, RangeInv, PrefixInv, BlindInv, Running, cloudwatch,
            times, entries, state, work, TimeOrNone
<1>1. CASE Tick
  BY <1>1, GroupAssumption DEF Tick
<1>2. CASE \E s \in Stream : Log(s)
  BY <1>2 DEF Log
<1>3. CASE SaveRunTime
  BY <1>3, FinishType DEF SaveRunTime
<1>4. CASE Crash
  BY <1>4, FinishType DEF Crash
<1>5. CASE BeginInit
  BY <1>5, TimeAssumption DEF BeginInit
<1>6. CASE FinishInit
  <2>1. PICK search \in SearchResult :
          \/ /\ lastRead' = GetTimeRange(now, -1, setup.cloudwatchDays, NoTime, lastRun, search).start
             /\ base' = lastRead'
          \/ UNCHANGED <<lastRead, base>>
    BY <1>6 DEF FinishInit
  <2>2. lastRead' \in TimeOrNone /\ base' \in TimeOrNone
    BY <2>1, FullBackupType
  <2> QED
    BY <1>6, <2>1, <2>2, FinishType DEF FinishInit
<1>7. CASE Reconfigure
  BY <1>7, GroupAssumption DEF Reconfigure
<1> QED
  BY <1>1, <1>2, <1>3, <1>4, <1>5, <1>6, <1>7

LEMMA BeginStep ==
  ASSUME Inv, Begin
  PROVE  Inv'
<1> USE DEF Inv, TypeOK, RangeInv, PrefixInv, BlindInv, Running, cloudwatch,
            times, entries, state, work, TimeOrNone
<1> DEFINE R(days, search) ==
             GetTimeRange(now, ModeDay, days,
                          lastRead, lastRun, search)
<1>1. PICK days \in RetentionLookup, search \in SearchResult :
        IF R(days, search) = NoRange
        THEN UNCHANGED <<pc, work>>
        ELSE /\ range' = R(days, search)
             /\ IF Len(Prefixes) = 0
                THEN pc' = "cleanup" /\ UNCHANGED prefix
                ELSE pc' = "list" /\ prefix' = 1
             /\ UNCHANGED <<todo, collected, found>>
  BY DEF Begin, StartReading
<1>2. /\ started' = now /\ ~blind' /\ blind' \in BOOLEAN /\ pc = "idle"
      /\ UNCHANGED <<cloudwatch, state, archive, base>>
  BY DEF Begin, Due
<1>3. CASE R(days, search) = NoRange
  <2>1. UNCHANGED <<pc, work>>
    BY <1>1, <1>3
  <2> QED
    BY <1>2, <2>1
<1>4. CASE R(days, search) # NoRange
  <2>1. /\ range' \in [start : Int, end : Int]
        /\ range'.start < range'.end
        /\ lastRead # NoTime => lastRead < range'.end
    BY <1>1, <1>4, BeginRange
  <2> HIDE DEF R
  <2> QED
    BY <1>1, <1>2, <1>4, <2>1, LenPrefixes
<1> QED
  BY <1>3, <1>4

LEMMA ListStep ==
  ASSUME Inv, ListStreams
  PROVE  Inv'
<1> USE DEF Inv, TypeOK, RangeInv, PrefixInv, BlindInv, Running, cloudwatch,
            times, entries, state, work, TimeOrNone
<1>1. Matched(prefix) \subseteq Stream
  BY MatchedType DEF ListStreams
<1>2. todo' \subseteq Stream /\ found' \in BOOLEAN
  BY <1>1 DEF ListStreams
<1> QED
  BY <1>2 DEF ListStreams

LEMMA ReadStep ==
  ASSUME Inv, NEW s \in Stream, ReadStream(s)
  PROVE  Inv'
<1> USE DEF Inv, TypeOK, RangeInv, PrefixInv, BlindInv, Running, cloudwatch,
            times, entries, state, work, TimeOrNone
<1>1. PICK T \in ReadOutcome(s) :
        /\ collected' = collected \cup [stream : {s}, time : T]
        /\ \/ T # {} /\ SaveEntry(s, Newest(T) + 1, Newest(T))
           \/ UNCHANGED entries
           \/ \E next \in {range.start, range.end} : SaveEntry(s, next, range.end)
  BY DEF ReadStream
<1>2. T \in SUBSET (0..MaxTime) /\ (T # {} => Newest(T) \in 0..MaxTime)
  BY ReadTimes
<1>3. collected' \subseteq [stream : Stream, time : 0..MaxTime]
  BY <1>1, <1>2
<1>4. range \in [start : Int, end : Int]
  BY DEF ReadStream
<1>5. /\ token' \in [Stream -> TimeOrNone]
      /\ lastEvent' \in [Stream -> TimeOrNone]
      /\ updated' \in [Stream -> TimeOrNone]
  <2>1. now \in TimeOrNone
    BY GroupAssumption
  <2>2. ASSUME NEW next \in Int, NEW time \in Int, SaveEntry(s, next, time)
        PROVE  /\ token' \in [Stream -> TimeOrNone]
               /\ lastEvent' \in [Stream -> TimeOrNone]
               /\ updated' \in [Stream -> TimeOrNone]
    <3>1. CASE token' = [token EXCEPT ![s] = next]
               /\ lastEvent' = [lastEvent EXCEPT ![s] = time]
               /\ updated' = [updated EXCEPT ![s] = now]
      BY <2>1, <2>2, <3>1
    <3>2. CASE UNCHANGED entries
      BY <3>2
    <3> QED
      BY <2>2, <3>1, <3>2 DEF SaveEntry
  <2>3. CASE T # {} /\ SaveEntry(s, Newest(T) + 1, Newest(T))
    <3>1. Newest(T) \in Int /\ Newest(T) + 1 \in Int
      BY <1>2, <2>3, GroupAssumption
    <3> QED
      BY <2>2, <2>3, <3>1
  <2>4. CASE UNCHANGED entries
    BY <2>4
  <2>5. CASE \E next \in {range.start, range.end} : SaveEntry(s, next, range.end)
    BY <1>4, <2>2, <2>5
  <2> QED
    BY <1>1, <2>3, <2>4, <2>5
<1> QED
  BY <1>3, <1>5 DEF ReadStream

LEMMA BlindReadType ==
  ASSUME Inv, NEW s \in Stream, BlindRead(s)
  PROVE  /\ collected' \subseteq [stream : Stream, time : 0..MaxTime]
         /\ lastRead' \in TimeOrNone /\ lastRun' \in TimeOrNone
         /\ token' \in [Stream -> TimeOrNone]
         /\ lastEvent' \in [Stream -> TimeOrNone]
         /\ updated' \in [Stream -> TimeOrNone]
<1> USE DEF Inv, TypeOK, RangeInv, Running, times, entries, state, TimeOrNone
<1> DEFINE Saved(next, time) == \/ SaveEntry(s, next, time) /\ UNCHANGED times
                                \/ OnlyEntry(s, next, time)
<1>1. PICK fromToken \in {UsesToken(s), FALSE} :
        \E T \in OutcomeOf(ReadableFrom(s, IF fromToken THEN token[s]
                                                     ELSE range.start),
                           fromToken) :
          /\ collected' = collected \cup [stream : {s}, time : T]
          /\ \/ T # {} /\ Saved(Newest(T) + 1, Newest(T))
             \/ UNCHANGED state
             \/ \E next \in {range.start, range.end} : Saved(next, range.end)
  BY DEF BlindRead
<1> DEFINE Has == ReadableFrom(s, IF fromToken THEN token[s] ELSE range.start)
<1>2. PICK T \in OutcomeOf(Has, fromToken) :
        /\ collected' = collected \cup [stream : {s}, time : T]
        /\ \/ T # {} /\ Saved(Newest(T) + 1, Newest(T))
           \/ UNCHANGED state
           \/ \E next \in {range.start, range.end} : Saved(next, range.end)
  BY <1>1
<1>3. T \in SUBSET (0..MaxTime)
  <2>1. Has \in SUBSET (0..MaxTime)
    BY StoredType DEF ReadableFrom
  <2>2. ASSUME NEW H, NEW U \in OutcomeOf(H, fromToken) PROVE U \subseteq H
    BY <2>2 DEF OutcomeOf, FirstTimes, LastTimes
  <2> HIDE DEF Has
  <2>3. T \subseteq Has
    BY <2>2
  <2> QED
    BY <2>1, <2>3
<1>4. T # {} => Newest(T) \in Int /\ Newest(T) + 1 \in Int
  <2>1. MaxTime \in Nat
    BY GroupAssumption
  <2>2. T # {} => Newest(T) \in T
    BY <1>3, <2>1, NewestIn
  <2>3. \A t \in T : t \in Int
    BY <1>3, <2>1
  <2> QED
    BY <2>2, <2>3
<1>5. range.start \in Int /\ range.end \in Int
  BY DEF BlindRead
<1>6. ASSUME NEW next \in Int, NEW time \in Int, Saved(next, time)
      PROVE  /\ lastRead' \in TimeOrNone /\ lastRun' \in TimeOrNone
             /\ token' \in [Stream -> TimeOrNone]
             /\ lastEvent' \in [Stream -> TimeOrNone]
             /\ updated' \in [Stream -> TimeOrNone]
  <2>1. CASE SaveEntry(s, next, time) /\ UNCHANGED times
    <3>1. now \in Int
      BY GroupAssumption
    <3>2. CASE UNCHANGED entries
      BY <2>1, <3>2
    <3>3. CASE /\ token' = [token EXCEPT ![s] = next]
               /\ lastEvent' = [lastEvent EXCEPT ![s] = time]
               /\ updated' = [updated EXCEPT ![s] = now]
      BY <1>6, <2>1, <3>1, <3>3
    <3> QED
      BY <2>1, <3>2, <3>3 DEF SaveEntry
  <2>2. CASE OnlyEntry(s, next, time)
    BY <2>2, GroupAssumption DEF OnlyEntry, NoEntries
  <2> QED
    BY <1>6, <2>1, <2>2
<1> HIDE DEF Saved
<1>7. /\ lastRead' \in TimeOrNone /\ lastRun' \in TimeOrNone
      /\ token' \in [Stream -> TimeOrNone]
      /\ lastEvent' \in [Stream -> TimeOrNone]
      /\ updated' \in [Stream -> TimeOrNone]
  <2>1. CASE UNCHANGED state
    BY <2>1
  <2> QED
    BY <1>2, <1>4, <1>5, <1>6, <2>1
<1>8. collected' \subseteq [stream : Stream, time : 0..MaxTime]
  BY <1>2, <1>3
<1> QED
  BY <1>7, <1>8

LEMMA NextPrefixType ==
  ASSUME Inv, pc = "read", NextPrefix
  PROVE  /\ prefix' \in 0..Len(Prefixes)
         /\ pc' \in {"list", "cleanup"}
         /\ pc' = "list" => prefix' \in 1..Len(Prefixes)
         /\ collected' \subseteq [stream : Stream, time : 0..MaxTime]
BY LenPrefixes DEF NextPrefix, Inv, PrefixInv

LEMMA UploadStep ==
  ASSUME Inv, Upload \/ UploadFails
  PROVE  Inv'
<1> USE DEF Inv, TypeOK, RangeInv, PrefixInv, BlindInv, Running, cloudwatch,
            times, entries, state, work, TimeOrNone
<1>1. /\ prefix' \in 0..Len(Prefixes)
      /\ pc' \in {"list", "cleanup"}
      /\ pc' = "list" => prefix' \in 1..Len(Prefixes)
      /\ collected' \subseteq [stream : Stream, time : 0..MaxTime]
  BY NextPrefixType DEF Upload, UploadFails
<1>2. archive' \in [Stream -> [0..MaxTime -> Nat]]
  <2>1. CASE UploadFails
    BY <2>1 DEF UploadFails
  <2>2. CASE Upload
    <3> DEFINE copy(s, t) == IF [stream |-> s, time |-> t] \in collected THEN 1 ELSE 0
    <3>1. archive' = [s \in Stream |-> [t \in 0..MaxTime |-> archive[s][t] + copy(s, t)]]
      BY <2>2 DEF Upload
    <3>2. \A s \in Stream, t \in 0..MaxTime : archive[s][t] + copy(s, t) \in Nat
      <4> SUFFICES ASSUME NEW s \in Stream, NEW t \in 0..MaxTime
                   PROVE  archive[s][t] + copy(s, t) \in Nat
        OBVIOUS
      <4>1. archive[s][t] \in Nat
        <5>1. archive \in [Stream -> [0..MaxTime -> Nat]]
          OBVIOUS
        <5>2. archive[s] \in [0..MaxTime -> Nat]
          BY <5>1
        <5> QED
          BY <5>2
      <4>2. copy(s, t) \in {0, 1}
        OBVIOUS
      <4> HIDE DEF copy
      <4> QED
        BY <4>1, <4>2
    <3> HIDE DEF copy
    <3> QED
      BY <3>1, <3>2
  <2> QED
    BY <2>1, <2>2
<1>3. /\ pc = "read"
      /\ UNCHANGED <<cloudwatch, state, range, todo, found, started, base, blind>>
  BY DEF Upload, UploadFails
<1> QED
  BY <1>1, <1>2, <1>3

LEMMA FinalStep ==
  ASSUME Inv, CleanUp \/ SaveReadTime
  PROVE  Inv'
<1> USE DEF Inv, TypeOK, RangeInv, PrefixInv, BlindInv, Running, cloudwatch,
            times, entries, state, work, TimeOrNone
<1>1. CASE CleanUp
  BY <1>1 DEF CleanUp
<1>2. CASE SaveReadTime
  BY <1>2 DEF SaveReadTime
<1> QED
  BY <1>1, <1>2

\* What may be loaded of the state keeps its types, whether it is loaded or not.
LEMMA BlindStep ==
  ASSUME Inv, FailingLoad
  PROVE  Inv'
<1> USE DEF Inv, TypeOK, RangeInv, PrefixInv, BlindInv, Running, cloudwatch,
            times, entries, state, work, TimeOrNone
<1>1. "load" \in Faults /\ blind' = TRUE
  BY DEF FailingLoad
<1>2. ForgetEntries => /\ token' \in [Stream -> TimeOrNone]
                       /\ lastEvent' \in [Stream -> TimeOrNone]
                       /\ updated' \in [Stream -> TimeOrNone]
  BY DEF ForgetEntries, NoEntries
<1>3. CASE BlindInit
  <2>1. now - 365 * Day \in Int /\ now \in Int
    BY TimeAssumption, GroupAssumption
  <2>2. /\ lastRead' \in TimeOrNone /\ lastRun' \in TimeOrNone
        /\ base' \in TimeOrNone
        /\ UNCHANGED entries \/ ForgetEntries
    BY <1>3, <2>1 DEF BlindInit, OnlyReadTime
  <2>3. pc' = "search" /\ started' = now /\ UNCHANGED <<cloudwatch, archive, work>>
    BY <1>3 DEF BlindInit
  <2> QED
    BY <1>1, <1>2, <2>1, <2>2, <2>3
<1>4. CASE BlindFinishInit
  <2>1. PICK search \in SearchResult :
          LET r == GetTimeRange(now, -1, setup.cloudwatchDays, NoTime, lastRun,
                                search)
          IN  OnlyReadTime(r.start, r.start)
    BY <1>4 DEF BlindFinishInit
  <2>2. lastRead' \in TimeOrNone /\ base' \in TimeOrNone /\ lastRun' = NoTime
        /\ ForgetEntries
    BY <2>1, FullBackupType DEF OnlyReadTime
  <2> QED
    BY <1>1, <1>2, <1>4, <2>2, FinishType DEF BlindFinishInit
<1>5. CASE BlindBegin
  <2>1. PICK days \in RetentionLookup, search \in SearchResult :
          StartReading(GetTimeRange(now, ModeDay, days, NoTime, NoTime, search))
    BY <1>5 DEF BlindBegin
  <2> DEFINE r == GetTimeRange(now, ModeDay, days, NoTime, NoTime, search)
  <2>2. r # NoRange => r \in [start : Int, end : Int] /\ r.start < r.end
    <3>1. days \in Nat
      BY LookupType
    <3>2. search \in SearchRecord
      BY SearchResultType
    <3>3. ModeDay \in Int
      BY ModeDayType
    <3>4. now \in Int /\ NoTime \in Int \cup {NoTime}
      BY GroupAssumption
    <3> QED
      BY <3>1, <3>2, <3>3, <3>4, RangeMovesForward
  <2>3. started' = now /\ UNCHANGED <<cloudwatch, state, archive, base>> /\ pc = "idle"
    BY <1>5 DEF BlindBegin, Due
  <2>4. \/ UNCHANGED <<pc, work>>
        \/ /\ range' \in [start : Int, end : Int] /\ range'.start < range'.end
           /\ \/ pc' = "cleanup" /\ UNCHANGED prefix
              \/ pc' = "list" /\ prefix' = 1 /\ Len(Prefixes) # 0
           /\ UNCHANGED <<todo, collected, found>>
    BY <2>1, <2>2 DEF StartReading
  <2> HIDE DEF r
  <2> QED
    BY <1>1, <2>3, <2>4, LenPrefixes
<1>6. CASE \E s \in Stream : BlindRead(s)
  BY <1>1, <1>6, BlindReadType DEF BlindRead
<1>7. CASE BlindCleanUp
  BY <1>1, <1>7 DEF BlindCleanUp
<1>8. CASE BlindSaveReadTime
  <2>1. range.start \in Int /\ range.end \in Int
    BY <1>8 DEF BlindSaveReadTime
  <2> QED
    BY <1>1, <1>2, <1>8, <2>1 DEF BlindSaveReadTime, OnlyReadTime
<1>9. CASE BlindSaveRunTime
  BY <1>1, <1>2, <1>9, FinishType, GroupAssumption DEF BlindSaveRunTime
<1> QED
  BY <1>3, <1>4, <1>5, <1>6, <1>7, <1>8, <1>9 DEF FailingLoad

LEMMA InvStep ==
  ASSUME Inv, [Next]_vars
  PROVE  Inv'
<1>1. CASE UNCHANGED vars
  BY <1>1 DEF vars, cloudwatch, state, times, entries, work, Inv, TypeOK,
              RangeInv, PrefixInv, BlindInv, Running
<1>2. CASE Next
  BY <1>2, OutsideStep, BeginStep, ListStep, ReadStep, UploadStep, FinalStep,
     BlindStep
     DEF Next
<1> QED
  BY <1>1, <1>2

LEMMA InvAlways == Spec => []Inv
BY InvInit, InvStep, PTL DEF Spec

\* The variables keep their types in every run of every configuration.
THEOREM TypeCorrect == Spec => []TypeOK
<1>1. Inv => TypeOK
  BY DEF Inv
<1> QED
  BY <1>1, InvAlways, PTL

-----------------------------------------------------------------------------
(* last_read_time. *)

LEMMA ForwardStep ==
  ASSUME Inv, Next, pc # "search", lastRead # NoTime, ~blind'
  PROVE  lastRead' >= lastRead
<1> USE DEF Inv, TypeOK, TimeOrNone, cloudwatch, state, times
<1>1. CASE SaveReadTime
  BY <1>1 DEF SaveReadTime, RangeInv, Running
<1>2. CASE BeginInit \/ FinishInit
  BY <1>2 DEF BeginInit, FinishInit
<1>3. CASE \/ Tick \/ (\E s \in Stream : Log(s)) \/ Begin \/ ListStreams
           \/ (\E s \in Stream : ReadStream(s)) \/ Upload \/ UploadFails
           \/ CleanUp \/ SaveRunTime \/ Crash \/ Reconfigure
  <2>1. lastRead' = lastRead
    BY <1>3 DEF Tick, Log, Begin, ListStreams, ReadStream, Upload, UploadFails,
                CleanUp, SaveRunTime, Crash, Reconfigure
  <2> QED
    BY <2>1
<1>4. ~FailingLoad
  BY DEF FailingLoad
<1> QED
  BY <1>1, <1>2, <1>3, <1>4 DEF Next

\* Only an invocation that a failing load has shown the default state takes
\* last_read_time back.  Any other keeps it or moves it on, whatever else fails,
\* however late it is and whatever state it finds (README.md:233-234): the check
\* at config.py:388-399 holds in every mode that needs it, and the full backup
\* cannot fail it.
THEOREM ReadTimeNeverBack == Spec => ReadTimeForward
<1> DEFINE Forward == pc # "search" /\ lastRead # NoTime /\ ~blind' =>
                        lastRead' >= lastRead
<1>1. ASSUME Inv, [Next]_vars PROVE [Forward]_vars
  BY <1>1, ForwardStep
<1>2. ReadTimeForward <=> [][Forward]_vars
  BY DEF ReadTimeForward
<1> HIDE DEF Forward
<1> QED
  BY <1>1, <1>2, InvAlways, PTL DEF Spec

\* A finite retention is configured, now and later, and CloudWatch tells it
\* when asked.
FiniteRetention ==
  /\ \A c \in Setups : ~c.fullBackup /\ c.retentionDay > 0 /\ c.cloudwatchDays > 0
  /\ "lookup" \notin Faults

AheadInv ==
  /\ setup \in Setups
  /\ pc # "search"
  /\ lastRead # NoTime => lastRead <= now
  /\ pc \in Running => range.end <= now

LEMMA AheadInit == Init => AheadInv
BY DEF Init, AheadInv, Running

LEMMA AheadStep ==
  ASSUME FiniteRetention, Inv, AheadInv, [Next]_vars
  PROVE  AheadInv'
<1> USE DEF Inv, TypeOK, AheadInv, Running, TimeOrNone, cloudwatch, state, times,
            entries, work
<1>1. CASE UNCHANGED vars
  BY <1>1 DEF vars
<1>2. CASE Tick
  BY <1>2, GroupAssumption DEF Tick, RangeInv
<1>3. CASE Begin
  <2>1. PICK days \in RetentionLookup, search \in SearchResult :
          LET r == GetTimeRange(now, ModeDay, days, lastRead, lastRun, search)
          IN  IF r = NoRange THEN UNCHANGED <<pc, work>>
              ELSE range' = r /\ pc' \in {"list", "cleanup"}
    BY <1>3 DEF Begin, StartReading
  <2>2. days \in Nat \ {0} /\ ModeDay \in Nat \ {0}
    <3>1. setup \in Setups /\ setup \in Setup
      OBVIOUS
    <3> QED
      BY <3>1 DEF RetentionLookup, FiniteRetention, ModeDay, Setup
  <2>3. now \in Int /\ search \in SearchRecord
    BY SearchResultType, GroupAssumption
  <2> DEFINE r == GetTimeRange(now, ModeDay, days, lastRead, lastRun, search)
  <2>4. CASE r = NoRange
    BY <1>3, <2>1, <2>4 DEF Begin, StartReading, Due
  <2>5. CASE r # NoRange
    <3>1. r.end <= now
      BY <2>2, <2>3, <2>5, RetentionNotAhead
    <3>2. /\ range' = r /\ now' = now /\ lastRead' = lastRead /\ pc' # "search"
          /\ setup' = setup
      BY <1>3, <2>1, <2>5 DEF Begin, StartReading
    <3> HIDE DEF r
    <3> QED
      BY <3>1, <3>2
  <2> QED
    BY <2>4, <2>5
<1>4. CASE BeginInit \/ FinishInit
  BY <1>4 DEF BeginInit, FinishInit, FiniteRetention
<1>5. CASE SaveReadTime
  BY <1>5 DEF SaveReadTime
<1>6. CASE \/ ListStreams \/ (\E s \in Stream : ReadStream(s)) \/ Upload
           \/ UploadFails \/ CleanUp \/ (\E s \in Stream : Log(s))
  <2>1. UNCHANGED <<setup, now, lastRead, range>> /\ pc' \in Running \cup {"idle"}
        /\ (pc' \in Running => pc \in Running)
    BY <1>6 DEF ListStreams, ReadStream, Upload, UploadFails, CleanUp, Log, NextPrefix
  <2> QED
    BY <2>1
<1>7. CASE SaveRunTime \/ Crash
  BY <1>7 DEF SaveRunTime, Crash, Finish
<1>8. CASE Reconfigure
  BY <1>8 DEF Reconfigure
<1>9. CASE FailingLoad
  <2>1. ~BlindInit /\ ~BlindFinishInit
    BY DEF BlindInit, BlindFinishInit, FiniteRetention
  <2>2. CASE BlindBegin
    <3>1. PICK days \in RetentionLookup, search \in SearchResult :
            LET r == GetTimeRange(now, ModeDay, days, NoTime, NoTime, search)
            IN  IF r = NoRange THEN UNCHANGED <<pc, work>>
                ELSE range' = r /\ pc' \in {"list", "cleanup"}
      BY <2>2 DEF BlindBegin, StartReading
    <3>2. days \in Nat \ {0} /\ ModeDay \in Nat \ {0}
      <4>1. setup \in Setups /\ setup \in Setup
        OBVIOUS
      <4> QED
        BY <4>1 DEF RetentionLookup, FiniteRetention, ModeDay, Setup
    <3>3. now \in Int /\ search \in SearchRecord
      BY SearchResultType, GroupAssumption
    <3> DEFINE r == GetTimeRange(now, ModeDay, days, NoTime, NoTime, search)
    <3>4. r # NoRange => r.end <= now
      BY <3>2, <3>3, RetentionNotAhead
    <3>5. UNCHANGED <<setup, now, lastRead>> /\ pc = "idle"
      BY <2>2 DEF BlindBegin, Due
    <3>6. CASE r = NoRange
      BY <2>2, <3>1, <3>5, <3>6
    <3>7. CASE r # NoRange
      <4>1. r.end <= now /\ range' = r /\ pc' \in {"list", "cleanup"}
        BY <3>1, <3>4, <3>7
      <4> HIDE DEF r
      <4> QED
        BY <3>5, <4>1
    <3> QED
      BY <3>6, <3>7
  <2>3. CASE BlindSaveReadTime
    BY <2>3 DEF BlindSaveReadTime, OnlyReadTime
  <2>4. CASE BlindSaveRunTime
    BY <2>4 DEF BlindSaveRunTime, Finish
  <2>5. CASE BlindCleanUp \/ \E s \in Stream : BlindRead(s)
    <3>1. /\ UNCHANGED <<setup, now, range>> /\ lastRead' \in {lastRead, NoTime}
          /\ pc \in Running /\ pc' \in Running
      BY <2>5 DEF BlindCleanUp, BlindRead, OnlyEntry
    <3> QED
      BY <3>1
  <2> QED
    BY <1>9, <2>1, <2>2, <2>3, <2>4, <2>5 DEF FailingLoad
<1> QED
  BY <1>1, <1>2, <1>3, <1>4, <1>5, <1>6, <1>7, <1>8, <1>9 DEF Next

\* With a finite retention, last_read_time is never in the future, whatever
\* else fails: what is logged from now on is not behind it.
THEOREM FiniteNotAhead ==
  ASSUME FiniteRetention PROVE Spec => []NotAhead
<1>1. Init => AheadInv
  BY AheadInit
<1>2. Inv /\ AheadInv /\ [Next]_vars => AheadInv'
  BY AheadStep
<1>3. AheadInv => NotAhead
  BY DEF AheadInv, NotAhead
<1> QED
  BY <1>1, <1>2, <1>3, InvAlways, PTL DEF Spec

-----------------------------------------------------------------------------
(* The entries of the streams.  While an invocation runs, a token may be   *)
(* beyond last_read_time, but then streams were found and last_read_time   *)
(* is about to pass it.                                                    *)

EntryInv ==
  /\ \A s \in Stream : token[s] # NoTime =>
       \/ lastRead # NoTime /\ token[s] <= lastRead
       \/ pc \in Running \ {"save_run"} /\ found /\ token[s] <= range.end
  /\ pc = "search" => \A s \in Stream : token[s] = NoTime
  /\ pc = "read" /\ todo # {} => found

LEMMA EntryInit == Init => EntryInv
BY DEF Init, EntryInv

LEMMA EntryStep ==
  ASSUME Faults \cap {"crash", "load"} = {}, ~SaveLost,
         Inv, EntryInv, [Next]_vars
  PROVE  EntryInv'
<1> USE DEF Inv, TypeOK, EntryInv, Running, TimeOrNone, cloudwatch, state, times,
            entries, work
<1>1. CASE UNCHANGED vars
  BY <1>1 DEF vars
<1>2. CASE Tick \/ Reconfigure \/ \E s \in Stream : Log(s)
  BY <1>2 DEF Tick, Log, Reconfigure
<1>3. CASE Begin
  BY <1>3 DEF Begin, StartReading, Due
<1>4. CASE BeginInit
  BY <1>4 DEF BeginInit, Due
<1>5. CASE FinishInit
  BY <1>5 DEF FinishInit, Finish
<1>6. CASE ListStreams
  <2>1. /\ pc = "list" /\ pc' = "read"
        /\ UNCHANGED <<token, lastRead, range>>
        /\ found => found'
        /\ todo' # {} => found'
    BY <1>6 DEF ListStreams
  <2> QED
    BY <2>1
<1>7. CASE \E s \in Stream : ReadStream(s)
  <2>1. PICK s \in Stream : ReadStream(s)
    BY <1>7
  <2>2. /\ pc = "read" /\ s \in todo /\ todo' = todo \ {s}
        /\ UNCHANGED <<pc, found, lastRead, range>>
    BY <2>1 DEF ReadStream
  <2>3. found
    BY <2>2
  <2>4. PICK T \in ReadOutcome(s) :
          \/ T # {} /\ SaveEntry(s, Newest(T) + 1, Newest(T))
          \/ UNCHANGED entries
          \/ \E next \in {range.start, range.end} : SaveEntry(s, next, range.end)
    BY <2>1 DEF ReadStream
  <2>5. range \in [start : Int, end : Int] /\ range.start < range.end
    BY <2>2 DEF RangeInv
  <2>6. ASSUME NEW next \in Int, NEW time \in Int, next <= range.end,
               SaveEntry(s, next, time)
        PROVE  \A u \in Stream : token'[u] = token[u] \/ token'[u] <= range.end
    BY <2>6 DEF SaveEntry
  <2>7. \A u \in Stream : token'[u] = token[u] \/ token'[u] <= range.end
    <3>1. CASE T # {} /\ SaveEntry(s, Newest(T) + 1, Newest(T))
      <4>0. Newest(T) \in 0..MaxTime /\ Newest(T) < range.end
        BY <3>1, ReadTimes
      <4>1. /\ Newest(T) \in Int /\ Newest(T) + 1 \in Int
            /\ Newest(T) + 1 <= range.end
        BY <2>5, <4>0, GroupAssumption
      <4> QED
        BY <2>6, <3>1, <4>1
    <3>2. CASE UNCHANGED entries
      BY <3>2
    <3>3. CASE \E next \in {range.start, range.end} : SaveEntry(s, next, range.end)
      BY <2>5, <2>6, <3>3
    <3> QED
      BY <2>4, <3>1, <3>2, <3>3
  <2> QED
    BY <2>2, <2>3, <2>7
<1>8. CASE Upload \/ UploadFails
  <2>1. /\ pc = "read" /\ pc' \in {"list", "cleanup"}
        /\ UNCHANGED <<token, lastRead, range, found>>
    BY <1>8 DEF Upload, UploadFails, NextPrefix
  <2> QED
    BY <2>1
<1>9. CASE CleanUp
  <2>1. \A s \in Stream : token'[s] = token[s] \/ token'[s] = NoTime
    BY <1>9 DEF CleanUp
  <2>2. /\ pc = "cleanup" /\ pc' = IF found THEN "save_read" ELSE "save_run"
        /\ UNCHANGED <<lastRead, range, found>>
    BY <1>9 DEF CleanUp
  <2> QED
    BY <2>1, <2>2
<1>10. CASE SaveReadTime
  <2>1. /\ pc = "save_read" /\ pc' = "save_run" /\ lastRead' = range.end
        /\ UNCHANGED token
    BY <1>10 DEF SaveReadTime
  <2>2. range.end \in Int /\ (lastRead # NoTime => lastRead <= range.end)
    BY <2>1 DEF RangeInv, BlindInv
  <2> QED
    BY <2>1, <2>2, TimeAssumption
<1>11. CASE SaveRunTime
  BY <1>11 DEF SaveRunTime, Finish
<1>12. ~Crash /\ ~FailingLoad
  BY DEF Crash, FailingLoad
<1> QED
  BY <1>1, <1>2, <1>3, <1>4, <1>5, <1>6, <1>7, <1>8, <1>9, <1>10, <1>11, <1>12
     DEF Next

\* Unless an invocation dies in the middle or the state file cannot be loaded or
\* saved, the entries of the streams never get ahead of the time of the group:
\* errors of CloudWatch, of the upload and of the look-ups included, and
\* changes of the set-up.
THEOREM EntriesBehind ==
  ASSUME Faults \cap {"crash", "load"} = {}, ~SaveLost
  PROVE  Spec => []EntriesNotAhead
<1>1. Init => EntryInv
  BY EntryInit
<1>2. Inv /\ EntryInv /\ [Next]_vars => EntryInv'
  BY EntryStep
<1>3. EntryInv => EntriesNotAhead
  BY DEF EntryInv, EntriesNotAhead, Running
<1> QED
  BY <1>1, <1>2, <1>3, InvAlways, PTL DEF Spec

-----------------------------------------------------------------------------
(* Where a full backup starts.  Between the two saves of its first run the *)
(* provisional time may be anywhere; from then on nothing is older than    *)
(* the start, and what is logged later is not either.                      *)

\* No invocation dies, no save and no load of the state file fails, and the
\* set-up stays.
Undisturbed == Faults \cap {"crash", "save", "load", "reconfigure"} = {}

\* CloudWatch keeps the events of a group that is backed up in full.
NothingExpires == \A c \in Setups : c.fullBackup => c.cloudwatchDays = 0

LoggedInv == \A s \in Stream : \A t \in logged[s] : t <= now

OldestInv ==
  /\ setup \in Setups
  /\ LoggedInv
  /\ setup.fullBackup =>
       /\ lastRead = NoTime <=> base = NoTime
       /\ pc # "idle" => base # NoTime
       /\ base # NoTime /\ pc # "search" =>
            base <= now /\ \A s \in Stream : \A t \in logged[s] : base <= t

LEMMA LoggedInit == Init => LoggedInv
BY GroupAssumption DEF Init, LoggedInv

LEMMA LoggedStep == Inv /\ LoggedInv /\ [Next]_vars => LoggedInv'
<1> SUFFICES ASSUME Inv, LoggedInv, [Next]_vars PROVE LoggedInv'
  OBVIOUS
<1> USE DEF Inv, TypeOK, LoggedInv, cloudwatch
<1>1. CASE \E s \in Stream : Log(s)
  BY <1>1 DEF Log
<1>2. CASE Tick
  BY <1>2, GroupAssumption DEF Tick
<1>3. CASE UNCHANGED vars
  BY <1>3 DEF vars
<1>4. CASE Next /\ ~Tick /\ ~ \E s \in Stream : Log(s)
  BY <1>4 DEF Next, Reconfigure, BeginInit, FinishInit, Begin, ListStreams,
         ReadStream, Upload, UploadFails, CleanUp, SaveReadTime, SaveRunTime,
         Crash, FailingLoad, BlindInit, BlindFinishInit, BlindBegin, BlindRead,
         BlindCleanUp, BlindSaveReadTime, BlindSaveRunTime
<1> QED
  BY <1>1, <1>2, <1>3, <1>4

\* The search for the oldest event finds it, when every stream is looked up.
LEMMA SearchFindsOldest ==
  ASSUME Inv, LoggedInv, setup.cloudwatchDays = 0, "search" \notin Faults,
         NEW search \in SearchResult
  PROVE  /\ OldestStart(now, search) \in Int
         /\ OldestStart(now, search) <= now
         /\ \A s \in Stream : \A t \in logged[s] : OldestStart(now, search) <= t
<1> DEFINE T == UNION {Stored(s) : s \in Stream}
<1>1. \A s \in Stream : Stored(s) = logged[s]
  BY DEF Inv, TypeOK, Stored
<1>2. T \in SUBSET Nat /\ \A t \in T : t <= now
  BY <1>1, GroupAssumption DEF Inv, TypeOK, LoggedInv
<1>3. search = IF T = {} THEN [outcome |-> "none", time |-> NoTime]
               ELSE [outcome |-> "found", time |-> Oldest(T)]
  BY DEF SearchResult
<1>4. now \in Int /\ Day \in Nat
  BY GroupAssumption, TimeAssumption DEF Inv, TypeOK
<1>5. CASE T = {}
  <2>1. OldestStart(now, search) = now - 7 * Day
    BY <1>3, <1>5 DEF OldestStart
  <2>2. \A s \in Stream : logged[s] = {}
    BY <1>1, <1>5
  <2> QED
    BY <1>4, <2>1, <2>2
<1>6. CASE T # {}
  <2>1. OldestStart(now, search) = Oldest(T)
    BY <1>3, <1>6 DEF OldestStart
  <2>2. Oldest(T) \in T /\ \A u \in T : Oldest(T) <= u
    BY <1>2, <1>6, OldestIn
  <2>3. \A s \in Stream : logged[s] \subseteq T
    BY <1>1
  <2>4. Oldest(T) \in Nat /\ Oldest(T) <= now
    BY <1>2, <2>2
  <2>5. ASSUME NEW s \in Stream, NEW t \in logged[s] PROVE Oldest(T) <= t
    BY <2>2, <2>3
  <2> HIDE DEF T
  <2> QED
    BY <2>1, <2>4, <2>5
<1> QED
  BY <1>5, <1>6

LEMMA OldestStep ==
  ASSUME Undisturbed, "search" \notin Faults, NothingExpires,
         Inv, OldestInv, [Next]_vars
  PROVE  OldestInv'
<1>0. LoggedInv'
  BY LoggedStep DEF OldestInv
<1>1. CASE setup.fullBackup
  <2> USE DEF cloudwatch, state, times, work
  <2>a. now \in Int /\ base \in TimeOrNone /\ lastRead \in TimeOrNone
    BY DEF Inv, TypeOK
  <2>1. CASE BeginInit
    BY <1>0, <1>1, <2>1, <2>a, TimeAssumption
    DEF BeginInit, OldestInv, Undisturbed, SaveLost
  <2>2. CASE FinishInit
    <3>1. PICK search \in SearchResult :
            LET r == GetTimeRange(now, -1, setup.cloudwatchDays, NoTime, lastRun,
                                  search)
            IN  lastRead' = r.start /\ base' = r.start
      BY <2>2 DEF FinishInit, Undisturbed, SaveLost
    <3>2. lastRead' = OldestStart(now, search) /\ base' = OldestStart(now, search)
      BY <3>1 DEF GetTimeRange, FullBackupRange, Window, Between
    <3>3. /\ OldestStart(now, search) \in Int
          /\ OldestStart(now, search) <= now
          /\ \A s \in Stream : \A t \in logged[s] : OldestStart(now, search) <= t
      BY <1>1, SearchFindsOldest DEF OldestInv, NothingExpires
    <3>4. pc' = "idle" /\ UNCHANGED <<setup, now, logged>>
      BY <2>2 DEF FinishInit, Finish
    <3> QED
      BY <1>0, <3>2, <3>3, <3>4, TimeAssumption DEF OldestInv
  <2>3. CASE Begin
    <3>1. UNCHANGED <<setup, now, logged, lastRead, base>> /\ lastRead # NoTime
          /\ pc = "idle" /\ pc' # "search"
      BY <1>1, <2>3 DEF Begin, StartReading, Due
    <3> QED
      BY <1>0, <3>1 DEF OldestInv
  <2>4. CASE SaveReadTime
    <3>1. /\ pc = "save_read" /\ pc' = "save_run" /\ lastRead' = range.end
          /\ base' = base /\ UNCHANGED <<setup, now, logged>>
      BY <1>1, <2>4 DEF SaveReadTime, OldestInv, Undisturbed, SaveLost
    <3>2. range.end \in Int
      BY <3>1 DEF Inv, RangeInv, Running
    <3> QED
      BY <1>0, <1>1, <3>1, <3>2, TimeAssumption DEF OldestInv
  <2>5. CASE \E s \in Stream : Log(s)
    BY <1>0, <2>5 DEF Log, OldestInv, Inv, TypeOK
  <2>6. CASE Tick
    BY <1>0, <2>6, <2>a, TimeAssumption DEF Tick, OldestInv, TimeOrNone
  <2>7. CASE \/ ListStreams \/ (\E s \in Stream : ReadStream(s)) \/ Upload
             \/ UploadFails \/ CleanUp \/ SaveRunTime
    <3>1. UNCHANGED <<setup, now, logged, lastRead, base>>
      BY <2>7 DEF ListStreams, ReadStream, Upload, UploadFails, CleanUp,
                  SaveRunTime
    <3>2. pc \notin {"idle", "search"} /\ pc' # "search"
      BY <2>7 DEF ListStreams, ReadStream, Upload, UploadFails, CleanUp,
                  SaveRunTime, NextPrefix, Finish
    <3> QED
      BY <1>0, <3>1, <3>2 DEF OldestInv
  <2>8. CASE UNCHANGED vars
    BY <1>0, <2>8 DEF vars, OldestInv
  <2>9. ~Crash /\ ~Reconfigure /\ ~FailingLoad
    BY DEF Undisturbed, Crash, Reconfigure, FailingLoad
  <2> QED
    BY <2>1, <2>2, <2>3, <2>4, <2>5, <2>6, <2>7, <2>8, <2>9 DEF Next
<1>2. CASE ~setup.fullBackup
  <2>1. setup' = setup
    BY DEF Next, vars, cloudwatch, Undisturbed, Tick, Log, Reconfigure,
           BeginInit, FinishInit, Begin, ListStreams, ReadStream, Upload,
           UploadFails, CleanUp, SaveReadTime, SaveRunTime, Crash, FailingLoad
  <2> QED
    BY <1>0, <1>2, <2>1 DEF OldestInv
<1> QED
  BY <1>1, <1>2

\* A full backup misses nothing that is older than its start: the first run
\* finds the oldest event of all streams, whatever is logged meanwhile, and
\* no later error of listing, reading or uploading moves the start.
THEOREM BackupFromOldest ==
  ASSUME Undisturbed, "search" \notin Faults, NothingExpires
  PROVE  Spec => []FromOldest
<1>1. Init => OldestInv
  BY LoggedInit DEF Init, OldestInv
<1>2. Inv /\ OldestInv /\ [Next]_vars => OldestInv'
  BY OldestStep
<1>3. OldestInv => FromOldest
  BY DEF OldestInv, FromOldest
<1> QED
  BY <1>1, <1>2, <1>3, InvAlways, PTL DEF Spec

-----------------------------------------------------------------------------
(* Nothing is collected twice.  A range never starts before last_read_time *)
(* (not even that of a recovery, which goes back from now: the last run    *)
(* saved a time that is further back by as much as the deletion is away).  *)
(* So what is in S3 is behind the start of every range, and behind the     *)
(* token of its stream, until the stream is read.                          *)

\* No stream matches two prefixes.  A stream that does is read once for each,
\* from its token only if that is of the day the range starts on.
PrefixesDisjoint ==
  \A i, j \in 1..Len(Prefixes) : i # j => Matched(i) \cap Matched(j) = {}

Finite ==
  ~setup.fullBackup /\ setup.retentionDay > 0 /\ setup.cloudwatchDays > 0

\* How far the range of a finite retention ends before the clock.
Lag == EffectiveDays(setup.cloudwatchDays, setup.retentionDay) * Day

Unsaved == Running \ {"save_run"}

LagInv ==
  /\ lastRun # NoTime => lastRun <= now
  /\ Finite =>
       /\ pc # "search"
       /\ pc \in Running => range.end <= now - Lag
       /\ lastRead # NoTime =>
            \/ lastRun # NoTime /\ lastRead <= lastRun - Lag
            \/ pc = "save_run" /\ lastRead <= now - Lag

LEMMA LagType == TypeOK => Lag \in Nat
BY TimeAssumption DEF TypeOK, Setup, Lag, EffectiveDays

\* The range of an invocation and the state it starts from.
LEMMA BeginAhead ==
  ASSUME Inv, LagInv, pc = "idle", "lookup" \notin Faults,
         NEW days \in RetentionLookup, NEW search \in SearchResult,
         NEW r, r = GetTimeRange(now, ModeDay, days, lastRead, lastRun, search),
         r # NoRange
  PROVE  /\ lastRead # NoTime => lastRead <= r.start
         /\ Finite => r.end = now - Lag
<1> USE TimeAssumption
<1>a. /\ now \in Int /\ lastRead \in Int \cup {NoTime} /\ lastRun \in Int \cup {NoTime}
      /\ MinutesBack \in Nat /\ Lag \in Nat
  <2>1. Lag \in Nat
    BY LagType DEF Inv
  <2>2. /\ now \in Int /\ lastRead \in Int \cup {NoTime}
        /\ lastRun \in Int \cup {NoTime}
    BY DEF Inv, TypeOK, TimeOrNone
  <2> QED
    BY <2>1, <2>2
<1>b. days = setup.cloudwatchDays /\ days \in Nat /\ ModeDay \in Int
      /\ setup.retentionDay \in Int
  BY LookupType, ModeDayType DEF RetentionLookup, Inv, TypeOK, Setup
<1>1. CASE ModeDay > 0 /\ days # 0
  <2>1. Finite /\ ModeDay = setup.retentionDay
    BY <1>b, <1>1 DEF ModeDay, Finite
  <2>2. DeletionTime(now, days, ModeDay) = now - Lag
    BY <1>b, <2>1 DEF DeletionTime, Lag
  <2>3. r = RetentionRange(now - Lag, now, lastRead, lastRun)
    BY <1>1, <2>2 DEF GetTimeRange, Validated
  <2>4. CASE lastRead # NoTime /\ SinceLastRun(now, lastRead, lastRun) >= MinutesBack
    <3>1. lastRun # NoTime /\ lastRead <= lastRun - Lag
      BY <2>1, <2>4 DEF LagInv
    <3>2. now - lastRun >= MinutesBack
      BY <2>4, <3>1 DEF SinceLastRun
    <3>3. r.start = now - Lag - MinutesBack /\ r.end = now - Lag
      BY <2>3, <2>4 DEF RetentionRange, WindowUpTo, Between
    <3> QED
      BY <1>a, <3>1, <3>2, <3>3
  <2>5. CASE lastRead = NoTime
    BY <2>3, <2>5 DEF RetentionRange, WindowUpTo, Between
  <2>6. CASE lastRead # NoTime /\ ~ (SinceLastRun(now, lastRead, lastRun) >= MinutesBack)
    BY <1>a, <2>3, <2>6 DEF RetentionRange, Between
  <2> QED
    BY <2>4, <2>5, <2>6
<1>2. CASE ~ (ModeDay > 0 /\ days # 0)
  <2>1. ~Finite
    BY <1>b, <1>2 DEF Finite, ModeDay
  <2>2. CASE ModeDay > 0 \/ ModeDay = -1
    BY <1>a, <1>2, <2>1, <2>2 DEF GetTimeRange, FullBackupRange, Window, Between
  <2>3. CASE ~ (ModeDay > 0 \/ ModeDay = -1)
    <3>1. r = DefaultRange(now, lastRead)
      BY <1>2, <2>3 DEF GetTimeRange, Validated
    <3> QED
      BY <1>a, <2>1, <3>1 DEF DefaultRange, Window, WindowUpTo, Between
  <2> QED
    BY <2>1, <2>2, <2>3
<1> QED
  BY <1>1, <1>2

LEMMA LagStep ==
  ASSUME Undisturbed, "lookup" \notin Faults, Inv, LagInv, [Next]_vars
  PROVE  LagInv'
<1> USE DEF cloudwatch, state, times, entries, work
<1>a. now \in Int /\ Lag \in Nat /\ lastRun \in Int \cup {NoTime}
      /\ lastRead \in Int \cup {NoTime} /\ NoTime \notin Int
  BY LagType, GroupAssumption, TimeAssumption DEF Inv, TypeOK, TimeOrNone
<1>b. pc \in Running => range.end \in Int
  BY DEF Inv, RangeInv
<1>c. ASSUME setup' = setup PROVE Lag' = Lag /\ Finite' = Finite
  BY <1>c DEF Lag, Finite
<1>1. CASE Tick
  BY <1>1, <1>a, <1>b, <1>c DEF Tick, LagInv
<1>2. CASE Begin
  <2>1. PICK days \in RetentionLookup, search \in SearchResult :
          LET r == GetTimeRange(now, ModeDay, days, lastRead, lastRun, search)
          IN  IF r = NoRange THEN UNCHANGED <<pc, work>>
              ELSE range' = r /\ pc' \in {"list", "cleanup"}
    BY <1>2 DEF Begin, StartReading
  <2> DEFINE r == GetTimeRange(now, ModeDay, days, lastRead, lastRun, search)
  <2>2. UNCHANGED <<setup, now, lastRead, lastRun>> /\ pc = "idle"
    BY <1>2 DEF Begin, StartReading, Due
  <2>3. CASE r = NoRange
    BY <1>c, <2>1, <2>2, <2>3 DEF LagInv
  <2>4. CASE r # NoRange
    <3>1. Finite => r.end = now - Lag
      BY <2>2, <2>4, BeginAhead
    <3>2. range' = r /\ pc' \in {"list", "cleanup"}
      BY <2>1, <2>4
    <3> HIDE DEF r
    <3> QED
      BY <1>a, <1>c, <2>2, <3>1, <3>2 DEF LagInv
  <2> QED
    BY <2>3, <2>4
<1>3. CASE BeginInit \/ FinishInit
  BY <1>3, <1>c DEF BeginInit, FinishInit, Finish, LagInv, Finite, Running
<1>4. CASE SaveReadTime
  <2>1. lastRead' = range.end /\ pc = "save_read" /\ pc' = "save_run"
        /\ UNCHANGED <<setup, now, lastRun, range>>
    BY <1>4 DEF SaveReadTime, Undisturbed, SaveLost
  <2> QED
    BY <1>c, <2>1 DEF LagInv, Running
<1>5. CASE SaveRunTime
  <2>1. lastRun' = now /\ pc = "save_run" /\ pc' = "idle"
        /\ UNCHANGED <<setup, now, lastRead>>
    BY <1>5 DEF SaveRunTime, Finish, Undisturbed, SaveLost
  <2> QED
    BY <1>a, <1>c, <2>1 DEF LagInv, Running
<1>6. CASE \/ ListStreams \/ (\E s \in Stream : ReadStream(s)) \/ Upload
           \/ UploadFails \/ CleanUp \/ (\E s \in Stream : Log(s))
  <2>1. /\ UNCHANGED <<setup, now, lastRead, lastRun, range>>
        /\ pc' = pc \/ (pc \in Unsaved /\ pc' \in Running)
    BY <1>6 DEF ListStreams, ReadStream, Upload, UploadFails, CleanUp, Log,
                NextPrefix, Unsaved, Running
  <2> QED
    BY <1>c, <2>1 DEF LagInv, Unsaved, Running
<1>7. ~Crash /\ ~Reconfigure /\ ~FailingLoad
  BY DEF Undisturbed, Crash, Reconfigure, FailingLoad
<1>8. CASE UNCHANGED vars
  BY <1>8, <1>c DEF vars, LagInv
<1> QED
  BY <1>1, <1>2, <1>3, <1>4, <1>5, <1>6, <1>7, <1>8 DEF Next

LEMMA LagInit == Init => LagInv
BY TimeAssumption DEF Init, LagInv, Running

\* Streams that this invocation may still read.
Pending(s) ==
  \/ pc = "list" /\ \E i \in prefix..Len(Prefixes) : s \in Matched(i)
  \/ pc = "read" /\ \/ s \in todo
                    \/ \E i \in (prefix + 1)..Len(Prefixes) : s \in Matched(i)

\* Times that last_read_time will cover when the invocation has saved it.
Settled(s, t) == pc \in Unsaved /\ found /\ ~Pending(s) /\ t < range.end

ArchivedInv ==
  \A s \in Stream, t \in 0..MaxTime : archive[s][t] # 0 =>
    /\ archive[s][t] = 1
    /\ pc # "search"
    /\ token[s] # NoTime => t < token[s]
    /\ (lastRead # NoTime /\ t < lastRead) \/ Settled(s, t)

CollectedInv ==
  \A c \in collected :
    /\ pc = "read" /\ Settled(c.stream, c.time)
    /\ archive[c.stream][c.time] = 0
    /\ token[c.stream] # NoTime /\ c.time < token[c.stream]

TodoInv ==
  /\ pc \in Unsaved /\ lastRead # NoTime => lastRead <= range.start
  /\ pc = "read" => todo \subseteq Matched(prefix) /\ (todo # {} => found)

DupInv == ArchivedInv /\ CollectedInv /\ TodoInv

LEMMA DupInit == Init => DupInv
BY DEF Init, DupInv, ArchivedInv, CollectedInv, TodoInv, Unsaved, Running

\* What a stream still has to give is all after what it gave.
LEMMA ReadableFresh ==
  ASSUME Inv, DupInv, NEW s \in Stream, pc = "read", s \in todo,
         NEW t \in 0..MaxTime, archive[s][t] # 0
  PROVE  /\ t < range.start
         /\ \A u \in Readable(s) : u \in Nat /\ t < u
<1>1. /\ lastRead # NoTime /\ t < lastRead
      /\ token[s] # NoTime => t < token[s]
  BY DEF DupInv, ArchivedInv, Settled, Pending
<1>2. lastRead <= range.start
  BY <1>1 DEF DupInv, TodoInv, Unsaved, Running
<1>3. /\ lastRead \in Int /\ range.start \in Int /\ t \in Nat
      /\ token[s] \in Int \cup {NoTime}
  BY <1>1, GroupAssumption DEF Inv, TypeOK, TimeOrNone, RangeInv, Running
<1>4. Readable(s) \subseteq Nat
  BY StoredType, GroupAssumption DEF Readable, ReadableFrom, Inv
<1>5. t < range.start
  BY <1>1, <1>2, <1>3
<1>6. ASSUME NEW u \in Readable(s) PROVE t < u
  <2>1. u \in Nat
    BY <1>4
  <2>2. CASE UsesToken(s)
    <3>1. token[s] # NoTime /\ u >= token[s]
      BY <2>2 DEF Readable, ReadableFrom, UsesToken
    <3> QED
      BY <1>1, <1>3, <2>1, <3>1
  <2>3. CASE ~UsesToken(s)
    <3>1. u >= range.start
      BY <2>3 DEF Readable, ReadableFrom
    <3> QED
      BY <1>3, <1>5, <2>1, <3>1
  <2> QED
    BY <2>2, <2>3
<1> QED
  BY <1>4, <1>5, <1>6

\* A step that neither reads nor stores keeps the invariant when it does not
\* take back the read time, leaves the entries alone or drops them, and does
\* not open a stream that was settled.
LEMMA DupCarried ==
  ASSUME Inv, Inv', DupInv, archive' = archive, collected' \subseteq collected,
         collected' # {} => pc' = "read" /\ token' = token,
         \A s \in Stream : token'[s] \in {token[s], NoTime},
         pc' # "search",
         TodoInv',
         \A s \in Stream, t \in 0..MaxTime : Settled(s, t) =>
           \/ Settled(s, t)'
           \/ collected' = {} /\ lastRead' # NoTime /\ t < lastRead',
         lastRead # NoTime => lastRead' # NoTime /\ lastRead <= lastRead'
  PROVE  DupInv'
<1>1. ArchivedInv'
  <2> SUFFICES ASSUME NEW s \in Stream, NEW t \in 0..MaxTime, archive[s][t] # 0
               PROVE  /\ archive[s][t] = 1
                      /\ token'[s] # NoTime => t < token'[s]
                      /\ (lastRead' # NoTime /\ t < lastRead') \/ Settled(s, t)'
    BY DEF ArchivedInv
  <2>1. /\ archive[s][t] = 1
        /\ token[s] # NoTime => t < token[s]
        /\ (lastRead # NoTime /\ t < lastRead) \/ Settled(s, t)
    BY DEF DupInv, ArchivedInv
  <2>2. /\ lastRead # NoTime => lastRead \in Int
        /\ lastRead' # NoTime => lastRead' \in Int
        /\ t \in Int
    BY GroupAssumption DEF Inv, TypeOK, TimeOrNone
  <2> QED
    BY <2>1, <2>2
<1>2. CollectedInv'
  <2> SUFFICES ASSUME NEW c \in collected'
               PROVE  /\ pc' = "read" /\ Settled(c.stream, c.time)'
                      /\ archive[c.stream][c.time] = 0
                      /\ token'[c.stream] # NoTime /\ c.time < token'[c.stream]
    BY DEF CollectedInv
  <2>1. c.stream \in Stream /\ c.time \in 0..MaxTime
    BY DEF Inv, TypeOK
  <2> QED
    BY <2>1 DEF DupInv, CollectedInv
<1> QED
  BY <1>1, <1>2 DEF DupInv

LEMMA DupOutside ==
  ASSUME Undisturbed, "lookup" \notin Faults, Inv, Inv', LagInv, DupInv,
         \/ BeginInit \/ FinishInit \/ Begin \/ SaveReadTime \/ SaveRunTime
  PROVE  DupInv'
<1> USE DEF cloudwatch, state, times, entries, work
<1>1. CASE BeginInit \/ FinishInit
  <2>1. \A s \in Stream, t \in 0..MaxTime : archive[s][t] = 0
    BY <1>1 DEF BeginInit, FinishInit, Due, DupInv, ArchivedInv, Settled,
                Unsaved, Running
  <2>2. collected = {}
    BY <1>1 DEF BeginInit, FinishInit, Due, DupInv, CollectedInv
  <2>3. archive' = archive /\ collected' = {} /\ pc' \in {"search", "idle"}
    BY <1>1, <2>2 DEF BeginInit, FinishInit, Finish
  <2> QED
    BY <2>1, <2>3 DEF DupInv, ArchivedInv, CollectedInv, TodoInv, Unsaved,
                      Running
<1>2. CASE Begin
  <2>1. PICK days \in RetentionLookup, search \in SearchResult :
          LET r == GetTimeRange(now, ModeDay, days, lastRead, lastRun, search)
          IN  IF r = NoRange THEN UNCHANGED <<pc, work>>
              ELSE /\ range' = r /\ pc' \in {"list", "cleanup"}
                   /\ UNCHANGED <<todo, collected, found>>
    BY <1>2 DEF Begin, StartReading
  <2> DEFINE r == GetTimeRange(now, ModeDay, days, lastRead, lastRun, search)
  <2>2. UNCHANGED <<archive, lastRead, token>> /\ pc = "idle"
    BY <1>2 DEF Begin, StartReading, Due
  <2>3. \A s \in Stream, t \in 0..MaxTime : ~Settled(s, t)
    BY <2>2 DEF Settled, Unsaved, Running
  <2>4. collected = {}
    BY <2>2 DEF DupInv, CollectedInv
  <2>5. TodoInv' /\ collected' = {} /\ pc' # "search"
    <3>1. CASE r = NoRange
      BY <2>1, <2>2, <2>4, <3>1 DEF TodoInv, Unsaved, Running
    <3>2. CASE r # NoRange
      <4>1. lastRead # NoTime => lastRead <= r.start
        BY <2>2, <3>2, BeginAhead
      <4>2. range' = r /\ pc' \in {"list", "cleanup"} /\ collected' = {}
        BY <2>1, <2>4, <3>2
      <4> HIDE DEF r
      <4> QED
        BY <2>2, <4>1, <4>2 DEF TodoInv
    <3> QED
      BY <3>1, <3>2
  <2>6. lastRead # NoTime => lastRead <= lastRead
    BY DEF Inv, TypeOK, TimeOrNone
  <2> QED
    BY <2>2, <2>3, <2>5, <2>6, DupCarried
<1>3. CASE SaveReadTime
  <2>1. /\ pc = "save_read" /\ pc' = "save_run" /\ lastRead' = range.end
        /\ UNCHANGED <<archive, token, collected>>
    BY <1>3 DEF SaveReadTime, Undisturbed, SaveLost
  <2>2. collected' = {}
    BY <2>1 DEF DupInv, CollectedInv
  <2>3. /\ range.end \in Int
        /\ lastRead # NoTime => lastRead <= range.end
    BY <2>1 DEF Inv, RangeInv, BlindInv, Undisturbed, Running
  <2>4. \A s \in Stream, t \in 0..MaxTime : Settled(s, t) =>
          lastRead' # NoTime /\ t < lastRead'
    BY <2>1, <2>3, TimeAssumption DEF Settled
  <2>5. TodoInv'
    BY <2>1 DEF TodoInv, Unsaved
  <2> QED
    BY <2>1, <2>2, <2>3, <2>4, <2>5, TimeAssumption, DupCarried
<1>4. CASE SaveRunTime
  <2>1. pc = "save_run" /\ pc' = "idle" /\ collected' = {}
        /\ UNCHANGED <<archive, token, lastRead>>
    BY <1>4 DEF SaveRunTime, Finish
  <2>2. \A s \in Stream, t \in 0..MaxTime : ~Settled(s, t)
    BY <2>1 DEF Settled, Unsaved
  <2>3. TodoInv'
    BY <2>1 DEF TodoInv, Unsaved, Running
  <2>4. lastRead # NoTime => lastRead <= lastRead
    BY DEF Inv, TypeOK, TimeOrNone
  <2> QED
    BY <2>1, <2>2, <2>3, <2>4, DupCarried
<1> QED
  BY <1>1, <1>2, <1>3, <1>4

LEMMA DupInside ==
  ASSUME Inv, Inv', DupInv,
         \/ ListStreams \/ UploadFails \/ CleanUp \/ Tick
         \/ \E s \in Stream : Log(s)
         \/ UNCHANGED vars
  PROVE  DupInv'
<1> USE DEF cloudwatch, state, times, entries, work
<1>1. lastRead # NoTime => lastRead <= lastRead
  BY DEF Inv, TypeOK, TimeOrNone
<1>2. CASE ListStreams
  <2>1. /\ pc = "list" /\ pc' = "read" /\ UNCHANGED <<archive, token, lastRead>>
        /\ UNCHANGED <<range, prefix>>
    BY <1>2 DEF ListStreams
  <2>2. todo' \subseteq Matched(prefix) /\ (found => found') /\ (todo' # {} => found')
    <3>1. PICK Listed \in SUBSET Matched(prefix) :
            todo' = {s \in Listed : InRange(s)} /\ found' = (found \/ Listed # {})
      BY <1>2 DEF ListStreams
    <3> QED
      BY <3>1
  <2>3. collected = {} /\ collected' = {}
    BY <1>2, <2>1 DEF DupInv, CollectedInv, ListStreams
  <2>4. \A s \in Stream, t \in 0..MaxTime : Settled(s, t) => Settled(s, t)'
    <3>1. prefix \in 1..Len(Prefixes) /\ Len(Prefixes) \in Nat
      BY <2>1, LenPrefixes DEF Inv, PrefixInv
    <3>2. prefix \in prefix..Len(Prefixes)
          /\ (prefix + 1)..Len(Prefixes) \subseteq prefix..Len(Prefixes)
      BY <3>1
    <3>3. \A s \in Stream : ~Pending(s) => ~Pending(s)'
      BY <2>1, <2>2, <3>2 DEF Pending
    <3> QED
      BY <2>1, <2>2, <3>3 DEF Settled, Unsaved, Running
  <2>5. TodoInv'
    BY <2>1, <2>2 DEF DupInv, TodoInv, Unsaved, Running, Matched
  <2> QED
    BY <1>1, <2>1, <2>3, <2>4, <2>5, DupCarried
<1>3. CASE UploadFails
  <2>1. /\ pc = "read" /\ pc' \in {"list", "cleanup"} /\ collected' = {}
        /\ UNCHANGED <<archive, token, lastRead, range, found>>
        /\ pc' = "list" => prefix' = prefix + 1
    BY <1>3 DEF UploadFails, NextPrefix
  <2>2. \A s \in Stream, t \in 0..MaxTime : Settled(s, t) => Settled(s, t)'
    BY <2>1 DEF Settled, Pending, Unsaved, Running
  <2>3. TodoInv'
    BY <2>1 DEF DupInv, TodoInv, Unsaved, Running
  <2> QED
    BY <1>1, <2>1, <2>2, <2>3, DupCarried
<1>4. CASE CleanUp
  <2>1. /\ pc = "cleanup" /\ pc' = (IF found THEN "save_read" ELSE "save_run")
        /\ UNCHANGED <<archive, lastRead, work>>
    BY <1>4 DEF CleanUp
  <2>2. collected = {} /\ collected' = {}
    BY <2>1 DEF DupInv, CollectedInv
  <2>3. \A s \in Stream : token'[s] \in {token[s], NoTime}
    BY <1>4 DEF CleanUp
  <2>4. \A s \in Stream, t \in 0..MaxTime : Settled(s, t) => Settled(s, t)'
    BY <2>1 DEF Settled, Pending, Unsaved, Running
  <2>5. TodoInv'
    BY <2>1 DEF DupInv, TodoInv, Unsaved, Running
  <2> QED
    BY <1>1, <2>1, <2>2, <2>3, <2>4, <2>5, DupCarried
<1>5. CASE Tick \/ (\E s \in Stream : Log(s)) \/ UNCHANGED vars
  <2>1. UNCHANGED <<lastRead, token, archive, pc, work>>
    BY <1>5 DEF Tick, Log, vars
  <2> QED
    BY <2>1 DEF DupInv, ArchivedInv, CollectedInv, TodoInv, Settled, Pending
<1> QED
  BY <1>2, <1>3, <1>4, <1>5

LEMMA DupUpload ==
  ASSUME Inv, Inv', DupInv, Upload
  PROVE  DupInv'
<1> USE DEF cloudwatch, state, times, entries
<1>1. /\ pc = "read" /\ pc' \in {"list", "cleanup"} /\ collected' = {}
      /\ UNCHANGED <<token, lastRead, range, found>>
      /\ pc' = "list" => prefix' = prefix + 1
  BY DEF Upload, NextPrefix
<1>2. \A s \in Stream, t \in 0..MaxTime : Settled(s, t) => Settled(s, t)'
  BY <1>1 DEF Settled, Pending, Unsaved, Running
<1>3. TodoInv'
  BY <1>1 DEF DupInv, TodoInv, Unsaved, Running
<1>4. ASSUME NEW s \in Stream, NEW t \in 0..MaxTime, archive'[s][t] # 0
      PROVE  /\ archive'[s][t] = 1
             /\ pc' # "search"
             /\ token'[s] # NoTime => t < token'[s]
             /\ (lastRead' # NoTime /\ t < lastRead') \/ Settled(s, t)'
  <2> DEFINE copy == IF [stream |-> s, time |-> t] \in collected THEN 1 ELSE 0
  <2>1. archive'[s][t] = archive[s][t] + copy
    BY DEF Upload
  <2>2. archive[s][t] \in Nat
    <3>1. archive[s] \in [0..MaxTime -> Nat]
      BY DEF Inv, TypeOK
    <3> QED
      BY <3>1
  <2>3. CASE [stream |-> s, time |-> t] \in collected
    <3> DEFINE c == [stream |-> s, time |-> t]
    <3>1. c.stream = s /\ c.time = t
      OBVIOUS
    <3>2. /\ archive[c.stream][c.time] = 0 /\ Settled(c.stream, c.time)
          /\ token[c.stream] # NoTime /\ c.time < token[c.stream]
      BY <2>3 DEF DupInv, CollectedInv
    <3>3. archive[s][t] = 0 /\ Settled(s, t) /\ token[s] # NoTime /\ t < token[s]
      BY <3>1, <3>2
    <3> QED
      BY <1>1, <1>2, <2>1, <2>3, <3>3
  <2>4. CASE [stream |-> s, time |-> t] \notin collected
    <3>1. archive'[s][t] = archive[s][t]
      BY <2>1, <2>2, <2>4
    <3>2. /\ archive[s][t] = 1
          /\ token[s] # NoTime => t < token[s]
          /\ (lastRead # NoTime /\ t < lastRead) \/ Settled(s, t)
      BY <1>4, <3>1 DEF DupInv, ArchivedInv
    <3>3. Settled(s, t) => Settled(s, t)'
      BY <1>2
    <3> QED
      BY <1>1, <3>1, <3>2, <3>3
  <2> QED
    BY <2>3, <2>4
<1>5. ArchivedInv'
  BY <1>4 DEF ArchivedInv
<1>6. CollectedInv'
  BY <1>1 DEF CollectedInv
<1> QED
  BY <1>3, <1>5, <1>6 DEF DupInv

\* The entry of a stream that is read moves past all that the stream gave.
LEMMA DupRead ==
  ASSUME Undisturbed, PrefixesDisjoint, Inv, Inv', DupInv,
         NEW s \in Stream, ReadStream(s)
  PROVE  DupInv'
<1> USE DEF cloudwatch, state, times, entries
<1>1. /\ pc = "read" /\ s \in todo /\ todo' = todo \ {s} /\ found
      /\ UNCHANGED <<lastRead, archive, pc, range, prefix, found>>
  BY DEF ReadStream, DupInv, TodoInv
<1>2. PICK T \in ReadOutcome(s) :
        /\ collected' = collected \cup [stream : {s}, time : T]
        /\ \/ T # {} /\ SaveEntry(s, Newest(T) + 1, Newest(T))
           \/ T = {} /\ UNCHANGED entries
           \/ T = {} /\ \E next \in {range.start, range.end} :
                          SaveEntry(s, next, range.end)
  BY DEF ReadStream
<1>3. /\ T \subseteq Readable(s) /\ T \in SUBSET (0..MaxTime)
      /\ T # {} => /\ Newest(T) \in T /\ \A u \in T : u <= Newest(T)
                   /\ Newest(T) \in 0..MaxTime
  BY ReadOutcomeType, ReadTimes, NewestIn, GroupAssumption DEF Inv
<1>4. \A t \in 0..MaxTime : archive[s][t] # 0 =>
        t < range.start /\ \A u \in Readable(s) : u \in Nat /\ t < u
  BY <1>1, ReadableFresh
<1>5. range.start \in Int /\ range.end \in Int /\ range.start < range.end
  BY <1>1 DEF Inv, RangeInv, Running
<1>6. \A u \in T : u < range.end
  BY <1>3 DEF Readable, ReadableFrom
<1>7. \A x \in Stream : ~Pending(x) => ~Pending(x)'
  BY <1>1 DEF Pending
<1>8. ~Pending(s)'
  <2>1. prefix \in 1..Len(Prefixes) /\ s \in Matched(prefix) /\ Len(Prefixes) \in Nat
    BY <1>1, LenPrefixes DEF Inv, PrefixInv, DupInv, TodoInv
  <2>2. ASSUME NEW i \in (prefix + 1)..Len(Prefixes) PROVE s \notin Matched(i)
    BY <2>1 DEF PrefixesDisjoint
  <2> QED
    BY <1>1, <2>2 DEF Pending
<1>9. \A x \in Stream : x # s => token'[x] = token[x]
  BY <1>2 DEF SaveEntry, Inv, TypeOK
<1>10. \A t \in 0..MaxTime : archive[s][t] # 0 => (token'[s] # NoTime => t < token'[s])
  <2> SUFFICES ASSUME NEW t \in 0..MaxTime, archive[s][t] # 0, token'[s] # NoTime
               PROVE  t < token'[s]
    OBVIOUS
  <2>1. t \in Nat /\ t < range.start /\ \A u \in T : t < u
    BY <1>3, <1>4, GroupAssumption
  <2>2. CASE UNCHANGED entries
    BY <2>2 DEF DupInv, ArchivedInv
  <2>3. CASE T # {} /\ SaveEntry(s, Newest(T) + 1, Newest(T))
    <3>1. token'[s] = Newest(T) + 1
      BY <2>3 DEF SaveEntry, Undisturbed, SaveLost, Inv, TypeOK
    <3> QED
      BY <1>3, <2>1, <2>3, <3>1, GroupAssumption
  <2>4. CASE \E next \in {range.start, range.end} : SaveEntry(s, next, range.end)
    <3>1. token'[s] \in {range.start, range.end}
      BY <2>4 DEF SaveEntry, Undisturbed, SaveLost, Inv, TypeOK
    <3> QED
      BY <1>5, <2>1, <3>1
  <2> QED
    BY <1>2, <2>2, <2>3, <2>4
<1>11. ArchivedInv'
  <2> SUFFICES ASSUME NEW x \in Stream, NEW t \in 0..MaxTime, archive[x][t] # 0
               PROVE  /\ archive[x][t] = 1
                      /\ token'[x] # NoTime => t < token'[x]
                      /\ (lastRead # NoTime /\ t < lastRead) \/ Settled(x, t)'
    BY <1>1 DEF ArchivedInv
  <2>1. /\ archive[x][t] = 1
        /\ token[x] # NoTime => t < token[x]
        /\ (lastRead # NoTime /\ t < lastRead) \/ Settled(x, t)
    BY DEF DupInv, ArchivedInv
  <2>2. Settled(x, t) => Settled(x, t)'
    BY <1>1, <1>7 DEF Settled
  <2> QED
    BY <1>9, <1>10, <2>1, <2>2
<1>12. CollectedInv'
  <2> SUFFICES ASSUME NEW c \in collected'
               PROVE  /\ Settled(c.stream, c.time)'
                      /\ archive[c.stream][c.time] = 0
                      /\ token'[c.stream] # NoTime /\ c.time < token'[c.stream]
    BY <1>1 DEF CollectedInv
  <2>1. CASE c \in collected
    <3>1. /\ Settled(c.stream, c.time)
          /\ archive[c.stream][c.time] = 0
          /\ token[c.stream] # NoTime /\ c.time < token[c.stream]
          /\ c.stream \in Stream
      BY <2>1 DEF DupInv, CollectedInv, Inv, TypeOK
    <3>2. c.stream # s
      BY <1>1, <3>1 DEF Settled, Pending
    <3>3. Settled(c.stream, c.time)'
      BY <1>1, <1>7, <3>1 DEF Settled
    <3> QED
      BY <1>9, <3>1, <3>2, <3>3
  <2>2. CASE c \in [stream : {s}, time : T]
    <3>1. c.stream = s /\ c.time \in T
      BY <2>2
    <3>2. token'[s] = Newest(T) + 1
      BY <1>2, <3>1 DEF SaveEntry, Undisturbed, SaveLost, Inv, TypeOK
    <3>3. c.time < token'[s] /\ token'[s] \in Int
      <4>1. c.time <= Newest(T) /\ Newest(T) \in 0..MaxTime /\ c.time \in 0..MaxTime
        BY <1>3, <3>1
      <4> QED
        BY <3>2, <4>1, GroupAssumption
    <3>4. archive[s][c.time] = 0
      <4>1. c.time \in 0..MaxTime /\ c.time \in Readable(s)
        BY <1>3, <3>1
      <4>2. ~(c.time < c.time)
        BY <4>1, GroupAssumption
      <4> QED
        BY <1>4, <4>1, <4>2
    <3>5. Settled(s, c.time)'
      BY <1>1, <1>6, <1>8, <3>1 DEF Settled, Unsaved, Running
    <3> QED
      BY <3>1, <3>3, <3>4, <3>5, TimeAssumption
  <2> QED
    BY <1>2, <2>1, <2>2
<1>13. TodoInv'
  BY <1>1 DEF DupInv, TodoInv, Matched
<1> QED
  BY <1>11, <1>12, <1>13 DEF DupInv

\* No event is stored twice, and none is stored in one run that an earlier
\* run has stored (README.md:10, 181), as long as every run ends and the state
\* file is loaded and saved: whatever the schedule, the mode and the pauses between the
\* runs, recovery runs included, and whatever CloudWatch and S3 refuse.
THEOREM StoredOnce ==
  ASSUME Undisturbed, "lookup" \notin Faults, PrefixesDisjoint
  PROVE  Spec => []NoDuplicate
<1> DEFINE I == LagInv /\ DupInv
<1>1. Init => I
  BY LagInit, DupInit
<1>2. ASSUME Inv, Inv', I, [Next]_vars PROVE I'
  <2>1. LagInv'
    BY <1>2, LagStep
  <2>2. ~Crash /\ ~Reconfigure /\ ~FailingLoad
    BY DEF Undisturbed, Crash, Reconfigure, FailingLoad
  <2>3. DupInv'
    BY <1>2, <2>2, DupOutside, DupInside, DupUpload, DupRead DEF Next
  <2> QED
    BY <2>1, <2>3
<1>3. ASSUME Inv, I PROVE NoDuplicate
  <2> SUFFICES ASSUME NEW s \in Stream, NEW t \in 0..MaxTime
               PROVE  archive[s][t] <= 1
    BY DEF NoDuplicate
  <2>1. archive[s][t] \in {0, 1}
    BY <1>3 DEF DupInv, ArchivedInv
  <2> QED
    BY <2>1
<1> QED
  <2> HIDE DEF I
  <2> QED
    BY <1>1, <1>2, <1>3, InvAlways, PTL DEF Spec

-----------------------------------------------------------------------------
(* Nothing is left out.  Three things must come together: nothing fails,   *)
(* one reading of a stream gives all it has, and the runs are in time, that*)
(* is, a range joins the last one, is over when it is read, and has not    *)
(* been deleted yet.                                                       *)

NothingRefused == Faults \cap {"list", "read", "upload"} = {}

\* What there is to read of a stream fits in what one reading gives.
Fits ==
  pc = "read" =>
    \A s \in todo :
      Cardinality(Readable(s)) <= IF UsesToken(s) THEN PageSize * MaxIterations
                                                  ELSE PageSize

Timely ==
  /\ lastRead # NoTime => lastRead <= now
  /\ pc \in Unsaved =>
       /\ lastRead # NoTime => range.start <= lastRead
       /\ range.end <= now
       /\ setup.cloudwatchDays = 0 \/ now - setup.cloudwatchDays * Day <= range.start

\* Streams this invocation has read, and the time from which it owes them.
Done(s) ==
  \/ pc \in {"list", "read"} /\ \E i \in 1..(prefix - 1) : s \in Matched(i)
  \/ pc = "read" /\ s \in Matched(prefix) \ todo
  \/ pc \in {"cleanup", "save_read"} /\ s \in Configured

From == IF lastRead = NoTime THEN range.start ELSE lastRead

Kept(s, t) ==
  archive[s][t] > 0 \/ (pc = "read" /\ [stream |-> s, time |-> t] \in collected)

FoundInv ==
  /\ pc \in {"list", "read"} =>
       \A i \in 1..(prefix - 1) : Matched(i) # {} => found
  /\ pc = "read" => (Matched(prefix) # {} => found)
  /\ pc \in {"cleanup", "save_read"} => (Configured # {} => found)

BaseInv == (lastRead = NoTime <=> base = NoTime) /\ (pc = "search" => base = lastRead)

DoneInv ==
  \A s \in Stream : Done(s) =>
    \A t \in logged[s] : From <= t /\ t < range.end => Kept(s, t)

TokenInv ==
  \A s \in Stream : token[s] # NoTime =>
    (lastRead # NoTime /\ token[s] <= lastRead) \/ Done(s)

CompleteInv == Complete /\ BaseInv /\ DoneInv /\ TokenInv

LEMMA AllTimes ==
  ASSUME NEW T, IsFiniteSet(T), NEW n \in Nat, Cardinality(T) <= n
  PROVE  FirstTimes(T, n) = T /\ LastTimes(T, n) = T
<1>1. ASSUME NEW S \in SUBSET T PROVE Cardinality(S) <= n
  <2>1. Cardinality(S) <= Cardinality(T) /\ IsFiniteSet(S)
    BY FS_Subset
  <2>2. Cardinality(S) \in Nat /\ Cardinality(T) \in Nat
    BY <2>1, FS_CardinalityType
  <2> QED
    BY <2>1, <2>2
<1> QED
  BY <1>1 DEF FirstTimes, LastTimes

\* A reading that fits gives everything.
LEMMA ReadAll ==
  ASSUME Inv, Fits, NothingRefused, NEW s \in Stream, pc = "read", s \in todo,
         NEW T \in ReadOutcome(s)
  PROVE  T = Readable(s)
<1>1. IsFiniteSet(Readable(s))
  <2>1. Readable(s) \subseteq 0..MaxTime
    BY StoredType DEF Readable, ReadableFrom, Inv
  <2>2. IsFiniteSet(0..MaxTime)
    BY FS_Interval, GroupAssumption
  <2> QED
    BY <2>1, <2>2, FS_Subset
<1>2. PageSize \in Nat /\ PageSize * MaxIterations \in Nat
  BY GroupAssumption
<1>3. T = IF UsesToken(s) THEN FirstTimes(Readable(s), PageSize * MaxIterations)
                          ELSE LastTimes(Readable(s), PageSize)
  BY DEF ReadOutcome, OutcomeOf, NothingRefused
<1>4. CASE UsesToken(s)
  <2>1. Cardinality(Readable(s)) <= PageSize * MaxIterations
    BY <1>4 DEF Fits
  <2> QED
    BY <1>1, <1>2, <1>3, <1>4, <2>1, AllTimes
<1>5. CASE ~UsesToken(s)
  <2>1. Cardinality(Readable(s)) <= PageSize
    BY <1>5 DEF Fits
  <2> QED
    BY <1>1, <1>2, <1>3, <1>5, <2>1, AllTimes
<1> QED
  BY <1>4, <1>5

TodoList == pc = "read" => todo \subseteq Matched(prefix)

LEMMA TodoStep ==
  ASSUME "load" \notin Faults, TodoList, [Next]_vars PROVE TodoList'
<1> USE DEF TodoList, Matched, work
<1>1. CASE ListStreams
  <2>1. PICK Listed \in SUBSET Matched(prefix) : todo' = {s \in Listed : InRange(s)}
    BY <1>1 DEF ListStreams
  <2> QED
    BY <1>1, <2>1 DEF ListStreams
<1>2. CASE \/ Tick \/ (\E s \in Stream : Log(s)) \/ Reconfigure \/ UNCHANGED vars
           \/ \E s \in Stream : ReadStream(s)
  BY <1>2 DEF Tick, Log, Reconfigure, ReadStream, vars
<1>3. CASE \/ Upload \/ UploadFails \/ Begin \/ BeginInit \/ FinishInit
           \/ CleanUp \/ SaveReadTime \/ SaveRunTime \/ Crash
  <2>1. pc' # "read"
    BY <1>3 DEF Upload, UploadFails, NextPrefix, Begin, StartReading, Due, BeginInit,
                FinishInit, CleanUp, SaveReadTime, SaveRunTime, Crash, Finish
  <2> QED
    BY <2>1
<1> QED
  BY <1>1, <1>2, <1>3 DEF Next, FailingLoad

LEMMA FoundInit == Init => FoundInv
BY DEF Init, FoundInv

LEMMA FoundStep ==
  ASSUME NothingRefused, "load" \notin Faults, Inv, FoundInv, [Next]_vars
  PROVE  FoundInv'
<1> USE DEF FoundInv, work, Matched, Configured
<1>1. CASE ListStreams
  <2>1. /\ found' = (found \/ Matched(prefix) # {})
        /\ pc = "list" /\ pc' = "read" /\ prefix' = prefix
    BY <1>1 DEF ListStreams, NothingRefused
  <2> QED
    BY <2>1
<1>2. CASE Upload \/ UploadFails
  <2>1. /\ pc = "read" /\ found' = found
        /\ IF prefix = Len(Prefixes) THEN pc' = "cleanup" /\ prefix' = prefix
           ELSE pc' = "list" /\ prefix' = prefix + 1
    BY <1>2 DEF Upload, UploadFails, NextPrefix
  <2>2. prefix \in Nat /\ \A i \in 1..prefix : i = prefix \/ i \in 1..(prefix - 1)
    BY LenPrefixes DEF Inv, TypeOK
  <2>3. \A i \in 1..prefix : Matched(i) # {} => found
    BY <2>1, <2>2
  <2>4. CASE prefix = Len(Prefixes)
    BY <2>1, <2>3, <2>4
  <2>5. CASE prefix # Len(Prefixes)
    <3>1. prefix' - 1 = prefix
      BY <2>1, <2>2, <2>5
    <3> QED
      BY <2>1, <2>3, <2>5, <3>1
  <2> QED
    BY <2>4, <2>5
<1>3. CASE Begin
  <2>1. pc = "idle" /\ \/ UNCHANGED pc
                       \/ pc' = "cleanup" /\ Len(Prefixes) = 0
                       \/ pc' = "list" /\ prefix' = 1
    BY <1>3 DEF Begin, StartReading, Due
  <2>2. pc' = "cleanup" => Configured = {}
    BY <2>1
  <2> QED
    BY <2>1, <2>2
<1>4. CASE CleanUp
  BY <1>4 DEF CleanUp
<1>5. CASE Tick \/ (\E s \in Stream : Log(s)) \/ Reconfigure
           \/ (\E s \in Stream : ReadStream(s)) \/ UNCHANGED vars
  <2>1. UNCHANGED <<pc, prefix, found>>
    BY <1>5 DEF Tick, Log, Reconfigure, ReadStream, vars
  <2> QED
    BY <2>1
<1>6. CASE SaveReadTime \/ BeginInit \/ FinishInit \/ SaveRunTime \/ Crash
  <2>1. pc' \in {"save_run", "search", "idle"}
    BY <1>6 DEF SaveReadTime, BeginInit, FinishInit, SaveRunTime, Crash, Finish
  <2> QED
    BY <2>1
<1> QED
  BY <1>1, <1>2, <1>3, <1>4, <1>5, <1>6 DEF Next, FailingLoad

LEMMA CompleteInit == Init => CompleteInv
BY TimeAssumption DEF Init, CompleteInv, Complete, BaseInv, DoneInv, TokenInv, Done

\* In time: what a range starts with is from last_read_time on or before.
LEMMA FromRange ==
  ASSUME Inv, Timely, pc \in Unsaved
  PROVE  /\ From \in Int /\ range.start \in Int /\ range.end \in Int /\ now \in Int
         /\ range.start <= From /\ range.end <= now
         /\ lastRead # NoTime => From = lastRead
         /\ lastRead \in TimeOrNone
<1>1. range.start \in Int /\ range.end \in Int
  BY DEF Inv, RangeInv, Unsaved
<1>2. lastRead \in TimeOrNone /\ now \in Int
  BY GroupAssumption DEF Inv, TypeOK
<1> QED
  BY <1>1, <1>2 DEF Timely, From, TimeOrNone

\* A step that only lists, reads or stores: nothing that was kept is lost, and
\* the streams that are newly done have nothing to answer for.
LEMMA CompleteCarried ==
  ASSUME Inv, Inv', CompleteInv,
         UNCHANGED <<lastRead, base, logged>>,
         \A s \in Stream : \A t \in logged[s] : archive[s][t] > 0 => archive'[s][t] > 0,
         pc \in Unsaved /\ pc' \in Unsaved, UNCHANGED range,
         \A s \in Stream : \A t \in logged[s] :
           Done(s)' /\ From <= t /\ t < range.end =>
             Kept(s, t)' \/ (Done(s) /\ (Kept(s, t) => Kept(s, t)')),
         \A s \in Stream : Done(s) => Done(s)' \/ token'[s] = NoTime,
         \A s \in Stream : token'[s] # NoTime => token'[s] = token[s] \/ Done(s)'
  PROVE  CompleteInv'
<1>1. Complete'
  <2>1. logged \in [Stream -> SUBSET (0..MaxTime)]
    BY DEF Inv, TypeOK
  <2>2. Configured \subseteq Stream /\ Configured' = Configured
    BY MatchedType DEF Configured, Matched
  <2> QED
    BY <2>1, <2>2 DEF CompleteInv, Complete
<1>2. BaseInv'
  BY DEF CompleteInv, BaseInv, Unsaved, Running
<1>3. DoneInv'
  <2>1. From' = From
    BY DEF From
  <2> QED
    BY <2>1 DEF CompleteInv, DoneInv
<1>4. TokenInv'
  BY DEF CompleteInv, TokenInv
<1> QED
  BY <1>1, <1>2, <1>3, <1>4 DEF CompleteInv

LEMMA CompleteList ==
  ASSUME Inv, Inv', Timely, NothingRefused, CompleteInv, ListStreams
  PROVE  CompleteInv'
<1> USE DEF cloudwatch, state, times, entries
<1>1. /\ pc = "list" /\ pc' = "read"
      /\ UNCHANGED <<logged, lastRead, base, token, archive, range, prefix, setup>>
      /\ todo' = {s \in Matched(prefix) : InRange(s)}
  BY DEF ListStreams, NothingRefused
<1>2. \A s \in Stream : Done(s) => Done(s)'
  BY <1>1 DEF Done, Matched
<1>3. ASSUME NEW s \in Stream, NEW t \in logged[s], From <= t, t < range.end,
             Done(s)', ~Done(s)
      PROVE  FALSE
  <2>1. s \in Matched(prefix) \ todo'
    BY <1>1, <1>3 DEF Done, Matched
  <2>2. ~InRange(s)
    BY <1>1, <2>1
  <2>3. logged[s] \in SUBSET (0..MaxTime) /\ logged[s] # {}
    BY <1>3 DEF Inv, TypeOK
  <2>4. Newest(logged[s]) >= t /\ Newest(logged[s]) \in 0..MaxTime
    BY <1>3, <2>3, NewestIn, GroupAssumption
  <2>5. Oldest(logged[s]) <= t /\ Oldest(logged[s]) \in 0..MaxTime
    <3>1. logged[s] \in SUBSET Nat
      BY <2>3, GroupAssumption
    <3> QED
      BY <1>3, <2>3, <3>1, OldestIn
  <2>6. Newest(logged[s]) < range.start \/ Oldest(logged[s]) > range.end
    BY <2>2 DEF InRange
  <2>7. From \in Int /\ range.start \in Int /\ range.end \in Int /\ range.start <= From
    BY <1>1, FromRange DEF Unsaved, Running
  <2>8. t \in Int /\ MaxTime \in Nat
    BY <2>3, GroupAssumption
  <2> QED
    BY <1>3, <2>4, <2>5, <2>6, <2>7, <2>8
<1>4. \A s \in Stream : \A t \in logged[s] :
        Done(s)' /\ From <= t /\ t < range.end =>
          Kept(s, t)' \/ (Done(s) /\ (Kept(s, t) => Kept(s, t)'))
  BY <1>1, <1>3 DEF Kept
<1> QED
  BY <1>1, <1>2, <1>4, CompleteCarried DEF Unsaved, Running

LEMMA CompleteRead ==
  ASSUME Inv, Inv', Timely, Fits, NothingRefused, CompleteInv, FoundInv,
         NEW s \in Stream, ReadStream(s), TodoList
  PROVE  CompleteInv'
<1> USE DEF cloudwatch, state, times, entries
<1>1. /\ pc = "read" /\ pc' = "read" /\ s \in todo /\ todo' = todo \ {s}
      /\ UNCHANGED <<logged, lastRead, base, archive, range, prefix, setup>>
  BY DEF ReadStream
<1>2. s \in Matched(prefix)
  BY <1>1 DEF TodoList
<1>3. \A x \in Stream : Done(x)' <=> Done(x) \/ x = s
  BY <1>1, <1>2 DEF Done, Matched
<1>4. collected' = collected \cup [stream : {s}, time : Readable(s)]
      /\ \A x \in Stream : x # s => token'[x] = token[x]
  <2>1. PICK T \in ReadOutcome(s) :
          /\ collected' = collected \cup [stream : {s}, time : T]
          /\ \/ UNCHANGED entries
             \/ \E next, time : SaveEntry(s, next, time)
    BY DEF ReadStream
  <2>2. T = Readable(s)
    BY <1>1, ReadAll
  <2>3. \A x \in Stream : x # s => token'[x] = token[x]
    BY <2>1 DEF SaveEntry, Inv, TypeOK
  <2> QED
    BY <2>1, <2>2, <2>3
<1>5. ASSUME NEW t \in logged[s], From <= t, t < range.end, ~Done(s)
      PROVE  t \in Readable(s)
  <2>1. /\ From \in Int /\ range.start \in Int /\ range.end \in Int
        /\ now \in Int /\ range.start <= From
        /\ lastRead # NoTime => From = lastRead
        /\ lastRead \in TimeOrNone
    BY <1>1, FromRange DEF Unsaved, Running
  <2>2. t \in Int
    BY GroupAssumption DEF Inv, TypeOK
  <2>3. t \in Stored(s)
    <3>1. setup.cloudwatchDays = 0 \/ now - setup.cloudwatchDays * Day <= range.start
      BY <1>1 DEF Timely, Unsaved, Running
    <3>2. setup.cloudwatchDays * Day \in Int
      BY TimeAssumption DEF Inv, TypeOK, Setup
    <3> QED
      BY <1>5, <2>1, <2>2, <3>1, <3>2 DEF Stored
  <2>4. t >= range.start
    BY <1>5, <2>1, <2>2
  <2>5. UsesToken(s) => t >= token[s]
    <3>1. token[s] # NoTime => lastRead # NoTime /\ token[s] <= lastRead
      BY <1>5 DEF CompleteInv, TokenInv
    <3>2. token[s] \in TimeOrNone
      BY DEF Inv, TypeOK
    <3> QED
      BY <1>5, <2>1, <2>2, <3>1, <3>2 DEF UsesToken, TimeOrNone
  <2> QED
    BY <1>5, <2>3, <2>4, <2>5 DEF Readable, ReadableFrom
<1>6. \A x \in Stream : \A t \in logged[x] : Kept(x, t) => Kept(x, t)'
  BY <1>1, <1>4 DEF Kept
<1>7. ASSUME NEW t \in logged[s], From <= t, t < range.end
      PROVE  Kept(s, t)' \/ Done(s)
  BY <1>1, <1>4, <1>5, <1>7 DEF Kept
<1> QED
  BY <1>1, <1>3, <1>4, <1>6, <1>7, CompleteCarried DEF Unsaved, Running

LEMMA CompleteUpload ==
  ASSUME Inv, Inv', CompleteInv, Upload
  PROVE  CompleteInv'
<1> USE DEF cloudwatch, state, times, entries
<1>1. /\ pc = "read" /\ todo = {}
      /\ UNCHANGED <<logged, lastRead, base, token, range, todo, setup>>
      /\ IF prefix = Len(Prefixes) THEN pc' = "cleanup" /\ prefix' = prefix
         ELSE pc' = "list" /\ prefix' = prefix + 1
  BY DEF Upload, NextPrefix
<1>2. \A s \in Stream : Done(s)' <=> Done(s)
  <2>1. prefix \in 1..Len(Prefixes) /\ Len(Prefixes) \in Nat
    BY <1>1, LenPrefixes DEF Inv, PrefixInv
  <2>2. \A i : i \in 1..prefix <=> i = prefix \/ i \in 1..(prefix - 1)
    BY <2>1
  <2>3. \A s \in Stream : Done(s) <=> \E i \in 1..prefix : s \in Matched(i)
    BY <1>1, <2>2 DEF Done
  <2>4. CASE prefix = Len(Prefixes)
    BY <1>1, <2>3, <2>4 DEF Done, Configured, Matched
  <2>5. CASE prefix # Len(Prefixes)
    <3>1. prefix' - 1 = prefix
      BY <1>1, <2>1, <2>5
    <3> QED
      BY <1>1, <2>3, <2>5, <3>1 DEF Done, Matched
  <2> QED
    BY <2>4, <2>5
<1>3. ASSUME NEW s \in Stream, NEW t \in logged[s]
      PROVE  /\ archive[s][t] > 0 => archive'[s][t] > 0
             /\ Kept(s, t) => Kept(s, t)'
  <2>1. t \in 0..MaxTime
    BY DEF Inv, TypeOK
  <2>2. archive[s][t] \in Nat
    <3>1. archive[s] \in [0..MaxTime -> Nat]
      BY DEF Inv, TypeOK
    <3> QED
      BY <2>1, <3>1
  <2>3. archive'[s][t] = archive[s][t]
          + (IF [stream |-> s, time |-> t] \in collected THEN 1 ELSE 0)
    BY <2>1 DEF Upload
  <2>4. archive[s][t] > 0 => archive'[s][t] > 0
    BY <2>2, <2>3
  <2>5. [stream |-> s, time |-> t] \in collected => archive'[s][t] > 0
    BY <2>2, <2>3
  <2> QED
    BY <2>4, <2>5 DEF Kept
<1>4. pc \in Unsaved /\ pc' \in Unsaved
  BY <1>1 DEF Unsaved, Running
<1> QED
  BY <1>1, <1>2, <1>3, <1>4, CompleteCarried

LEMMA DoneUnsaved == \A s : Done(s) => pc \in Unsaved
BY DEF Done, Unsaved, Running

\* What is logged now is neither behind last_read_time nor in the range.
LEMMA CompleteLog ==
  ASSUME Inv, Timely, CompleteInv, NEW s \in Stream, Log(s)
  PROVE  CompleteInv'
<1> USE DEF state, times, entries, work
<1>1. /\ UNCHANGED <<lastRead, base, token, archive, pc, range, prefix, todo, collected>>
      /\ \A x \in Stream : logged'[x] \subseteq logged[x] \cup {now}
  BY DEF Log, Inv, TypeOK
<1>2. now \in Int /\ lastRead \in TimeOrNone
  BY GroupAssumption DEF Inv, TypeOK
<1>3. lastRead # NoTime => ~ (now < lastRead)
  BY <1>2 DEF Timely, TimeOrNone
<1>4. pc \in Unsaved => ~ (now < range.end)
  BY <1>2, FromRange
<1>5. (base # NoTime => lastRead # NoTime) /\ BaseInv'
  BY <1>1 DEF CompleteInv, BaseInv
<1>6. Complete'
  <2>1. Configured \subseteq Stream /\ Configured' = Configured
    BY MatchedType DEF Configured, Matched
  <2> SUFFICES ASSUME base # NoTime, NEW x \in Configured, NEW t \in logged'[x],
                      base <= t, t < lastRead
               PROVE  archive[x][t] > 0
    BY <1>1, <2>1 DEF Complete
  <2>2. t \in logged[x]
    BY <1>1, <1>3, <1>5, <2>1
  <2> QED
    BY <1>5, <2>2 DEF CompleteInv, Complete
<1>7. \A x \in Stream : Done(x)' <=> Done(x)
  BY <1>1 DEF Done, Configured, Matched
<1>8. From' = From
  BY <1>1 DEF From
<1>9. DoneInv'
  <2> SUFFICES ASSUME NEW x \in Stream, Done(x), NEW t \in logged'[x],
                      From <= t, t < range.end
               PROVE  Kept(x, t)'
    BY <1>1, <1>7, <1>8 DEF DoneInv
  <2>1. t \in logged[x]
    BY <1>1, <1>4, DoneUnsaved
  <2> QED
    BY <1>1, <2>1 DEF CompleteInv, DoneInv, Kept
<1>10. TokenInv'
  BY <1>1, <1>7 DEF CompleteInv, TokenInv
<1> QED
  BY <1>5, <1>6, <1>9, <1>10 DEF CompleteInv

LEMMA CompleteIdle ==
  ASSUME Undisturbed, Inv, Inv', Timely, CompleteInv, FoundInv, EntryInv,
         \/ BeginInit \/ FinishInit \/ Begin \/ CleanUp \/ SaveRunTime \/ Tick
         \/ UNCHANGED vars
  PROVE  CompleteInv'
<1> USE DEF cloudwatch, state, times, entries
<1>0. /\ logged \in [Stream -> SUBSET (0..MaxTime)]
      /\ Configured \subseteq Stream /\ Configured' = Configured
  BY MatchedType DEF Inv, TypeOK, Configured, Matched
<1>1. CASE BeginInit
  <2>1. /\ pc = "idle" /\ pc' = "search" /\ lastRead = NoTime
        /\ lastRead' = now - 365 * Day /\ base' = lastRead'
        /\ UNCHANGED <<logged, archive, token>>
    BY <1>1 DEF BeginInit, Due, Undisturbed, SaveLost
  <2>2. lastRead' \in Int
    BY <2>1, GroupAssumption, TimeAssumption DEF Inv, TypeOK
  <2>3. \A s \in Stream : token[s] = NoTime /\ ~Done(s)'
    BY <2>1 DEF CompleteInv, TokenInv, Done
  <2>4. Complete'
    BY <1>0, <2>1, <2>2 DEF Complete
  <2> QED
    BY <2>1, <2>2, <2>3, <2>4, TimeAssumption
    DEF CompleteInv, BaseInv, DoneInv, TokenInv
<1>2. CASE FinishInit
  <2>1. PICK search \in SearchResult :
          LET r == GetTimeRange(now, -1, setup.cloudwatchDays, NoTime, lastRun,
                                search)
          IN  lastRead' = r.start /\ base' = r.start
    BY <1>2 DEF FinishInit, Undisturbed, SaveLost
  <2>2. pc = "search" /\ pc' = "idle" /\ UNCHANGED <<logged, archive, token>>
    BY <1>2 DEF FinishInit, Finish
  <2>3. lastRead' \in Int /\ base' = lastRead'
    BY <2>1, FullBackupType DEF Inv
  <2>4. Complete'
    BY <1>0, <2>2, <2>3 DEF Complete
  <2>5. \A s \in Stream : ~Done(s) /\ ~Done(s)'
    BY <2>2 DEF Done
  <2>6. TokenInv'
    <3> SUFFICES ASSUME NEW s \in Stream, token[s] # NoTime PROVE FALSE
      BY <2>2 DEF TokenInv
    <3> QED
      BY <2>2, <2>5 DEF EntryInv
  <2> QED
    BY <2>2, <2>3, <2>4, <2>5, <2>6, TimeAssumption
    DEF CompleteInv, BaseInv, DoneInv
<1>3. CASE Begin
  <2>1. /\ pc = "idle" /\ UNCHANGED <<logged, archive, token, lastRead, base>>
        /\ \/ UNCHANGED <<pc, work>>
           \/ pc' = "list" /\ prefix' = 1
           \/ pc' = "cleanup" /\ Len(Prefixes) = 0
    BY <1>3 DEF Begin, StartReading, Due
  <2>2. \A s \in Stream : ~Done(s) /\ ~Done(s)'
    BY <2>1 DEF Done, Configured
  <2>3. Complete'
    BY <1>0, <2>1 DEF CompleteInv, Complete
  <2> QED
    BY <2>1, <2>2, <2>3 DEF CompleteInv, BaseInv, DoneInv, TokenInv
<1>4. CASE CleanUp
  <2>1. /\ pc = "cleanup" /\ UNCHANGED <<logged, archive, lastRead, base, range>>
        /\ pc' = IF found THEN "save_read" ELSE "save_run"
        /\ \A s \in Stream : token'[s] \in {token[s], NoTime}
    BY <1>4 DEF CleanUp, work
  <2>2. Complete'
    BY <1>0, <2>1 DEF CompleteInv, Complete
  <2>3. CASE found
    <3>1. \A s \in Stream : Done(s)' <=> Done(s)
      BY <1>0, <2>1, <2>3 DEF Done
    <3>2. \A s \in Stream : \A t \in logged[s] : Kept(s, t) => Kept(s, t)'
      BY <2>1 DEF Kept
    <3>3. From' = From
      BY <2>1 DEF From
    <3> QED
      BY <2>1, <2>2, <2>3, <3>1, <3>2, <3>3
      DEF CompleteInv, BaseInv, DoneInv, TokenInv
  <2>4. CASE ~found
    <3>1. Configured = {}
      BY <2>1, <2>4 DEF FoundInv
    <3>2. \A s \in Stream : ~Done(s) /\ ~Done(s)'
      BY <2>1, <2>4, <3>1 DEF Done
    <3> QED
      BY <2>1, <2>2, <2>4, <3>2 DEF CompleteInv, BaseInv, DoneInv, TokenInv
  <2> QED
    BY <2>3, <2>4
<1>5. CASE SaveRunTime
  <2>1. pc = "save_run" /\ pc' = "idle"
        /\ UNCHANGED <<logged, archive, token, lastRead, base>>
    BY <1>5 DEF SaveRunTime, Finish
  <2>2. \A s \in Stream : ~Done(s) /\ ~Done(s)'
    BY <2>1 DEF Done
  <2>3. Complete'
    BY <1>0, <2>1 DEF CompleteInv, Complete
  <2> QED
    BY <2>1, <2>2, <2>3 DEF CompleteInv, BaseInv, DoneInv, TokenInv
<1>6. CASE Tick \/ UNCHANGED vars
  <2>1. UNCHANGED <<logged, archive, token, lastRead, base, pc, work>>
    BY <1>6 DEF Tick, vars
  <2>2. \A s \in Stream : Done(s)' <=> Done(s)
    BY <1>0, <2>1 DEF Done, work, Matched
  <2>3. From' = From /\ range' = range
        /\ \A s \in Stream : \A t \in logged[s] : Kept(s, t)' <=> Kept(s, t)
    BY <2>1 DEF From, Kept, work
  <2>4. Complete'
    BY <1>0, <2>1 DEF CompleteInv, Complete
  <2> QED
    BY <2>1, <2>2, <2>3, <2>4 DEF CompleteInv, BaseInv, DoneInv, TokenInv
<1> QED
  BY <1>1, <1>2, <1>3, <1>4, <1>5, <1>6

\* The save that makes the promise: all of the range is in S3, and before it
\* all that was promised.
LEMMA CompleteSave ==
  ASSUME Undisturbed, Inv, Inv', Timely, CompleteInv, EntryInv, SaveReadTime
  PROVE  CompleteInv'
<1> USE DEF cloudwatch, state, times, entries
<1>1. /\ pc = "save_read" /\ pc' = "save_run" /\ lastRead' = range.end
      /\ base' = IF base = NoTime THEN range.start ELSE base
      /\ UNCHANGED <<logged, archive, token>>
  BY DEF SaveReadTime, Undisturbed, SaveLost
<1>2. /\ From \in Int /\ range.start \in Int /\ range.end \in Int
      /\ lastRead # NoTime => From = lastRead
      /\ lastRead \in TimeOrNone
  BY <1>1, FromRange DEF Unsaved, Running
<1>3. lastRead # NoTime => lastRead <= range.end
  BY <1>1 DEF Inv, RangeInv, BlindInv, Undisturbed, Running
<1>4. BaseInv'
  BY <1>1, <1>2, TimeAssumption DEF BaseInv
<1>5. Complete'
  <2>0. Configured \subseteq Stream /\ Configured' = Configured
    BY MatchedType DEF Configured, Matched
  <2> SUFFICES ASSUME NEW s \in Configured, NEW t \in logged[s],
                      base' <= t, t < range.end
               PROVE  archive[s][t] > 0
    BY <1>1, <2>0 DEF Complete
  <2>1. s \in Stream /\ t \in Int
    BY <2>0, GroupAssumption DEF Inv, TypeOK
  <2>2. From <= t => archive[s][t] > 0
    BY <1>1, <2>1 DEF CompleteInv, DoneInv, Done, Kept
  <2>3. CASE base = NoTime
    BY <1>1, <2>2, <2>3 DEF CompleteInv, BaseInv, From
  <2>4. CASE base # NoTime
    <3>1. base <= t /\ lastRead # NoTime
      BY <1>1, <2>4 DEF CompleteInv, BaseInv
    <3>2. t < lastRead => archive[s][t] > 0
      BY <2>4, <3>1 DEF CompleteInv, Complete
    <3> QED
      BY <1>2, <2>1, <2>2, <3>1, <3>2 DEF TimeOrNone
  <2> QED
    BY <2>3, <2>4
<1>6. \A s \in Stream : ~Done(s)'
  BY <1>1 DEF Done
<1>7. TokenInv'
  <2> SUFFICES ASSUME NEW s \in Stream, token[s] # NoTime
               PROVE  token[s] <= range.end
    BY <1>1, <1>2, TimeAssumption DEF TokenInv
  <2>1. token[s] \in Int
    BY DEF Inv, TypeOK, TimeOrNone
  <2> QED
    BY <1>2, <1>3, <2>1 DEF EntryInv, TimeOrNone
<1> QED
  BY <1>4, <1>5, <1>6, <1>7 DEF CompleteInv, DoneInv

-----------------------------------------------------------------------------
(* When the runs are in time.  With a finite retention two runs of a       *)
(* MINUTES_BACK and the wait between them fit before the deletion; in the  *)
(* default mode there is a run every MINUTES_BACK; a full backup does not  *)
(* run more often than that and so never reads past the clock.             *)

RetentionInTime(c) ==
  /\ ~c.fullBackup /\ c.retentionDay > 0 /\ c.cloudwatchDays > 0
  /\ c.maxGap <= MinutesBack
  /\ EffectiveDays(c.cloudwatchDays, c.retentionDay) * Day + MinutesBack + c.maxGap
       <= c.cloudwatchDays * Day

DefaultInTime(c) ==
  /\ ~c.fullBackup /\ c.retentionDay = 0
  /\ c.minGap = MinutesBack /\ c.maxGap = MinutesBack
  /\ c.cloudwatchDays = 0 \/ 2 * MinutesBack <= c.cloudwatchDays * Day

FullBackupInTime(c) ==
  c.fullBackup /\ c.cloudwatchDays = 0 /\ c.minGap >= MinutesBack

\* A full backup has something to begin with: an event that is logged while
\* the search runs may be the oldest, and lie after the run began.
EventsBefore ==
  (\E c \in Setups : c.fullBackup) =>
    \A h \in Histories : \E s \in Stream : h[s] # {}

OnSchedule ==
  /\ \A c \in Setups : RetentionInTime(c) \/ DefaultInTime(c) \/ FullBackupInTime(c)
  /\ EventsBefore

ClockInv ==
  /\ setup \in Setups
  /\ StartTime <= now
  /\ started # NoTime =>
       StartTime <= started /\ started <= now /\ now <= started + setup.maxGap
  /\ pc # "idle" \/ lastRead # NoTime => started # NoTime

RetentionInv ==
  RetentionInTime(setup) =>
    /\ pc # "search"
    /\ pc \in Running =>
         range.end = started - Lag /\ started - Lag - MinutesBack <= range.start
    /\ pc \in Unsaved /\ lastRead # NoTime => range.start <= lastRead
    /\ pc = "idle" /\ lastRead # NoTime =>
         lastRead = started - Lag /\ lastRun # NoTime /\ started <= lastRun
    /\ pc = "save_run" => lastRead = started - Lag

DefaultInv ==
  DefaultInTime(setup) =>
    /\ pc # "search"
    /\ pc \in Unsaved =>
         /\ range.start = started - MinutesBack /\ range.end = started
         /\ lastRead \in {NoTime, range.start}
    /\ pc \in {"idle", "save_run"} => lastRead \in {NoTime, started}

FullInv ==
  FullBackupInTime(setup) =>
    /\ \E s \in Stream : \E t \in logged[s] : t < StartTime
    /\ lastRead # NoTime => lastRead <= started
    /\ pc \in Unsaved =>
         lastRead # NoTime /\ range.start = lastRead /\ range.end <= started

TimelyInv == ClockInv /\ RetentionInv /\ DefaultInv /\ FullInv

LEMMA TimelyInit == ASSUME EventsBefore PROVE Init => TimelyInv
<1> SUFFICES ASSUME Init PROVE TimelyInv
  OBVIOUS
<1>1. ClockInv
  BY GroupAssumption DEF Init, ClockInv
<1>2. RetentionInv /\ DefaultInv
  BY DEF Init, RetentionInv, DefaultInv, Running, Unsaved
<1>3. FullInv
  <2> SUFFICES ASSUME FullBackupInTime(setup)
               PROVE  \E s \in Stream : \E t \in logged[s] : t < StartTime
    BY DEF Init, FullInv, Unsaved, Running
  <2>1. PICK s \in Stream : logged[s] # {}
    BY DEF Init, EventsBefore, FullBackupInTime
  <2>2. PICK t \in logged[s] : TRUE
    BY <2>1
  <2>3. t < StartTime
    BY GroupAssumption DEF Init
  <2> QED
    BY <2>3
<1> QED
  BY <1>1, <1>2, <1>3 DEF TimelyInv

LEMMA TimelyTypes ==
  ASSUME Inv
  PROVE  /\ now \in Int /\ Lag \in Nat /\ MinutesBack \in Nat \ {0}
         /\ lastRead \in Int \cup {NoTime} /\ lastRun \in Int \cup {NoTime}
         /\ started \in Int \cup {NoTime} /\ NoTime \notin Int
         /\ setup.maxGap \in Nat /\ setup.minGap \in Nat
         /\ setup.cloudwatchDays \in Nat /\ setup.retentionDay \in Int
         /\ setup.cloudwatchDays * Day \in Int
         /\ pc \in Running => range.start \in Int /\ range.end \in Int
<1>1. Lag \in Nat
  BY LagType DEF Inv
<1>2. /\ now \in Int /\ lastRead \in Int \cup {NoTime}
      /\ lastRun \in Int \cup {NoTime} /\ started \in Int \cup {NoTime}
  BY DEF Inv, TypeOK, TimeOrNone
<1>3. /\ setup.maxGap \in Nat /\ setup.minGap \in Nat
      /\ setup.cloudwatchDays \in Nat /\ setup.retentionDay \in Int
  BY DEF Inv, TypeOK, Setup
<1>4. setup.cloudwatchDays * Day \in Int
  BY <1>3, TimeAssumption
<1>5. pc \in Running => range.start \in Int /\ range.end \in Int
  BY DEF Inv, RangeInv
<1> QED
  BY <1>1, <1>2, <1>3, <1>4, <1>5, TimeAssumption

LEMMA TimelyIsTimely ==
  ASSUME "load" \notin Faults, OnSchedule, Inv, TimelyInv PROVE Timely
<1>1. \/ RetentionInTime(setup) \/ DefaultInTime(setup) \/ FullBackupInTime(setup)
  BY DEF TimelyInv, ClockInv, OnSchedule
<1>2. /\ now \in Int /\ Lag \in Nat /\ MinutesBack \in Nat \ {0}
      /\ lastRead \in Int \cup {NoTime} /\ started \in Int \cup {NoTime}
      /\ NoTime \notin Int /\ setup.maxGap \in Nat
      /\ setup.cloudwatchDays * Day \in Int
      /\ pc \in Running => range.start \in Int /\ range.end \in Int
  BY TimelyTypes
<1>3. /\ started # NoTime => started <= now /\ now <= started + setup.maxGap
      /\ pc # "idle" \/ lastRead # NoTime => started # NoTime
      /\ pc \in Running => range.start < range.end
      /\ pc \in Running /\ lastRead # NoTime => lastRead <= range.end
      /\ pc \in Running \cup {"idle", "search"}
  BY DEF TimelyInv, ClockInv, Inv, RangeInv, BlindInv, TypeOK, Running
<1>4. CASE RetentionInTime(setup)
  <2>1. /\ pc # "search"
        /\ pc \in Running =>
             range.end = started - Lag /\ started - Lag - MinutesBack <= range.start
        /\ pc \in Unsaved /\ lastRead # NoTime => range.start <= lastRead
        /\ pc = "idle" /\ lastRead # NoTime => lastRead = started - Lag
    BY <1>4 DEF TimelyInv, RetentionInv
  <2>2. Lag + MinutesBack + setup.maxGap <= setup.cloudwatchDays * Day
    BY <1>4 DEF RetentionInTime, Lag
  <2>3. lastRead # NoTime => lastRead <= now
    BY <1>2, <1>3, <2>1
  <2>4. pc \in Unsaved =>
          range.end <= now /\ now - setup.cloudwatchDays * Day <= range.start
    BY <1>2, <1>3, <2>1, <2>2 DEF Unsaved, Running
  <2> QED
    BY <2>1, <2>3, <2>4 DEF Timely
<1>5. CASE DefaultInTime(setup)
  <2>1. /\ pc # "search"
        /\ pc \in Unsaved =>
             /\ range.start = started - MinutesBack /\ range.end = started
             /\ lastRead \in {NoTime, range.start}
        /\ pc \in {"idle", "save_run"} => lastRead \in {NoTime, started}
    BY <1>5 DEF TimelyInv, DefaultInv
  <2>2. /\ setup.maxGap = MinutesBack
        /\ setup.cloudwatchDays = 0 \/ 2 * MinutesBack <= setup.cloudwatchDays * Day
    BY <1>5 DEF DefaultInTime
  <2>3. lastRead # NoTime => lastRead <= now
    BY <1>2, <1>3, <2>1 DEF Unsaved, Running
  <2>4. pc \in Unsaved =>
          /\ lastRead # NoTime => range.start <= lastRead
          /\ range.end <= now
          /\ setup.cloudwatchDays = 0
               \/ now - setup.cloudwatchDays * Day <= range.start
    BY <1>2, <1>3, <2>1, <2>2 DEF Unsaved, Running
  <2> QED
    BY <2>3, <2>4 DEF Timely
<1>6. CASE FullBackupInTime(setup)
  <2>1. /\ lastRead # NoTime => lastRead <= started
        /\ pc \in Unsaved =>
             lastRead # NoTime /\ range.start = lastRead /\ range.end <= started
    BY <1>6 DEF TimelyInv, FullInv
  <2>2. setup.cloudwatchDays = 0
    BY <1>6 DEF FullBackupInTime
  <2> QED
    BY <1>2, <1>3, <2>1, <2>2 DEF Timely, Unsaved, Running
<1> QED
  BY <1>1, <1>4, <1>5, <1>6

LEMMA ClockStep ==
  ASSUME Undisturbed, Inv, ClockInv, [Next]_vars
  PROVE  ClockInv'
<1> USE DEF cloudwatch, state, times, work
<1>1. /\ now \in Int /\ started \in Int \cup {NoTime} /\ setup.maxGap \in Nat
      /\ NoTime \notin Int
  BY TimelyTypes
<1>2. CASE Tick
  <2>1. /\ now' = now + 1 /\ UNCHANGED <<setup, started, pc, lastRead>>
        /\ started # NoTime => now - started < setup.maxGap
    BY <1>2 DEF Tick
  <2> QED
    BY <1>1, <2>1, GroupAssumption DEF ClockInv
<1>3. CASE BeginInit \/ Begin
  <2>1. started' = now /\ UNCHANGED <<setup, now>>
    BY <1>3 DEF BeginInit, Begin, StartReading
  <2> QED
    BY <1>1, <2>1 DEF ClockInv
<1>4. CASE \/ FinishInit \/ ListStreams \/ (\E s \in Stream : ReadStream(s))
           \/ Upload \/ UploadFails \/ CleanUp \/ SaveReadTime \/ SaveRunTime
  <2>1. UNCHANGED <<setup, now, started>> /\ pc # "idle"
    BY <1>4 DEF FinishInit, ListStreams, ReadStream, Upload, UploadFails,
                CleanUp, SaveReadTime, SaveRunTime
  <2> QED
    BY <2>1 DEF ClockInv
<1>5. CASE (\E s \in Stream : Log(s)) \/ UNCHANGED vars
  BY <1>5 DEF Log, vars, ClockInv
<1>6. ~Crash /\ ~Reconfigure /\ ~FailingLoad
  BY DEF Undisturbed, Crash, Reconfigure, FailingLoad
<1> QED
  BY <1>2, <1>3, <1>4, <1>5, <1>6 DEF Next

\* Steps that leave times and range as they are, and stay in their phase.
QuietStep ==
  /\ UNCHANGED <<setup, started, lastRead, lastRun, range>>
  /\ pc' = pc \/ (pc \in Unsaved /\ pc' \in Unsaved)
  /\ \A s \in Stream : logged[s] \subseteq logged'[s]

LEMMA QuietSteps ==
  ASSUME Inv, FoundInv, Configured # {},
         \/ Tick \/ (\E s \in Stream : Log(s)) \/ ListStreams
         \/ (\E s \in Stream : ReadStream(s)) \/ Upload \/ UploadFails \/ CleanUp
         \/ UNCHANGED vars
  PROVE  QuietStep
<1> USE DEF cloudwatch, state, times, work, QuietStep, Unsaved, Running
<1>1. CASE Tick \/ ListStreams \/ (\E s \in Stream : ReadStream(s)) \/ UNCHANGED vars
  BY <1>1 DEF Tick, ListStreams, ReadStream, vars
<1>2. CASE Upload \/ UploadFails
  BY <1>2 DEF Upload, UploadFails, NextPrefix
<1>3. CASE CleanUp
  BY <1>3 DEF CleanUp, FoundInv
<1>4. CASE \E s \in Stream : Log(s)
  BY <1>4 DEF Log, Inv, TypeOK
<1> QED
  BY <1>1, <1>2, <1>3, <1>4

LEMMA TimelyQuiet ==
  ASSUME QuietStep, RetentionInv, DefaultInv, FullInv
  PROVE  RetentionInv' /\ DefaultInv' /\ FullInv'
<1> USE DEF QuietStep, Unsaved, Running
<1>1. RetentionInv'
  BY DEF RetentionInv, RetentionInTime, Lag
<1>2. DefaultInv'
  BY DEF DefaultInv, DefaultInTime
<1>3. FullInv'
  BY DEF FullInv, FullBackupInTime
<1> QED
  BY <1>1, <1>2, <1>3

\* The two saves at the end of a run.
LEMMA TimelySaves ==
  ASSUME Undisturbed, Inv, TimelyInv, SaveReadTime \/ SaveRunTime
  PROVE  RetentionInv' /\ DefaultInv' /\ FullInv'
<1> USE DEF cloudwatch, state, times, work
<1>1. CASE SaveReadTime
  <2>1. /\ pc = "save_read" /\ pc' = "save_run" /\ lastRead' = range.end
        /\ UNCHANGED <<setup, started, lastRun, range, logged>>
    BY <1>1 DEF SaveReadTime, Undisturbed, SaveLost
  <2> QED
    BY <2>1 DEF TimelyInv, RetentionInv, DefaultInv, FullInv, Unsaved, Running,
                RetentionInTime, DefaultInTime, FullBackupInTime, Lag
<1>2. CASE SaveRunTime
  <2>1. /\ pc = "save_run" /\ pc' = "idle" /\ lastRun' = now
        /\ UNCHANGED <<setup, started, lastRead, logged>>
    BY <1>2 DEF SaveRunTime, Finish, Undisturbed, SaveLost
  <2>2. lastRun' # NoTime /\ started' <= lastRun'
    <3>1. now \in Int /\ NoTime \notin Int
      BY TimelyTypes
    <3> QED
      BY <2>1, <3>1 DEF TimelyInv, ClockInv
  <2> QED
    BY <2>1, <2>2 DEF TimelyInv, RetentionInv, DefaultInv, FullInv, Unsaved,
                Running, RetentionInTime, DefaultInTime, FullBackupInTime, Lag
<1> QED
  BY <1>1, <1>2

\* A full backup: the set-up finds an event of before the clock started, and
\* a range that starts with the last run's is over by now.
LEMMA FullSetUp ==
  ASSUME Undisturbed, "search" \notin Faults, Inv, LoggedInv, TimelyInv,
         BeginInit \/ FinishInit
  PROVE  RetentionInv' /\ DefaultInv' /\ FullInv'
<1> USE DEF cloudwatch, state, times, work
<1>a. /\ now \in Int /\ started \in Int \cup {NoTime} /\ NoTime \notin Int
  BY TimelyTypes
<1>1. CASE BeginInit
  <2>1. /\ setup.fullBackup /\ pc' = "search" /\ lastRead' = now - 365 * Day
        /\ started' = now /\ UNCHANGED <<setup, logged>>
    BY <1>1 DEF BeginInit, Undisturbed, SaveLost
  <2>2. lastRead' <= now
    BY <1>a, <2>1, TimeAssumption
  <2> QED
    BY <2>1, <2>2 DEF TimelyInv, RetentionInv, DefaultInv, FullInv, Unsaved,
                Running, RetentionInTime, DefaultInTime, FullBackupInTime
<1>2. CASE FinishInit
  <2>1. PICK search \in SearchResult :
          LET r == GetTimeRange(now, -1, setup.cloudwatchDays, NoTime, lastRun,
                                search)
          IN  lastRead' = r.start
    BY <1>2 DEF FinishInit, Undisturbed, SaveLost
  <2>2. lastRead' = OldestStart(now, search)
    BY <2>1 DEF GetTimeRange, FullBackupRange, Window, Between
  <2>3. pc = "search" /\ pc' = "idle" /\ UNCHANGED <<setup, now, started, logged>>
    BY <1>2 DEF FinishInit, Finish
  <2>4. FullBackupInTime(setup) => lastRead' <= started
    <3> SUFFICES ASSUME FullBackupInTime(setup) PROVE lastRead' <= started
      OBVIOUS
    <3>1. /\ OldestStart(now, search) \in Int
          /\ \A s \in Stream : \A t \in logged[s] : OldestStart(now, search) <= t
      BY SearchFindsOldest DEF FullBackupInTime
    <3>2. PICK s \in Stream : \E t \in logged[s] : t < StartTime
      BY DEF TimelyInv, FullInv
    <3>3. PICK t \in logged[s] : t < StartTime
      BY <3>2
    <3>4. t \in Int /\ OldestStart(now, search) <= t
      BY <3>1, GroupAssumption DEF Inv, TypeOK
    <3>5. started # NoTime /\ StartTime <= started
      BY <2>3 DEF TimelyInv, ClockInv
    <3> QED
      BY <1>a, <2>2, <3>1, <3>3, <3>4, <3>5, GroupAssumption
  <2>5. ~RetentionInTime(setup) /\ ~DefaultInTime(setup)
    BY <2>3 DEF TimelyInv, RetentionInv, DefaultInv
  <2> QED
    BY <2>3, <2>4, <2>5 DEF TimelyInv, RetentionInv, DefaultInv, FullInv,
         Unsaved, Running, RetentionInTime, DefaultInTime, FullBackupInTime
<1> QED
  BY <1>1, <1>2

\* The range of a run in time, by mode.
LEMMA RetentionBegin ==
  ASSUME Inv, TimelyInv, RetentionInTime(setup), pc = "idle",
         NEW days \in {setup.cloudwatchDays}, NEW search, NEW r,
         r = GetTimeRange(now, ModeDay, days, lastRead, lastRun, search)
  PROVE  IF r = NoRange THEN lastRead = now - Lag /\ lastRun # NoTime /\ now <= lastRun
         ELSE /\ r.end = now - Lag /\ now - Lag - MinutesBack <= r.start
              /\ lastRead # NoTime => r.start <= lastRead
<1>1. /\ now \in Int /\ Lag \in Nat /\ MinutesBack \in Nat \ {0}
      /\ lastRead \in Int \cup {NoTime} /\ lastRun \in Int \cup {NoTime}
      /\ started \in Int \cup {NoTime} /\ NoTime \notin Int
      /\ setup.maxGap \in Nat
      /\ setup.cloudwatchDays \in Nat /\ setup.retentionDay \in Int
  BY TimelyTypes
<1>2. /\ ~setup.fullBackup /\ setup.retentionDay > 0 /\ setup.cloudwatchDays > 0
      /\ setup.maxGap <= MinutesBack
  BY DEF RetentionInTime
<1>3. ModeDay = setup.retentionDay /\ days = setup.cloudwatchDays
  BY <1>2 DEF ModeDay
<1>4. DeletionTime(now, days, ModeDay) = now - Lag
  BY <1>3 DEF DeletionTime, Lag
<1>5. r = Validated(RetentionRange(now - Lag, now, lastRead, lastRun), lastRead)
  <2>1. ModeDay > 0 /\ days # 0
    BY <1>1, <1>2, <1>3
  <2> QED
    BY <1>4, <2>1 DEF GetTimeRange
<1> HIDE DEF Lag
<1>6. CASE lastRead = NoTime
  <2>1. r = WindowUpTo(now - Lag)
    BY <1>5, <1>6 DEF RetentionRange, Validated
  <2>2. r.start = now - Lag - MinutesBack /\ r.end = now - Lag
    BY <2>1 DEF WindowUpTo, Between
  <2>3. r # NoRange
    BY <1>1, <2>2 DEF NoRange, Between
  <2> QED
    BY <1>1, <1>6, <2>2, <2>3
<1>7. CASE lastRead # NoTime
  <2>1. /\ lastRead = started - Lag /\ lastRun # NoTime /\ started <= lastRun
        /\ started # NoTime /\ started <= now /\ now <= started + setup.maxGap
    BY <1>7 DEF TimelyInv, RetentionInv, ClockInv
  <2> DEFINE q == RetentionRange(now - Lag, now, lastRead, lastRun)
  <2>2. /\ q.end = now - Lag /\ q.start <= lastRead
        /\ now - Lag - MinutesBack <= q.start
    <3>1. CASE now - lastRun >= MinutesBack
      <4>1. q = WindowUpTo(now - Lag)
        BY <2>1, <3>1 DEF RetentionRange, SinceLastRun
      <4>2. q.start = now - Lag - MinutesBack /\ q.end = now - Lag
        BY <4>1 DEF WindowUpTo, Between
      <4> HIDE DEF q
      <4> QED
        BY <1>1, <1>2, <2>1, <4>2
    <3>2. CASE ~ (now - lastRun >= MinutesBack)
      <4>1. q = Between(lastRead, now - Lag)
        BY <1>7, <2>1, <3>2 DEF RetentionRange, SinceLastRun
      <4>2. q.start = lastRead /\ q.end = now - Lag
        BY <4>1 DEF Between
      <4> HIDE DEF q
      <4> QED
        BY <1>1, <1>2, <2>1, <4>2
    <3> QED
      BY <3>1, <3>2
  <2>3. r = IF q.end <= lastRead THEN NoRange ELSE q
    BY <1>5, <1>7 DEF Validated
  <2> HIDE DEF q
  <2>4. CASE q.end <= lastRead
    <3>1. now = started
      BY <1>1, <2>1, <2>2, <2>4
    <3> QED
      BY <2>1, <2>3, <2>4, <3>1
  <2>5. CASE ~ (q.end <= lastRead)
    <3>1. r # NoRange
      BY <1>1, <2>2, <2>3, <2>5 DEF NoRange, Between
    <3> QED
      BY <2>2, <2>3, <2>5, <3>1
  <2> QED
    BY <2>4, <2>5
<1> QED
  BY <1>6, <1>7

LEMMA DefaultBegin ==
  ASSUME Inv, TimelyInv, DefaultInTime(setup), pc = "idle", Due,
         NEW days, NEW search, NEW r,
         r = GetTimeRange(now, ModeDay, days, lastRead, lastRun, search)
  PROVE  /\ r # NoRange
         /\ r.start = now - MinutesBack /\ r.end = now
         /\ lastRead \in {NoTime, r.start}
<1>1. /\ now \in Int /\ MinutesBack \in Nat \ {0} /\ NoTime \notin Int
      /\ started \in Int \cup {NoTime}
  BY TimelyTypes
<1>2. ~setup.fullBackup /\ setup.retentionDay = 0
      /\ setup.minGap = MinutesBack /\ setup.maxGap = MinutesBack
  BY DEF DefaultInTime
<1>3. r = Validated(DefaultRange(now, lastRead), lastRead)
  BY <1>2 DEF GetTimeRange, ModeDay
<1>4. CASE lastRead = NoTime
  <2>1. r = Between(now - MinutesBack, now)
    BY <1>3, <1>4 DEF Validated, DefaultRange, WindowUpTo
  <2> QED
    BY <1>1, <1>4, <2>1 DEF Between, NoRange
<1>5. CASE lastRead # NoTime
  <2>1. lastRead = started /\ started # NoTime
        /\ started <= now /\ now <= started + MinutesBack
    BY <1>2, <1>5 DEF TimelyInv, DefaultInv, ClockInv
  <2>2. now - started >= MinutesBack
    BY <1>2, <2>1 DEF Due
  <2>3. lastRead = now - MinutesBack
    BY <1>1, <2>1, <2>2
  <2>4. ~ (now - lastRead >= 2 * MinutesBack)
    BY <1>1, <2>3
  <2>5. DefaultRange(now, lastRead) = Between(lastRead, now)
    BY <1>1, <1>5, <2>3, <2>4 DEF DefaultRange, Window
  <2>6. ~ (now <= lastRead)
    BY <1>1, <2>3
  <2>7. r = Between(lastRead, now)
    BY <1>3, <2>5, <2>6 DEF Validated, Between
  <2> QED
    BY <1>1, <2>3, <2>7 DEF Between, NoRange
<1> QED
  BY <1>4, <1>5

LEMMA FullBegin ==
  ASSUME Inv, TimelyInv, FullBackupInTime(setup), Due, lastRead # NoTime,
         NEW days, NEW search, NEW r,
         r = GetTimeRange(now, ModeDay, days, lastRead, lastRun, search)
  PROVE  r.start = lastRead /\ r.end <= now /\ lastRead <= now
<1>1. /\ now \in Int /\ MinutesBack \in Nat \ {0} /\ NoTime \notin Int
      /\ started \in Int \cup {NoTime} /\ lastRead \in Int \cup {NoTime}
      /\ setup.minGap \in Nat
  BY TimelyTypes
<1>2. r = Window(lastRead)
  BY DEF GetTimeRange, ModeDay, FullBackupInTime, FullBackupRange
<1>3. r.start = lastRead /\ r.end = lastRead + MinutesBack
  BY <1>2 DEF Window, Between
<1>4. /\ lastRead <= started /\ started # NoTime
      /\ now - started >= setup.minGap /\ setup.minGap >= MinutesBack
  BY DEF TimelyInv, FullInv, ClockInv, Due, FullBackupInTime
<1> QED
  BY <1>1, <1>3, <1>4

LEMMA TimelyBegin ==
  ASSUME "lookup" \notin Faults, Inv, TimelyInv, Begin
  PROVE  RetentionInv' /\ DefaultInv' /\ FullInv'
<1> USE DEF cloudwatch, state, times, work
<1>1. PICK days \in RetentionLookup, search \in SearchResult :
        LET r == GetTimeRange(now, ModeDay, days, lastRead, lastRun, search)
        IN  IF r = NoRange THEN UNCHANGED <<pc, work>>
            ELSE range' = r /\ pc' \in {"list", "cleanup"}
  BY DEF Begin, StartReading
<1> DEFINE r == GetTimeRange(now, ModeDay, days, lastRead, lastRun, search)
<1>2. /\ UNCHANGED <<setup, now, logged, lastRead, lastRun>> /\ pc = "idle" /\ Due
      /\ started' = now /\ ~ (setup.fullBackup /\ lastRead = NoTime)
  BY DEF Begin, StartReading, Due
<1>3. days \in {setup.cloudwatchDays}
  BY DEF RetentionLookup
<1>4. IF r = NoRange THEN pc' = "idle" ELSE range' = r /\ pc' \in {"list", "cleanup"}
  BY <1>1, <1>2
<1>5. RetentionInv'
  <2> SUFFICES ASSUME RetentionInTime(setup) PROVE RetentionInv'
    BY <1>2 DEF RetentionInv, RetentionInTime
  <2>1. IF r = NoRange THEN lastRead = now - Lag /\ lastRun # NoTime /\ now <= lastRun
        ELSE /\ r.end = now - Lag /\ now - Lag - MinutesBack <= r.start
             /\ lastRead # NoTime => r.start <= lastRead
    BY <1>2, <1>3, RetentionBegin
  <2>2. Lag' = Lag
    BY <1>2 DEF Lag
  <2> HIDE DEF r
  <2> QED
    BY <1>2, <1>4, <2>1, <2>2 DEF RetentionInv, Unsaved, Running
<1>6. DefaultInv'
  <2> SUFFICES ASSUME DefaultInTime(setup) PROVE DefaultInv'
    BY <1>2 DEF DefaultInv, DefaultInTime
  <2>1. /\ r # NoRange
        /\ r.start = now - MinutesBack /\ r.end = now
        /\ lastRead \in {NoTime, r.start}
    BY <1>2, DefaultBegin
  <2> HIDE DEF r
  <2> QED
    BY <1>2, <1>4, <2>1 DEF DefaultInv, Unsaved, Running
<1>7. FullInv'
  <2> SUFFICES ASSUME FullBackupInTime(setup) PROVE FullInv'
    BY <1>2 DEF FullInv, FullBackupInTime
  <2>1. lastRead # NoTime
    BY <1>2 DEF FullBackupInTime
  <2>2. r.start = lastRead /\ r.end <= now /\ lastRead <= now
    BY <1>2, <2>1, FullBegin
  <2>3. \E s \in Stream : \E t \in logged[s] : t < StartTime
    BY DEF TimelyInv, FullInv
  <2> HIDE DEF r
  <2> QED
    BY <1>2, <1>4, <2>1, <2>2, <2>3 DEF FullInv, Unsaved, Running
<1> QED
  BY <1>5, <1>6, <1>7

LEMMA TimelyStep ==
  ASSUME Faults = {}, Configured # {},
         Inv, LoggedInv, FoundInv, TimelyInv, [Next]_vars
  PROVE  TimelyInv'
<1>1. Undisturbed
  BY DEF Undisturbed
<1>2. ClockInv'
  BY <1>1, ClockStep DEF TimelyInv
<1>3. ~Crash /\ ~Reconfigure /\ ~FailingLoad
  BY DEF Crash, Reconfigure, FailingLoad
<1>4. RetentionInv' /\ DefaultInv' /\ FullInv'
  <2>1. CASE BeginInit \/ FinishInit
    BY <1>1, <2>1, FullSetUp
  <2>2. CASE Begin
    BY <2>2, TimelyBegin
  <2>3. CASE SaveReadTime \/ SaveRunTime
    BY <1>1, <2>3, TimelySaves
  <2>4. CASE QuietStep
    BY <2>4, TimelyQuiet DEF TimelyInv
  <2> QED
    BY <1>3, <2>1, <2>2, <2>3, <2>4, QuietSteps DEF Next
<1> QED
  BY <1>2, <1>4 DEF TimelyInv

LEMMA CompleteStep ==
  ASSUME Faults = {}, Inv, Inv', Timely, Fits, CompleteInv, FoundInv, EntryInv,
         TodoList, [Next]_vars
  PROVE  CompleteInv'
<1>1. Undisturbed /\ NothingRefused
  BY DEF Undisturbed, NothingRefused
<1>2. ~Crash /\ ~Reconfigure /\ ~UploadFails /\ ~FailingLoad
  BY DEF Crash, Reconfigure, UploadFails, FailingLoad
<1> QED
  BY <1>1, <1>2, CompleteLog, CompleteIdle, CompleteList, CompleteRead,
     CompleteUpload, CompleteSave DEF Next

LEMMA TimelyAlways ==
  ASSUME Faults = {}, OnSchedule, Configured # {}
  PROVE  Spec => []Timely
<1> DEFINE I == LoggedInv /\ FoundInv /\ TimelyInv
<1>1. Init => I
  BY LoggedInit, FoundInit, TimelyInit DEF OnSchedule
<1>2. ASSUME Inv, I, [Next]_vars PROVE I'
  <2>1. LoggedInv' /\ FoundInv'
    BY <1>2, LoggedStep, FoundStep DEF NothingRefused
  <2> QED
    BY <1>2, <2>1, TimelyStep
<1>3. Inv /\ I => Timely
  BY TimelyIsTimely
<1> QED
  <2> HIDE DEF I
  <2> QED
    BY <1>1, <1>2, <1>3, InvAlways, PTL DEF Spec

\* In time in any mode, last_read_time is not in the future: what a stream
\* logs from now on is still to be read (config.py:330-399).
THEOREM NotAheadInTime ==
  ASSUME Faults = {}, OnSchedule, Configured # {}
  PROVE  Spec => []NotAhead
<1>1. Timely => NotAhead
  BY DEF Timely, NotAhead
<1> QED
  BY <1>1, TimelyAlways, PTL

\* last_read_time keeps its promise (README.md:9): in every mode, when the runs
\* are in time for it, nothing fails and no reading of a stream has to leave
\* anything for the next, every event of every configured stream from the
\* start of the backup up to last_read_time is in S3.  The streams may match
\* several prefixes, and log at any moment of a run.
THEOREM NothingLeftOut ==
  ASSUME Faults = {}, OnSchedule
  PROVE  Spec /\ []Fits => []Complete
<1>1. /\ Undisturbed /\ NothingRefused
      /\ Faults \cap {"crash", "load"} = {} /\ ~SaveLost
  BY DEF Undisturbed, SaveLost, NothingRefused
<1>2. CASE Configured = {}
  <2>1. Complete
    BY <1>2 DEF Complete
  <2> QED
    BY <2>1, PTL
<1>3. CASE Configured # {}
  <2> DEFINE I == FoundInv /\ EntryInv /\ TodoList /\ CompleteInv
  <2>1. Init => I
    BY FoundInit, EntryInit, CompleteInit DEF TodoList, Init
  <2>2. ASSUME Inv, Inv', Timely, Fits, I, [Next]_vars PROVE I'
    <3>1. FoundInv' /\ TodoList'
      BY <1>1, <2>2, FoundStep, TodoStep
    <3>2. EntryInv'
      BY <1>1, <2>2, EntryStep
    <3>3. CompleteInv'
      BY <2>2, CompleteStep
    <3> QED
      BY <3>1, <3>2, <3>3
  <2>3. I => Complete
    BY DEF CompleteInv
  <2> HIDE DEF I
  <2> QED
    BY <1>3, <2>1, <2>2, <2>3, InvAlways, TimelyAlways, PTL DEF Spec
<1> QED
  BY <1>2, <1>3
=============================================================================
