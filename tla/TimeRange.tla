------------------------------ MODULE TimeRange ------------------------------
(***************************************************************************)
(* Config.get_time_range (src/modules/config.py): the range of log times   *)
(* an invocation reads, from the configuration of the log group and what   *)
(* its state file says of the previous runs.  Times are integers of some   *)
(* unit; a range holds the times from its start up to, not including, its  *)
(* end, which is how CloudWatch reads startTime and endTime.               *)
(***************************************************************************)
EXTENDS Integers

CONSTANTS
  MinutesBack,   \* MINUTES_BACK
  Day,           \* timedelta(days=1)
  NoTime         \* None

ASSUME TimeAssumption ==
  /\ MinutesBack \in Nat \ {0}
  /\ Day \in Nat \ {0}
  /\ NoTime \notin Int

TimeOrNone == Int \cup {NoTime}

Between(s, e) == [start |-> s, end |-> e]
NoRange == Between(NoTime, NoTime)

Window(s) == Between(s, s + MinutesBack)

WindowUpTo(e) == Between(e - MinutesBack, e)

\* Mutant: no max(0, ...).
EffectiveDaysSigned(cloudwatchDays, retentionDay) == cloudwatchDays - retentionDay

\* max(0, cloudwatch_retention_days - retention_day)
EffectiveDays(cloudwatchDays, retentionDay) ==
  IF cloudwatchDays > retentionDay THEN cloudwatchDays - retentionDay ELSE 0

DeletionTime(now, cloudwatchDays, retentionDay) ==
  now - EffectiveDays(cloudwatchDays, retentionDay) * Day

SinceLastRun(now, lastRead, lastRun) ==
  now - (IF lastRun = NoTime THEN lastRead ELSE lastRun)

\* Mutant: the state is ignored whenever there is one.
RetentionRangeStateless(deletion, now, lastRead, lastRun) == WindowUpTo(deletion)

\* A finite retention.  After a pause of MINUTES_BACK the state is ignored
\* (recovery), as it is when there is none; else the read goes on from it.
RetentionRange(deletion, now, lastRead, lastRun) ==
  IF lastRead = NoTime \/ SinceLastRun(now, lastRead, lastRun) >= MinutesBack
  THEN WindowUpTo(deletion)
  ELSE Between(lastRead, deletion)

\* No retention_day: the same with MINUTES_BACK * 2 and no deletion time, and
\* a read that goes on from the state covers MINUTES_BACK from there.
DefaultRange(now, lastRead) ==
  IF lastRead = NoTime \/ now - lastRead >= 2 * MinutesBack
  THEN WindowUpTo(now)
  ELSE Window(lastRead)

\* Where a full backup starts: the oldest event found in any stream; seven
\* days ago when there is none; a year ago when the search failed.  A stream
\* whose lookup fails counts as empty.
OldestStart(now, search) ==
  CASE search.outcome = "found" -> search.time
    [] search.outcome = "none"  -> now - 7 * Day
    [] search.outcome = "error" -> now - 365 * Day

FullBackupRange(now, lastRead, search) ==
  Window(IF lastRead = NoTime THEN OldestStart(now, search) ELSE lastRead)

\* Mutant: the check of the range against the state is missing.
ValidatedNever(range, lastRead) == range

\* A range that ends at or before the last read time is not read at all.
Validated(range, lastRead) ==
  IF lastRead # NoTime /\ range.end <= lastRead THEN NoRange ELSE range

\* get_time_range.  cloudwatchDays is 0 for "never expire", and also when the
\* retention could not be looked up; a retentionDay that is not set is 0.
GetTimeRange(now, retentionDay, cloudwatchDays, lastRead, lastRun, search) ==
  IF retentionDay > 0 /\ cloudwatchDays # 0
  THEN Validated(RetentionRange(DeletionTime(now, cloudwatchDays, retentionDay),
                                now, lastRead, lastRun), lastRead)
  ELSE IF retentionDay > 0 \/ retentionDay = -1
  THEN FullBackupRange(now, lastRead, search)
  ELSE Validated(DefaultRange(now, lastRead), lastRead)
=============================================================================
