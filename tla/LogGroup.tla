------------------------------ MODULE LogGroup ------------------------------
(***************************************************************************)
(* One log group over successive invocations of the Lambda function:       *)
(* BatchProcessor.process_single_log_group (src/modules/batch_processor.py)*)
(* with the readers of its streams (src/modules/cloudwatch_log_reader.py)  *)
(* and the range of Config.get_time_range (module TimeRange).              *)
(*                                                                         *)
(* CloudWatch is the set of times at which each stream logged an event     *)
(* (one event per stream and time).  A token of a stream is the time from  *)
(* which it goes on reading.  The state file is read and written as a      *)
(* whole and in one step; StateManager models how that comes about.        *)
(* The streams of an invocation are read one at a time: their workers      *)
(* share nothing else than the state file.                                 *)
(***************************************************************************)
EXTENDS TimeRange, Sequences, FiniteSets

CONSTANTS
  Stream,         \* log streams of the group
  Prefixes,       \* for each stream prefix, the streams it matches, in the
                  \* order the prefixes are processed (longest first)
  Setups,         \* ways the log group may be set up
  PageSize,       \* events in one answer of get_log_events
  MaxIterations,  \* max_iterations of the reading loop
  Faults,         \* which of "crash", "list", "read", "upload", "save", "load",
                  \* "lookup", "search", "reconfigure" may happen
  StartTime,      \* when the clock starts
  Histories,      \* the events that may have been logged before, per stream
  MaxTime,        \* bound on the clock
  MaxEvents       \* bound on the events of one stream

\* LOG_GROUP_RETENTION_DAY_i (0 when it is not set), LOG_GROUP_FULL_BACKUP_i,
\* the retentionInDays of the group (0 when it never expires), and the least
\* and greatest time between the starts of two invocations.
Setup == [retentionDay : Int, fullBackup : BOOLEAN, cloudwatchDays : Nat,
          minGap : Nat, maxGap : Nat]

ASSUME GroupAssumption ==
  /\ Prefixes \in Seq(SUBSET Stream)
  /\ Setups \subseteq Setup
  /\ PageSize \in Nat \ {0} /\ MaxIterations \in Nat \ {0}
  /\ Faults \subseteq {"crash", "list", "read", "upload", "save", "load",
                      "lookup", "search", "reconfigure"}
  /\ StartTime \in Nat /\ MaxTime \in Nat /\ MaxEvents \in Nat
  /\ StartTime <= MaxTime
  /\ Histories \subseteq [Stream -> SUBSET (0..MaxTime)]
  /\ \A h \in Histories, s \in Stream : \A t \in h[s] : t < StartTime

VARIABLES
  setup,       \* how the log group is set up
  now,         \* the clock
  logged,      \* times of the events CloudWatch received, per stream
  lastRead,    \* last_read_time of the state file
  lastRun,     \* last_run_time
  token,       \* next_token of each stream's entry; NoTime without an entry
  lastEvent,   \* last_event_time of the entry
  updated,     \* last_updated of the entry
  archive,     \* copies in S3 of each stream's event of each time
  pc,          \* where the running invocation is, or "idle"
  range,       \* actual_start_time and actual_end_time
  prefix,      \* index of the prefix being processed
  todo,        \* its streams still to be read
  collected,   \* stream_logs: the events read for it
  found,       \* streams_processed or any_streams_found
  started,     \* ghost: when the last invocation began
  base,        \* ghost: the time from which the group is backed up
  blind        \* ghost: the last invocation took the default state for the
               \* saved one

cloudwatch == <<setup, now, logged>>
times == <<lastRead, lastRun>>
entries == <<token, lastEvent, updated>>
state == <<times, entries>>
work == <<range, prefix, todo, collected, found>>
vars == <<cloudwatch, state, archive, pc, work, started, base, blind>>

-----------------------------------------------------------------------------
Matched(i) == Prefixes[i]

\* Retention deletes events; retentionInDays = 0 keeps them for ever.
Stored(s) ==
  LET days == setup.cloudwatchDays
  IN  {t \in logged[s] : days = 0 \/ t >= now - days * Day}

Date(t) == t \div Day

\* The first and the last n times of a set.
FirstTimes(T, n) == {t \in T : Cardinality({u \in T : u <= t}) <= n}
LastTimes(T, n) == {t \in T : Cardinality({u \in T : u >= t}) <= n}

Oldest(T) == CHOOSE t \in T : \A u \in T : t <= u
Newest(T) == CHOOSE t \in T : \A u \in T : u <= t

\* Mutant: a stream that ends just where the range starts is left out.
InRangeStrict(s) ==
  \/ setup.fullBackup
  \/ logged[s] = {}
  \/ ~ (Newest(logged[s]) <= range.start \/ Oldest(logged[s]) > range.end)

\* get_log_streams keeps a stream that has no events yet, and one whose first
\* and last event times overlap the range, both ends included; a full backup
\* passes no range.
InRange(s) ==
  \/ setup.fullBackup
  \/ logged[s] = {}
  \/ ~ (Newest(logged[s]) < range.start \/ Oldest(logged[s]) > range.end)

-----------------------------------------------------------------------------
Init ==
  /\ setup \in Setups
  /\ now = StartTime
  /\ logged \in Histories
  /\ lastRead = NoTime /\ lastRun = NoTime
  /\ token = [s \in Stream |-> NoTime]
  /\ lastEvent = [s \in Stream |-> NoTime]
  /\ updated = [s \in Stream |-> NoTime]
  /\ archive = [s \in Stream |-> [t \in 0..MaxTime |-> 0]]
  /\ pc = "idle"
  /\ range = NoRange /\ prefix = 0 /\ todo = {} /\ collected = {}
  /\ found = FALSE
  /\ started = NoTime /\ base = NoTime /\ blind = FALSE

\* EventBridge calls the function at the latest maxGap after the last time.
Tick ==
  /\ now < MaxTime
  /\ started # NoTime => now - started < setup.maxGap
  /\ now' = now + 1
  /\ UNCHANGED <<setup, logged, state, archive, pc, work, started, base, blind>>

\* A stream logs an event.
Log(s) ==
  /\ now \notin logged[s]
  /\ Cardinality(logged[s]) < MaxEvents
  /\ logged' = [logged EXCEPT ![s] = @ \cup {now}]
  /\ UNCHANGED <<setup, now, state, archive, pc, work, started, base, blind>>

\* The set-up changes between two runs, and the state file stays.
Reconfigure ==
  /\ "reconfigure" \in Faults
  /\ pc = "idle"
  /\ setup' \in Setups \ {setup}
  /\ UNCHANGED <<now, logged, state, archive, pc, work, started, base, blind>>

-----------------------------------------------------------------------------
(* The invocation. *)

\* The answer of a save of the state file is ignored, and the run goes on.  A
\* save that fails is lost, or made good by the next save of the same dict.
SaveLost == "save" \in Faults

Finish ==
  /\ pc' = "idle"
  /\ range' = NoRange /\ prefix' = 0 /\ todo' = {} /\ collected' = {}
  /\ found' = FALSE

Due ==
  /\ pc = "idle"
  /\ started # NoTime => now - started >= setup.minGap

\* What describe_log_groups may answer.
RetentionLookup ==
  {setup.cloudwatchDays} \cup IF "lookup" \in Faults THEN {0} ELSE {}

\* Mutant: the comparison that looks for the oldest event is the wrong way.
SearchResultNewest ==
  LET Times == UNION {Stored(s) : s \in Stream}
  IN  {IF Times = {} THEN [outcome |-> "none", time |-> NoTime]
       ELSE [outcome |-> "found", time |-> Newest(Times)]}

\* What the search for the oldest event may find.  Streams whose lookup failed
\* are left out.
SearchResult ==
  LET Seen == IF "search" \in Faults THEN SUBSET Stream ELSE {Stream}
      Times(S) == UNION {Stored(s) : s \in S}
  IN  {IF Times(S) = {} THEN [outcome |-> "none", time |-> NoTime]
       ELSE [outcome |-> "found", time |-> Oldest(Times(S))] : S \in Seen}
        \cup IF "search" \in Faults
             THEN {[outcome |-> "error", time |-> NoTime]} ELSE {}

\* The first run of a full backup only sets up the state: first to a year ago.
BeginInit ==
  /\ Due
  /\ setup.fullBackup /\ lastRead = NoTime
  /\ \/ lastRead' = now - 365 * Day /\ base' = now - 365 * Day
     \/ SaveLost /\ UNCHANGED <<lastRead, base>>
  /\ started' = now /\ blind' = FALSE
  /\ pc' = "search"
  /\ UNCHANGED <<cloudwatch, lastRun, entries, archive, work>>

\* ... and then to the start of the range of the oldest event.
FinishInit ==
  /\ pc = "search"
  /\ \E search \in SearchResult :
       LET r == GetTimeRange(now, -1, setup.cloudwatchDays, NoTime, lastRun,
                             search)
       IN  \/ lastRead' = r.start /\ base' = r.start
           \/ SaveLost /\ UNCHANGED <<lastRead, base>>
  /\ Finish
  /\ UNCHANGED <<cloudwatch, lastRun, entries, archive, started, blind>>

\* The retention_day that get_time_range is given.
ModeDay == IF setup.fullBackup THEN -1 ELSE setup.retentionDay

\* Without a range nothing is read and nothing saved.
StartReading(r) ==
  IF r = NoRange
  THEN UNCHANGED <<pc, work>>
  ELSE /\ range' = r
       /\ IF Len(Prefixes) = 0
          THEN pc' = "cleanup" /\ UNCHANGED prefix
          ELSE pc' = "list" /\ prefix' = 1
       /\ UNCHANGED <<todo, collected, found>>

\* The range is computed.
Begin ==
  /\ Due
  /\ ~ (setup.fullBackup /\ lastRead = NoTime)
  /\ started' = now /\ blind' = FALSE
  /\ \E days \in RetentionLookup, search \in SearchResult :
       StartReading(GetTimeRange(now, ModeDay, days, lastRead, lastRun, search))
  /\ UNCHANGED <<cloudwatch, state, archive, base>>

\* get_log_streams.  An error gives the streams of the pages before it.
ListStreams ==
  /\ pc = "list"
  /\ \E Listed \in IF "list" \in Faults THEN SUBSET Matched(prefix)
                                        ELSE {Matched(prefix)} :
       /\ todo' = {s \in Listed : InRange(s)}
       /\ found' = (found \/ Listed # {})
  /\ pc' = "read"
  /\ UNCHANGED <<cloudwatch, state, archive, range, prefix, collected, started,
                 base, blind>>

\* A token is used unless the range starts on another day than the last event.
UsesToken(s) == token[s] # NoTime /\ Date(lastEvent[s]) = Date(range.start)

\* What get_log_events has to give: from the token, or from the start time.
ReadableFrom(s, start) == {t \in Stored(s) : t >= start /\ t < range.end}

Readable(s) == ReadableFrom(s, IF UsesToken(s) THEN token[s] ELSE range.start)

\* The reading loop from a token goes forward page by page, up to
\* max_iterations; without one the first answer is the last page of the range
\* (startFromHead is not given) and there is nothing after it.  An error in
\* the loop ends it as if there were no more.
OutcomeOf(T, fromToken) ==
  LET All == IF fromToken THEN FirstTimes(T, PageSize * MaxIterations)
                          ELSE LastTimes(T, PageSize)
      Pages == 0..MaxIterations
  IN  IF "read" \notin Faults THEN {All}
      ELSE IF fromToken THEN {FirstTimes(All, PageSize * n) : n \in Pages}
      ELSE {All, {}}

ReadOutcome(s) == OutcomeOf(Readable(s), UsesToken(s))

\* update_stream_state: the place to go on from, and the time of the last
\* event, or of the end of the range when there was none.
SaveEntry(s, next, time) ==
  \/ /\ token' = [token EXCEPT ![s] = next]
     /\ lastEvent' = [lastEvent EXCEPT ![s] = time]
     /\ updated' = [updated EXCEPT ![s] = now]
  \/ SaveLost /\ UNCHANGED entries

\* A worker reads stream s and saves its entry, before anything is uploaded.
ReadStream(s) ==
  /\ pc = "read" /\ s \in todo
  /\ todo' = todo \ {s}
  /\ \E T \in ReadOutcome(s) :
       /\ collected' = collected \cup [stream : {s}, time : T]
       /\ \/ /\ T # {}
             /\ SaveEntry(s, Newest(T) + 1, Newest(T))
          \* Nothing after the token, or an error at the first call.
          \/ /\ T = {} /\ (UsesToken(s) \/ Readable(s) # {} \/ "read" \in Faults)
             /\ UNCHANGED entries
          \* No token and an empty range: CloudWatch gives a token all the
          \* same, somewhere in the range.
          \/ /\ T = {} /\ ~UsesToken(s) /\ Readable(s) = {}
             /\ \E next \in {range.start, range.end} :
                  SaveEntry(s, next, range.end)
  /\ UNCHANGED <<cloudwatch, times, archive, pc, range, prefix, found, started,
                 base, blind>>

\* Mutant: one prefix too many.
NextPrefixOneMore ==
  /\ IF prefix > Len(Prefixes)
     THEN pc' = "cleanup" /\ UNCHANGED prefix
     ELSE pc' = "list" /\ prefix' = prefix + 1
  /\ collected' = {}

NextPrefix ==
  /\ IF prefix = Len(Prefixes)
     THEN pc' = "cleanup" /\ UNCHANGED prefix
     ELSE pc' = "list" /\ prefix' = prefix + 1
  /\ collected' = {}

\* All streams of the prefix are read and what they gave is stored in S3.
Upload ==
  /\ pc = "read" /\ todo = {}
  /\ archive' = [s \in Stream |-> [t \in 0..MaxTime |->
                   archive[s][t]
                     + IF [stream |-> s, time |-> t] \in collected THEN 1 ELSE 0]]
  /\ NextPrefix
  /\ UNCHANGED <<cloudwatch, state, range, todo, found, started, base, blind>>

\* Mutant: the run ends there, with the entries of the streams saved.
UploadFailsReturns ==
  /\ pc = "read" /\ todo = {} /\ collected # {}
  /\ "upload" \in Faults
  /\ Finish
  /\ UNCHANGED <<cloudwatch, state, archive, started, base, blind>>

\* Compression or upload fails: it is logged, and the run goes on.
UploadFails ==
  /\ pc = "read" /\ todo = {} /\ collected # {}
  /\ "upload" \in Faults
  /\ NextPrefix
  /\ UNCHANGED <<cloudwatch, state, archive, range, todo, found, started, base,
                 blind>>

\* cleanup_old_streams: entries not updated for 24 hours are dropped.
IsOld(s) == updated[s] # NoTime /\ now - updated[s] > Day

CleanUp ==
  /\ pc = "cleanup"
  /\ LET Keep(f) == [s \in Stream |-> IF IsOld(s) THEN NoTime ELSE f[s]]
     IN  \/ /\ token' = Keep(token)
            /\ lastEvent' = Keep(lastEvent)
            /\ updated' = Keep(updated)
         \/ SaveLost /\ UNCHANGED entries
  /\ pc' = IF found THEN "save_read" ELSE "save_run"
  /\ UNCHANGED <<cloudwatch, times, archive, work, started, base, blind>>

SaveReadTime ==
  /\ pc = "save_read"
  /\ \/ /\ lastRead' = range.end
        /\ base' = IF base = NoTime THEN range.start ELSE base
     \/ SaveLost /\ UNCHANGED <<lastRead, base>>
  /\ pc' = "save_run"
  /\ UNCHANGED <<cloudwatch, lastRun, entries, archive, work, started, blind>>

SaveRunTime ==
  /\ pc = "save_run"
  /\ lastRun' = now \/ (SaveLost /\ UNCHANGED lastRun)
  /\ Finish
  /\ UNCHANGED <<cloudwatch, lastRead, entries, archive, started, base, blind>>

\* The invocation is killed by its timeout, or an exception ends it: the
\* state file stays as it was last saved.
Crash ==
  /\ "crash" \in Faults
  /\ pc # "idle"
  /\ Finish
  /\ UNCHANGED <<cloudwatch, state, archive, started, base, blind>>

-----------------------------------------------------------------------------
(* A load of the state file fails: load_state gives the default state, with *)
(* no time and no entry, and nobody notices (the state is cached for a      *)
(* minute, so the later loads of a run need not ask S3, but may).  What is  *)
(* saved after it replaces the state file: all else that it said is lost.   *)

NoEntries == [s \in Stream |-> NoTime]
ForgetEntries == token' = NoEntries /\ lastEvent' = NoEntries /\ updated' = NoEntries

\* update_last_read_time on the default state.
OnlyReadTime(t, from) ==
  /\ lastRead' = t /\ base' = from
  /\ lastRun' = NoTime
  /\ ForgetEntries

\* The load at the beginning fails, or that of the first save.  A full backup
\* is taken for one that was never run.
BlindInit ==
  /\ Due
  /\ setup.fullBackup
  /\ LET yearAgo == now - 365 * Day
     IN  \/ lastRead' = yearAgo /\ base' = yearAgo /\ UNCHANGED <<lastRun, entries>>
         \/ OnlyReadTime(yearAgo, yearAgo)
         \/ SaveLost /\ UNCHANGED <<state, base>>
  /\ started' = now
  /\ pc' = "search"
  /\ UNCHANGED <<cloudwatch, archive, work>>

BlindFinishInit ==
  /\ pc = "search"
  /\ \E search \in SearchResult :
       LET r == GetTimeRange(now, -1, setup.cloudwatchDays, NoTime, lastRun,
                             search)
       IN  OnlyReadTime(r.start, r.start)
  /\ Finish
  /\ UNCHANGED <<cloudwatch, archive, started>>

\* The range is that of a first run.
BlindBegin ==
  /\ Due
  /\ ~setup.fullBackup
  /\ started' = now
  /\ \E days \in RetentionLookup, search \in SearchResult :
       StartReading(GetTimeRange(now, ModeDay, days, NoTime, NoTime, search))
  /\ UNCHANGED <<cloudwatch, state, archive, base>>

\* update_stream_state on the default state.
OnlyEntry(s, next, time) ==
  /\ lastRead' = NoTime /\ lastRun' = NoTime
  /\ token' = [NoEntries EXCEPT ![s] = next]
  /\ lastEvent' = [NoEntries EXCEPT ![s] = time]
  /\ updated' = [NoEntries EXCEPT ![s] = now]

\* A worker does not find the entry of its stream, or saves over the others.
BlindRead(s) ==
  /\ pc = "read" /\ s \in todo
  /\ todo' = todo \ {s}
  /\ \E fromToken \in {UsesToken(s), FALSE} :
       LET Has == ReadableFrom(s, IF fromToken THEN token[s] ELSE range.start)
           Save(next, time) == \/ SaveEntry(s, next, time) /\ UNCHANGED times
                               \/ OnlyEntry(s, next, time)
       IN  \E T \in OutcomeOf(Has, fromToken) :
             /\ collected' = collected \cup [stream : {s}, time : T]
             /\ \/ T # {} /\ Save(Newest(T) + 1, Newest(T))
                \/ /\ T = {} /\ (fromToken \/ Has # {} \/ "read" \in Faults)
                   /\ UNCHANGED state
                \/ /\ T = {} /\ ~fromToken /\ Has = {}
                   /\ \E next \in {range.start, range.end} : Save(next, range.end)
  /\ UNCHANGED <<cloudwatch, archive, pc, range, prefix, found, started, base>>

\* The default state has no entry to drop, and is not saved.
BlindCleanUp ==
  /\ pc = "cleanup"
  /\ pc' = IF found THEN "save_read" ELSE "save_run"
  /\ UNCHANGED <<cloudwatch, state, archive, work, started, base>>

BlindSaveReadTime ==
  /\ pc = "save_read"
  /\ OnlyReadTime(range.end, IF base = NoTime THEN range.start ELSE base)
  /\ pc' = "save_run"
  /\ UNCHANGED <<cloudwatch, archive, work, started>>

BlindSaveRunTime ==
  /\ pc = "save_run"
  /\ lastRun' = now /\ lastRead' = NoTime
  /\ ForgetEntries
  /\ Finish
  /\ UNCHANGED <<cloudwatch, archive, started, base>>

FailingLoad ==
  /\ "load" \in Faults
  /\ blind' = TRUE
  /\ \/ BlindInit
     \/ BlindFinishInit
     \/ BlindBegin
     \/ \E s \in Stream : BlindRead(s)
     \/ BlindCleanUp
     \/ BlindSaveReadTime
     \/ BlindSaveRunTime

Next ==
  \/ Tick
  \/ \E s \in Stream : Log(s)
  \/ Reconfigure
  \/ BeginInit
  \/ FinishInit
  \/ Begin
  \/ ListStreams
  \/ \E s \in Stream : ReadStream(s)
  \/ Upload
  \/ UploadFails
  \/ CleanUp
  \/ SaveReadTime
  \/ SaveRunTime
  \/ Crash
  \/ FailingLoad

Spec == Init /\ [][Next]_vars

-----------------------------------------------------------------------------
(* Properties. *)

\* Types of the variables.
TypeOK ==
  /\ setup \in Setup
  /\ now \in 0..MaxTime
  /\ logged \in [Stream -> SUBSET (0..MaxTime)]
  /\ lastRead \in TimeOrNone /\ lastRun \in TimeOrNone
  /\ token \in [Stream -> TimeOrNone]
  /\ lastEvent \in [Stream -> TimeOrNone]
  /\ updated \in [Stream -> TimeOrNone]
  /\ archive \in [Stream -> [0..MaxTime -> Nat]]
  /\ pc \in {"idle", "search", "list", "read", "cleanup", "save_read",
             "save_run"}
  /\ range \in [start : TimeOrNone, end : TimeOrNone]
  /\ prefix \in 0..Len(Prefixes)
  /\ todo \subseteq Stream
  /\ collected \subseteq [stream : Stream, time : 0..MaxTime]
  /\ found \in BOOLEAN
  /\ started \in TimeOrNone /\ base \in TimeOrNone
  /\ blind \in BOOLEAN

Configured == UNION {Matched(i) : i \in 1..Len(Prefixes)}

\* last_read_time is a promise (README.md:9, continuous collection without
\* omissions): whatever a configured stream logged from the time the backup
\* began up to the saved last_read_time is in S3.
Complete ==
  base # NoTime /\ lastRead # NoTime =>
    \A s \in Configured : \A t \in logged[s] :
      base <= t /\ t < lastRead => archive[s][t] > 0

\* No omission at all (README.md:9): an event before last_read_time that is
\* not in S3 is at least still ahead of the token of its stream.
NoLoss ==
  base # NoTime /\ lastRead # NoTime =>
    \A s \in Configured : \A t \in logged[s] :
      base <= t /\ t < lastRead /\ archive[s][t] = 0 =>
        token[s] # NoTime /\ t >= token[s]

\* A full backup starts from the oldest event (README.md:8, 186), once the
\* first run is over.
FromOldest ==
  setup.fullBackup /\ base # NoTime /\ pc = "idle" =>
    \A s \in Stream : \A t \in logged[s] : base <= t

\* No event is collected twice (README.md:10, 181): the range starts where the
\* last one ended or its token leads on from there, over changes of date that
\* drop the token, and streams listed again in the next run.
NoDuplicate == \A s \in Stream, t \in 0..MaxTime : archive[s][t] <= 1

\* last_read_time never goes back (README.md:233-234) in an invocation that
\* sees the saved state: recovery runs, failed look-ups, saves and crashes,
\* changes of mode and what an invocation before it did without seeing the
\* state included.  Only the set-up of a full backup moves the provisional
\* time, which may be later than the oldest event.
ReadTimeForward ==
  [][pc # "search" /\ lastRead # NoTime /\ ~blind' => lastRead' >= lastRead]_vars

\* last_read_time is not in the future: events still to come are not behind it.
NotAhead == lastRead # NoTime => lastRead <= now

\* Between runs, no stream goes on from a place beyond last_read_time: the
\* entries of the streams and the time of the group tell the same story.
EntriesNotAhead ==
  pc = "idle" =>
    \A s \in Stream :
      token[s] # NoTime => lastRead # NoTime /\ token[s] <= lastRead
=============================================================================
