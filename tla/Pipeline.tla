------------------------------ MODULE Pipeline ------------------------------
(***************************************************************************)
(* What one invocation does with the prefixes of a log group, once the     *)
(* range is known: the second half of process_single_log_group             *)
(* (src/modules/batch_processor.py) with its pool of stream readers        *)
(* (StreamReader), the compression through temporary files                 *)
(* (src/modules/log_compressor.py) and the upload                          *)
(* (src/modules/s3_uploader.py).                                           *)
(***************************************************************************)
EXTENDS StreamReader

CONSTANTS
  Prefixes,    \* the prefixes in the order they are processed: the characters
               \* of the name, and the streams it matches
  Contents,    \* what the streams may hold
  Before,      \* how much of it may be before the range
  Unwritable,  \* events whose entry cannot be written as a line of JSON
  MaxWorkers,  \* max_workers
  Faults       \* which of "list", "timeout", "disk", "remove", "upload" may
               \* happen

ASSUME PipelineAssumption ==
  /\ Prefixes \in Seq([name : Seq(STRING), streams : SUBSET Stream])
  /\ Prefixes # <<>>
  /\ Contents \subseteq [Stream -> Seq(Nat)]
  /\ Before \subseteq [Stream -> Nat]
  /\ Unwritable \subseteq [stream : Stream, number : Nat]
  /\ MaxWorkers \in Nat \ {0}
  /\ Faults \subseteq {"list", "timeout", "disk", "remove", "upload"}

VARIABLES
  pc,         \* what the thread of the log group does next
  prefix,     \* the prefix it is at
  streams,    \* the streams listed for it
  collected,  \* those whose result was taken
  logs,       \* stream_logs
  temp,       \* temporary files of the compression
  objects,    \* the objects in S3, by key
  uploaded,   \* uploaded_files: the prefixes in the result
  got         \* ghost: what the workers yielded, by prefix and stream

pipeVars == <<pc, prefix, streams, collected, logs, temp, objects, uploaded, got>>
vars == <<readerVars, pipeVars>>

-----------------------------------------------------------------------------
Last == Len(Prefixes)

\* Mutant: the prefix is not part of the key.
KeyWithoutPrefix(i) == <<>>

\* get_s3_key: log group and range are those of the run; "/" and " " do not
\* occur in the part of the prefix.
ObjectKey(i) ==
  [c \in DOMAIN Prefixes[i].name |->
     IF Prefixes[i].name[c] \in {"/", " "} THEN "_" ELSE Prefixes[i].name[c]]

\* The events of a stream as they are collected.
LogsOf(s) ==
  [i \in DOMAIN yielded[s] |->
     [stream |-> s, number |-> yielded[s][i], time |-> contents[s][yielded[s][i]]]]

\* list.sort with the timestamp as key: entries of the same time stay in order.
Sorted(l) ==
  LET Place(k) == Cardinality({j \in DOMAIN l : \/ l[j].time < l[k].time
                                                \/ l[j].time = l[k].time /\ j <= k})
  IN  [n \in DOMAIN l |-> l[CHOOSE k \in DOMAIN l : Place(k) = n]]

Writable(s, n) == [stream |-> s, number |-> n] \notin Unwritable

\* The lines that are written: an entry that json or the encoding refuses is
\* passed over with a warning.
Kept(l) ==
  LET lines == {k \in DOMAIN l : Writable(l[k].stream, l[k].number)}
      Place(k) == Cardinality({j \in lines : j <= k})
  IN  [n \in 1..Cardinality(lines) |-> l[CHOOSE k \in lines : Place(k) = n]]

Init ==
  /\ ReaderInit(Contents, Before)
  /\ pc = "list" /\ prefix = 1
  /\ streams = {} /\ collected = {} /\ logs = <<>>
  /\ temp = {}
  /\ objects = [k \in {} |-> <<>>]
  /\ uploaded = {}
  /\ got = [i \in 1..Last |-> [s \in Stream |-> <<>>]]

NextPrefix ==
  IF prefix = Last THEN pc' = "done" /\ UNCHANGED prefix
                   ELSE pc' = "list" /\ prefix' = prefix + 1

\* The streams of the prefix are listed and submitted to a pool; without one
\* the next prefix follows.
List ==
  /\ pc = "list"
  /\ \E Listed \in IF "list" \in Faults THEN SUBSET Prefixes[prefix].streams
                                        ELSE {Prefixes[prefix].streams} :
       /\ streams' = Listed
       /\ step' = [s \in Stream |-> IF s \in Listed THEN "queued" ELSE "none"]
       /\ IF Listed = {} THEN NextPrefix ELSE pc' = "read" /\ UNCHANGED prefix
  /\ collected' = {} /\ logs' = <<>>
  /\ UNCHANGED <<contents, fromTime, entry, param, next, yielded, empties, calls,
                 began, temp, objects, uploaded, got>>

Reading == {s \in Stream : step[s] \in {"call", "save"}}

\* A worker of the pool takes a step.
Work(s) ==
  /\ pc \in {"read", "join"}
  /\ step[s] = "queued" => Cardinality(Reading) < MaxWorkers
  /\ Read(s)
  /\ got' = IF step'[s] = "read" THEN [got EXCEPT ![prefix][s] = yielded[s]] ELSE got
  /\ UNCHANGED <<pc, prefix, streams, collected, logs, temp, objects, uploaded>>

\* as_completed gives the results in the order in which they come.
Collect(s) ==
  /\ pc = "read" /\ s \in streams \ collected /\ step[s] = "read"
  /\ collected' = collected \cup {s}
  /\ logs' = logs \o LogsOf(s)
  /\ yielded' = [yielded EXCEPT ![s] = <<>>]
  /\ UNCHANGED <<contents, fromTime, entry, step, param, next, empties, calls,
                 began, pc, prefix, streams, temp, objects, uploaded,
                 got>>

\* After 300 seconds as_completed raises an error, which leaves the block of the
\* executor once every worker has ended, and then the log group.
ReadTimeout ==
  /\ pc = "read" /\ "timeout" \in Faults
  /\ collected # streams
  /\ pc' = "join"
  /\ UNCHANGED <<readerVars, prefix, streams, collected, logs, temp, objects,
                 uploaded, got>>

\* Mutant: it waits for results that nobody takes any more.
JoinedCollected ==
  /\ pc = "join"
  /\ collected = streams
  /\ pc' = "failed"
  /\ UNCHANGED <<readerVars, prefix, streams, collected, logs, temp, objects,
                 uploaded, got>>

Joined ==
  /\ pc = "join"
  /\ \A s \in streams : step[s] = "read"
  /\ pc' = "failed"
  /\ UNCHANGED <<readerVars, prefix, streams, collected, logs, temp, objects,
                 uploaded, got>>

\* All results are there: the logs are sorted and compressed, if there are any.
AllCollected ==
  /\ pc = "read" /\ collected = streams
  /\ IF logs = <<>> THEN NextPrefix /\ UNCHANGED logs
     ELSE /\ pc' = "compress" /\ logs' = Sorted(logs)
          /\ UNCHANGED prefix
  /\ UNCHANGED <<readerVars, streams, collected, temp, objects, uploaded, got>>

-----------------------------------------------------------------------------
(* LogCompressor: the logs are written to a file, and that to another.  The *)
(* files are removed on every way out; an error goes on to the log group.   *)

TempFile == <<"json", "gz">>

\* A first file without a line is not compressed: an empty archive is made.
Files == IF Kept(logs) = <<>> THEN 1 ELSE Len(TempFile)

\* Mutant: an error of the compression leaves at once.
WriteTempLeaves ==
  /\ pc = "compress" /\ Cardinality(temp) < Files
  /\ temp' = temp \cup {TempFile[Cardinality(temp) + 1]}
  /\ pc' \in {"compress"} \cup IF "disk" \in Faults THEN {"failed"} ELSE {}
  /\ UNCHANGED <<readerVars, prefix, streams, collected, logs, objects, uploaded,
                 got>>

\* The next file is written, or the disk is full while it is.
WriteTemp ==
  /\ pc = "compress" /\ Cardinality(temp) < Files
  /\ temp' = temp \cup {TempFile[Cardinality(temp) + 1]}
  /\ pc' \in {"compress"} \cup IF "disk" \in Faults THEN {"clean"} ELSE {}
  /\ UNCHANGED <<readerVars, prefix, streams, collected, logs, objects, uploaded,
                 got>>

\* Removing a file may fail, which leaves those after it as well.
Removed ==
  temp' \in {{}} \cup IF "remove" \in Faults THEN {temp, temp \ {TempFile[1]}}
                                              ELSE {}

\* The files are there: the last is read, and all are removed.
Compressed ==
  /\ pc = "compress" /\ Cardinality(temp) = Files
  /\ Removed
  /\ pc' = "upload"
  /\ UNCHANGED <<readerVars, prefix, streams, collected, logs, objects, uploaded,
                 got>>

CompressionFailed ==
  /\ pc = "clean"
  /\ Removed
  /\ pc' = "failed"
  /\ UNCHANGED <<readerVars, prefix, streams, collected, logs, objects, uploaded,
                 got>>

\* put_object of the lines that were written, which may be none: an object of
\* the same key is replaced.
Upload ==
  /\ pc = "upload"
  /\ objects' = [k \in DOMAIN objects \cup {ObjectKey(prefix)} |->
                   IF k = ObjectKey(prefix) THEN Kept(logs) ELSE objects[k]]
  /\ uploaded' = uploaded \cup {prefix}
  /\ NextPrefix
  /\ UNCHANGED <<readerVars, streams, collected, logs, temp, got>>

\* A failed upload is logged, and the next prefix follows.
UploadFails ==
  /\ pc = "upload" /\ "upload" \in Faults
  /\ NextPrefix
  /\ UNCHANGED <<readerVars, streams, collected, logs, temp, objects, uploaded, got>>

Next ==
  \/ List
  \/ \E s \in Stream : Work(s) \/ Collect(s)
  \/ ReadTimeout \/ Joined \/ AllCollected
  \/ WriteTemp \/ Compressed \/ CompressionFailed
  \/ Upload \/ UploadFails

\* The threads run on their own: every call is answered or fails.
Spec == Init /\ [][Next]_vars /\ WF_vars(Next)

-----------------------------------------------------------------------------
(* Properties. *)

\* Types of the variables.
TypeOK ==
  /\ contents \in Contents /\ fromTime \in Before
  /\ entry \in [Stream -> TokenOrNone]
  /\ step \in [Stream -> {"none", "queued", "call", "save", "read"}]
  /\ param \in [Stream -> TokenOrNone] /\ next \in [Stream -> TokenOrNone]
  /\ yielded \in [Stream -> Seq(Nat)]
  /\ empties \in [Stream -> 0..MaxEmpty]
  /\ calls \in [Stream -> 0..MaxIterations]
  /\ began \in [Stream -> Nat \cup {-1}]
  /\ pc \in {"list", "read", "join", "compress", "clean", "upload", "done",
             "failed"}
  /\ prefix \in 1..Last
  /\ streams \subseteq Stream /\ collected \subseteq streams
  /\ temp \subseteq {"json", "gz"}
  /\ uploaded \subseteq 1..Last

\* The saved token tells how far a stream was read (README.md:181, the place to
\* go on from): what the worker yielded is every event from where it began up
\* to its token, once and in order, and none beyond it.  An error in the middle
\* of the pages, empty pages and the bound on them included.
TokenExact ==
  \A s \in Stream :
    step[s] = "save" /\ next[s] # NoToken =>
      yielded[s] = Run(began[s], next[s].at)

\* The entries of stream s in o are those events that can be written, in order.
Holds(o, s, events) ==
  LET written == {k \in DOMAIN events : Writable(s, events[k])}
  IN  \E place \in [written -> DOMAIN o] :
        /\ \A j, k \in written : j < k => place[j] < place[k]
        /\ \A k \in written :
             o[place[k]].stream = s /\ o[place[k]].number = events[k]
        /\ \A n \in DOMAIN o : o[n].stream = s => \E k \in written : place[k] = n

InTime(o) == \A m, n \in DOMAIN o : m < n => o[m].time <= o[n].time

\* An object of the result holds what was read for its prefix (README.md:9):
\* every event the workers of its streams yielded and that can be written as
\* JSON, those of a stream in their order, the whole in the order of time,
\* whichever worker ended first.
ObjectsWhole ==
  \A i \in uploaded :
    /\ ObjectKey(i) \in DOMAIN objects
    /\ InTime(objects[ObjectKey(i)])
    /\ \A s \in Stream : Holds(objects[ObjectKey(i)], s, got[i][s])

\* The disk of a warm environment does not fill up: a compression leaves no
\* temporary file behind, where it ends with an error as well.
NoTempLeft ==
  "remove" \notin Faults /\ pc \notin {"compress", "clean"} => temp = {}

\* A log group comes to its end, although CloudWatch may give one empty page
\* with a new token after the other.
EveryGroupEnds == <>(pc \in {"done", "failed"})
=============================================================================
