----------------------------- MODULE Invocation -----------------------------
(***************************************************************************)
(* Whole invocations of the Lambda function: lambda_handler and            *)
(* run_test_mode (src/lambda_function.py), the state managers they build,  *)
(* each of which first moves the old common state file into one file per   *)
(* log group (_migrate_legacy_state, src/modules/s3_state_manager.py), and *)
(* the thread pool of process_all_log_groups (src/modules/                 *)
(* batch_processor.py).                                                    *)
(*                                                                         *)
(* Invocations do not overlap.  The state of a log group is the number of  *)
(* times it was saved: the old common file holds the first, and every save *)
(* by a worker is one more (a save reads, changes and writes the file      *)
(* under a lock; StateManager models that).  What a worker does between    *)
(* its saves is the subject of LogGroup.                                   *)
(*                                                                         *)
(* Any call of S3 may fail on its own, or always, as the role or the       *)
(* bucket makes it.  Two ghosts keep what such a failure did: lost are the *)
(* groups whose own entry could not be moved, hurt those whose state may   *)
(* be an older one from then on.                                           *)
(***************************************************************************)
EXTENDS Integers, Sequences, FiniteSets

CONSTANTS
  Group,       \* log groups, as the characters of their names
  Setups,      \* ways the function may be deployed
  MaxWorkers,  \* Config.get_max_workers
  MaxSaves,    \* bound on the saves of one log group
  Faults,      \* calls of S3 that may fail by chance: head_object, get_object
               \* and delete_object of the common file, put_object of a state
               \* or of the test file, and get_object of a log group's file
  NoFile       \* the common state file does not exist

\* LOG_GROUP_NAME_i in order, USE_S3_STATE, whether S3_BUCKET_NAME is set, and
\* the S3 operations the role of the function may not do.
Setup == [groups : Seq(Group), useS3State : BOOLEAN, bucketNamed : BOOLEAN,
          denied : SUBSET {"put", "delete"}]

ASSUME InvocationAssumption ==
  /\ Group \subseteq Seq(STRING)
  /\ Setups \subseteq Setup
  /\ MaxWorkers \in Nat \ {0} /\ MaxSaves \in Nat \ {0}
  /\ Faults \subseteq {"head", "get", "delete", "put", "load"}
  /\ \A S \in SUBSET Group : S # NoFile

VARIABLES
  setup,    \* how the function is deployed
  legacy,   \* log groups the common file has a valid entry of, or NoFile
  file,     \* saves of the file of each key; 0 when it does not exist
  last,     \* ghost: saves of each log group
  lost,     \* ghost: log groups whose entry was not moved for a failing put
  hurt,     \* ghost: log groups whose saved state a failing call may have set back
  pc,       \* what the invocation does next, or "idle"
  mode,     \* "normal" or "test"
  manager,  \* what the manager that is being built is for
  readers,  \* log groups a test still builds a reader for
  todo,     \* entries of the common file still to be moved
  moved,    \* entries that were moved
  queued,   \* tasks of the pool that no worker has begun
  running,  \* tasks a worker is at
  loaded    \* the state each running task began with

deployed == <<setup>>
ghosts == <<lost, hurt>>
store == <<legacy, file, last, ghosts>>
migration == <<todo, moved>>
pool == <<queued, running, loaded>>
vars == <<deployed, store, pc, mode, manager, readers, migration, pool>>

-----------------------------------------------------------------------------
\* _get_state_key_for_log_group: "/" does not occur in the key.
StateKey(group) ==
  [i \in DOMAIN group |-> IF group[i] = "/" THEN "_" ELSE group[i]]

Key == {StateKey(g) : g \in Group}

Legacy == IF legacy = NoFile THEN {} ELSE legacy
Saves(group) == file[StateKey(group)]
Tasks == DOMAIN setup.groups
May(operation) == operation \notin setup.denied

NoTasks ==
  queued' = {} /\ running' = {} /\ loaded' = [i \in {} |-> 0]

\* Mutant: the tasks outlive the invocation.
EndLeavesTasks ==
  pc' = "idle" /\ readers' = 0 /\ todo' = {} /\ moved' = {} /\ UNCHANGED pool

\* The answer is returned, or the function ends without one.
End == pc' = "idle" /\ readers' = 0 /\ todo' = {} /\ moved' = {} /\ NoTasks

Init ==
  /\ setup \in Setups
  /\ legacy = NoFile \/ legacy \in SUBSET Group
  /\ file = [k \in Key |-> 0]
  /\ last = [g \in Group |-> IF g \in Legacy THEN 1 ELSE 0]
  /\ lost = {} /\ hurt = {}
  /\ pc = "idle" /\ mode = "normal" /\ manager = "validate" /\ readers = 0
  /\ todo = {} /\ moved = {}
  /\ queued = {} /\ running = {} /\ loaded = [i \in {} |-> 0]

\* The function is deployed anew, with other settings or another role.
Deploy ==
  /\ pc = "idle"
  /\ setup' \in Setups \ {setup}
  /\ UNCHANGED <<store, pc, mode, manager, readers, migration, pool>>

-----------------------------------------------------------------------------
(* Until the log groups are processed. *)

Build(what) == pc' = "head" /\ manager' = what

\* lambda_handler up to validate_config: a bucket without a name is an error
\* (500), and only with USE_S3_STATE is a manager built to try the access.
Start(m) ==
  /\ pc = "idle"
  /\ mode' = m
  /\ \/ ~setup.bucketNamed /\ UNCHANGED <<pc, manager>>
     \/ setup.bucketNamed /\ setup.useS3State /\ Build("validate")
     \/ setup.bucketNamed /\ ~setup.useS3State
        /\ pc' = "configs" /\ UNCHANGED manager
  /\ UNCHANGED <<deployed, store, readers, migration, pool>>

\* The manager is built: validate_config tries the access, the batch processor
\* submits every log group, and a test goes on to its next reader or answers.
Built ==
  \/ /\ manager = "validate" /\ pc' = "access"
     /\ todo' = {} /\ moved' = {}
     /\ UNCHANGED <<readers, pool>>
  \/ /\ manager = "batch" /\ pc' = "collect"
     /\ todo' = {} /\ moved' = {}
     /\ queued' = Tasks
     /\ UNCHANGED <<readers, running, loaded>>
  \/ /\ manager = "reader" /\ readers > 1
     /\ pc' = "head" /\ readers' = readers - 1
     /\ todo' = {} /\ moved' = {}
     /\ UNCHANGED pool
  \/ manager = "reader" /\ readers <= 1 /\ End

\* _migrate_legacy_state: without a common file there is nothing to do.
Check ==
  /\ pc = "head"
  /\ IF legacy = NoFile
     THEN Built
     ELSE pc' = "get" /\ UNCHANGED <<readers, migration, pool>>
  /\ UNCHANGED <<deployed, store, mode, manager>>

\* The common file is read; entries that are no state are passed over.
Get ==
  /\ pc = "get"
  /\ pc' = "move" /\ todo' = legacy /\ moved' = {}
  /\ UNCHANGED <<deployed, store, mode, manager, readers, pool>>

\* The entry of a log group is written over whatever its own file holds.
Move(group) ==
  /\ pc = "move" /\ group \in todo
  /\ todo' = todo \ {group}
  /\ IF May("put")
     THEN /\ file' = [file EXCEPT ![StateKey(group)] = 1]
          /\ moved' = moved \cup {group}
     ELSE UNCHANGED <<file, moved>>
  /\ UNCHANGED <<deployed, legacy, last, ghosts, pc, mode, manager, readers, pool>>

\* The entry of one log group cannot be saved; the next one is tried.
MoveFails(group) ==
  /\ pc = "move" /\ group \in todo /\ "put" \in Faults
  /\ todo' = todo \ {group}
  /\ lost' = lost \cup {group} /\ hurt' = hurt \cup {group}
  /\ UNCHANGED <<deployed, legacy, file, last, pc, mode, manager, readers, moved,
                 pool>>

\* Mutant: the common file is deleted after the first entry that was moved.
EndMigrationEarly ==
  /\ pc = "move" /\ (todo = {} \/ moved # {})
  /\ legacy' = IF moved # {} /\ May("delete") THEN NoFile ELSE legacy
  /\ Built
  /\ UNCHANGED <<deployed, file, last, ghosts, mode, manager>>

\* The common file is deleted when at least one entry was moved, whatever
\* became of the others.
EndMigration ==
  /\ pc = "move" /\ todo = {}
  /\ legacy' = IF moved # {} /\ May("delete") THEN NoFile ELSE legacy
  /\ Built
  /\ UNCHANGED <<deployed, file, last, ghosts, mode, manager>>

\* head_object, get_object or delete_object fails: the error is logged and the
\* manager is used all the same.  The entries stay in the common file; they
\* are moved over newer states later when this is the manager of the batch.
MigrationFails ==
  /\ \/ pc = "head" /\ "head" \in Faults
     \/ pc = "get" /\ "get" \in Faults
     \/ pc = "move" /\ todo = {} /\ moved # {} /\ "delete" \in Faults
  /\ Built
  /\ hurt' = IF manager = "batch" THEN hurt \cup Legacy ELSE hurt
  /\ UNCHANGED <<deployed, legacy, file, last, lost, mode, manager>>

\* Mutant: writing is tried, and deleting is not.
AccessPut ==
  /\ pc = "access"
  /\ IF May("put")
     THEN pc' = "configs" /\ UNCHANGED <<readers, migration, pool>>
     ELSE End
  /\ UNCHANGED <<deployed, store, mode, manager>>

\* validate_s3_access writes and deletes a test file; without the access the
\* invocation answers that there is nothing to do.
Access ==
  /\ pc = "access"
  /\ IF May("put") /\ May("delete")
     THEN pc' = "configs" /\ UNCHANGED <<readers, migration, pool>>
     ELSE End
  /\ UNCHANGED <<deployed, store, mode, manager>>

\* The test file cannot be written or deleted this time.
AccessFails ==
  /\ pc = "access" /\ Faults \cap {"put", "delete"} # {}
  /\ End
  /\ UNCHANGED <<deployed, store, mode, manager>>

\* get_batch_configs.  A test builds a reader per log group, each of which
\* builds a manager of its own; a normal run builds a batch processor.
Configs ==
  /\ pc = "configs"
  /\ \/ Tasks = {} /\ End /\ UNCHANGED manager
     \/ /\ Tasks # {}
        /\ mode = "test" /\ readers' = Len(setup.groups) /\ Build("reader")
        /\ UNCHANGED <<migration, pool>>
     \/ /\ Tasks # {} /\ mode = "normal" /\ Build("batch")
        /\ UNCHANGED <<readers, migration, pool>>
  /\ UNCHANGED <<deployed, store, mode>>

-----------------------------------------------------------------------------
(* process_all_log_groups. *)

Pooled == pc \in {"collect", "join"}

\* What load_state returns: no state at all after an error of get_object.
LoadedStates(group) == {Saves(group)} \cup IF "load" \in Faults THEN {0} ELSE {}

\* A free worker takes the first task and loads the state of its log group.
BeginTask(i) ==
  /\ Pooled
  /\ i \in queued /\ \A j \in queued : i <= j
  /\ Cardinality(running) < MaxWorkers
  /\ queued' = queued \ {i} /\ running' = running \cup {i}
  /\ \E state \in LoadedStates(setup.groups[i]) :
       loaded' = [j \in DOMAIN loaded \cup {i} |->
                    IF j = i THEN state ELSE loaded[j]]
  /\ UNCHANGED <<deployed, store, pc, mode, manager, readers, migration>>

\* A worker saves the state of its log group; when the put fails, nothing is
\* saved.
Save(i) ==
  LET g == setup.groups[i] IN
  /\ Pooled /\ i \in running
  /\ last[g] < MaxSaves
  /\ IF May("put")
     THEN /\ file' = [file EXCEPT ![StateKey(g)] = @ + 1]
          /\ last' = [last EXCEPT ![g] = @ + 1]
     ELSE UNCHANGED <<file, last>>
  /\ UNCHANGED <<deployed, legacy, ghosts, pc, mode, manager, readers, migration,
                 pool>>

\* The load that every save begins with fails: the default state is changed
\* and saved over all that was in the file.
SaveOverDefault(i) ==
  LET g == setup.groups[i] IN
  /\ Pooled /\ i \in running
  /\ last[g] < MaxSaves
  /\ "load" \in Faults /\ May("put")
  /\ file' = [file EXCEPT ![StateKey(g)] = 1]
  /\ last' = [last EXCEPT ![g] = @ + 1]
  /\ hurt' = hurt \cup {g}
  /\ UNCHANGED <<deployed, legacy, lost, pc, mode, manager, readers, migration,
                 pool>>

\* process_single_log_group returns, whatever its result; it passes no
\* exception on.
EndTask(i) ==
  /\ Pooled /\ i \in running
  /\ running' = running \ {i}
  /\ loaded' = [j \in DOMAIN loaded \ {i} |-> loaded[j]]
  /\ UNCHANGED <<deployed, store, pc, mode, manager, readers, migration, queued>>

\* Mutant: the error is passed on at once.
CollectTimeoutLeaves ==
  /\ pc = "collect" /\ queued \cup running # {}
  /\ pc' = "answer"
  /\ UNCHANGED <<deployed, store, mode, manager, readers, migration, pool>>

\* as_completed waits for 600 seconds.  Its TimeoutError leaves the with block
\* of the executor, which waits for every task, those not begun included.
CollectTimeout ==
  /\ pc = "collect" /\ queued \cup running # {}
  /\ pc' = "join"
  /\ UNCHANGED <<deployed, store, mode, manager, readers, migration, pool>>

\* Mutant: nothing is left to do after a timeout.
CollectedInTime ==
  /\ pc = "collect" /\ queued = {} /\ running = {}
  /\ pc' = "answer"
  /\ UNCHANGED <<deployed, store, mode, manager, readers, migration, pool>>

\* All tasks are done.
Collected ==
  /\ Pooled /\ queued = {} /\ running = {}
  /\ pc' = "answer"
  /\ UNCHANGED <<deployed, store, mode, manager, readers, migration, pool>>

\* 500 after a timeout; otherwise 200 or 400, as a log group succeeded or none.
Answer ==
  /\ pc = "answer"
  /\ End
  /\ UNCHANGED <<deployed, store, mode, manager>>

\* The function is ended from outside, by its own timeout for one.
Kill ==
  /\ pc # "idle"
  /\ End
  /\ UNCHANGED <<deployed, store, mode, manager>>

Step ==
  \/ Check \/ Get \/ EndMigration \/ MigrationFails
  \/ Access \/ AccessFails \/ Configs
  \/ \E g \in Group : Move(g) \/ MoveFails(g)
  \/ CollectTimeout \/ Collected \/ Answer
  \/ \E i \in Tasks : BeginTask(i) \/ EndTask(i)

Next ==
  \/ Deploy
  \/ \E m \in {"normal", "test"} : Start(m)
  \/ Step
  \/ \E i \in Tasks : Save(i) \/ SaveOverDefault(i)
  \/ Kill

\* Every call of S3 is answered, be it with an error, and process_single_log_-
\* group has no loop without a bound, so that a worker comes to its end.
Spec == Init /\ [][Next]_vars /\ WF_vars(Step)

-----------------------------------------------------------------------------
(* Properties. *)

\* Types of the variables.
TypeOK ==
  /\ setup \in Setups
  /\ legacy = NoFile \/ legacy \subseteq Group
  /\ file \in [Key -> Nat]
  /\ last \in [Group -> Nat]
  /\ lost \subseteq Group /\ hurt \subseteq Group
  /\ pc \in {"idle", "head", "get", "move", "access", "configs", "collect",
             "join", "answer"}
  /\ mode \in {"normal", "test"}
  /\ manager \in {"validate", "batch", "reader"}
  /\ readers \in Nat
  /\ todo \subseteq Group /\ moved \subseteq Group
  /\ queued \subseteq Tasks /\ running \subseteq Tasks
  /\ DOMAIN loaded = running

\* The migration loses nothing (README.md:361-363) but the entries that could
\* not be saved while another one could: a log group whose state was ever saved
\* has it in its own file or still in the common one, whatever the role may not
\* do, whichever other calls fail and wherever an invocation was killed.
NothingForgotten ==
  \A g \in Group \ lost : last[g] > 0 => Saves(g) > 0 \/ g \in Legacy

\* A log group goes on from the state it saved last (README.md:462, log groups
\* do not affect each other): the state a task begins with is neither an
\* older one that a repeated migration put back nor that of another group, nor
\* one that a failure of another group's calls set back.  Only its own load can
\* fail and leave it without a state.
GoesOn ==
  [][\A i \in running' \ running :
       LET g == setup.groups[i] IN
       \/ loaded'[i] = last[g]
       \/ g \in hurt
       \/ "load" \in Faults /\ loaded'[i] = 0]_vars

\* No worker is left behind: the function answers when no task is queued or
\* running any more, after the timeout of the collection too (the environment
\* of a Lambda function is frozen once it has answered).
NoWorkerLeft == ~Pooled => queued = {} /\ running = {}

\* An invocation comes to an end, with fewer workers than log groups too.
EveryInvocationEnds == pc # "idle" ~> pc = "idle"
=============================================================================
