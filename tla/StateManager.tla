---------------------------- MODULE StateManager ----------------------------
(***************************************************************************)
(* S3StateManager (src/modules/s3_state_manager.py): the document          *)
(* state.json of one log group, as the threads of an invocation read and   *)
(* write it.  The document lives in S3; a manager keeps the last document  *)
(* it saw in a cache whose entries expire, and a threading.Lock that only  *)
(* the writing methods take.                                               *)
(*                                                                         *)
(* A Python dict is an object, not a value: load_state hands out the very  *)
(* dict that is in the cache, and the writers change it in place.  So      *)
(* documents live in a heap and threads and caches hold references.        *)
(*                                                                         *)
(* A document is abstracted to the version of each of its fields.  Absent  *)
(* is a missing entry (or null), Inherited what an earlier invocation left *)
(* there, and every write of this run gets the next version of its field,  *)
(* which stands for the time stamp the code writes into it.                *)
(***************************************************************************)
EXTENDS Naturals

CONSTANTS
  Thread,        \* threads of the executors that use the state
  Manager,       \* S3StateManager instances (one per running invocation)
  ManagerOf,     \* the manager each thread was given
  Stream,        \* log streams of the log group
  OldStream,     \* those whose inherited entry is more than 24 hours old
  Obj,           \* identities of Python dicts
  Calls,         \* the method calls each thread may make
  MaxCalls,      \* bound: calls made by each thread
  StartFrom,     \* how a run may start: "absent", "cold", "warm"
  Faults,        \* what may go wrong: "expire", "get_error", "put_error"
  NoThread, NoObj, NoDoc, NoField

Field == Stream \cup {"last_read_time", "last_run_time"}

Call == [op : {"get", "update"}, field : Field]
          \cup [op : {"cleanup"}, field : {NoField}]

NoCall == [op |-> "none", field |-> NoField]

ASSUME ManagerAssumption ==
  /\ ManagerOf \in [Thread -> Manager]
  /\ OldStream \subseteq Stream
  /\ Calls \in [Thread -> SUBSET Call]
  /\ MaxCalls \in Nat
  /\ StartFrom \subseteq {"absent", "cold", "warm"}
  /\ Faults \subseteq {"expire", "get_error", "put_error"}

ASSUME NullAssumption ==
  /\ NoThread \notin Thread
  /\ NoObj \notin Obj
  /\ NoField \notin Field
  /\ NoDoc \notin [Field -> Nat]

VARIABLES
  s3,        \* the object state.json: a document, or NoDoc
  heap,      \* the dicts of the process
  cache,     \* the unexpired cache entry of each manager, or NoObj
  lock,      \* the holder of each manager's lock for the group
  pc,        \* where each thread is in its call
  call,      \* the call each thread is making
  ref,       \* the variable state / state_data of that call
  left,      \* calls each thread may still make
  issued,    \* ghost: versions of each field given out so far
  acked,     \* ghost: the last version whose update returned True
  floor      \* ghost: acked version of the field when a read began

vars == <<s3, heap, cache, lock, pc, call, ref, left, issued, acked, floor>>
ghosts == <<issued, acked, floor>>

-----------------------------------------------------------------------------
(* Documents. *)

Absent == 0
Inherited == 1

Doc == [Field -> Nat]

\* _get_default_state: no times and no streams.
DefaultState == [f \in Field |-> Absent]

\* Mutant: the age of an entry is taken from its stream, not from last_updated.
IsStreamOldByName(doc, f) == f \in OldStream /\ doc[f] # Absent

\* _is_stream_old: an entry written in this run is younger than 24 hours.
IsStreamOld(doc, f) == f \in OldStream /\ doc[f] = Inherited

\* Mutant: the old entries leave the document's schema altogether.
PurgedKeys(doc) == [f \in {g \in Field : ~IsStreamOld(doc, g)} |-> doc[f]]

\* The deletions of cleanup_old_streams.
Purged(doc) == [f \in Field |-> IF IsStreamOld(doc, f) THEN Absent ELSE doc[f]]

Fresh == {o \in Obj : /\ \A m \in Manager : cache[m] # o
                      /\ \A t \in Thread : ref[t] # o}

\* A dict nobody refers to any more is gone; its slot is reset.
Reclaim(h) ==
  [o \in Obj |-> IF \/ \E m \in Manager : cache'[m] = o
                    \/ \E t \in Thread : ref'[t] = o
                 THEN h[o] ELSE DefaultState]

-----------------------------------------------------------------------------
Idle(t) == pc[t] = "idle"
Goto(t, label) == pc' = [pc EXCEPT ![t] = label]

\* The call of t returns and t forgets its local variables.
Return(t) ==
  /\ Goto(t, "idle")
  /\ call' = [call EXCEPT ![t] = NoCall]
  /\ ref' = [ref EXCEPT ![t] = NoObj]

Release(t) == lock' = [lock EXCEPT ![ManagerOf[t]] = NoThread]

Init ==
  /\ pc = [t \in Thread |-> "idle"]
  /\ call = [t \in Thread |-> NoCall]
  /\ ref = [t \in Thread |-> NoObj]
  /\ left = [t \in Thread |-> MaxCalls]
  /\ lock = [m \in Manager |-> NoThread]
  /\ issued = [f \in Field |-> Inherited]
  /\ acked = [f \in Field |-> Absent]
  /\ floor = [t \in Thread |-> Absent]
  /\ \E start \in StartFrom :
       \/ /\ start = "absent"
          /\ s3 = NoDoc
          /\ cache = [m \in Manager |-> NoObj]
          /\ heap = [o \in Obj |-> DefaultState]
       \/ /\ start = "cold"
          /\ s3 \in [Field -> {Absent, Inherited}]
          /\ cache = [m \in Manager |-> NoObj]
          /\ heap = [o \in Obj |-> DefaultState]
       \/ /\ start = "warm"
          /\ s3 \in [Field -> {Absent, Inherited}]
          /\ cache \in [Manager -> Obj]
          /\ \A m, n \in Manager : m # n => cache[m] # cache[n]
          /\ heap = [o \in Obj |-> IF \E m \in Manager : cache[m] = o
                                   THEN s3 ELSE DefaultState]

\* A client calls a method: the writers go for the lock, the readers do not.
Begin(t) ==
  /\ Idle(t) /\ left[t] > 0
  /\ \E c \in Calls[t] :
       /\ call' = [call EXCEPT ![t] = c]
       /\ Goto(t, IF c.op = "get" THEN "load" ELSE "acquire")
       /\ floor' = [floor EXCEPT ![t] = IF c.op = "get" THEN acked[c.field]
                                                        ELSE Absent]
  /\ left' = [left EXCEPT ![t] = left[t] - 1]
  /\ UNCHANGED <<s3, heap, cache, lock, ref, issued, acked>>

\* Mutant: the writers do not wait for the lock.
AcquireAlways(t) ==
  /\ pc[t] = "acquire"
  /\ Goto(t, "load")
  /\ UNCHANGED <<s3, heap, cache, lock, call, ref, left, ghosts>>

\* "with lock:" of the writers.
Acquire(t) ==
  /\ pc[t] = "acquire"
  /\ lock[ManagerOf[t]] = NoThread
  /\ lock' = [lock EXCEPT ![ManagerOf[t]] = t]
  /\ Goto(t, "load")
  /\ UNCHANGED <<s3, heap, cache, call, ref, left, ghosts>>

\* load_state finds a valid cache entry and returns that dict itself.
LoadCached(t) ==
  /\ pc[t] = "load"
  /\ cache[ManagerOf[t]] # NoObj
  /\ ref' = [ref EXCEPT ![t] = cache[ManagerOf[t]]]
  /\ Goto(t, "loaded")
  /\ UNCHANGED <<s3, heap, cache, lock, call, left, ghosts>>

\* Mutant: a valid cache entry does not stop the load from S3.
LoadMissAlways(t) ==
  /\ pc[t] = "load"
  /\ Goto(t, "fetch")
  /\ UNCHANGED <<s3, heap, cache, lock, call, ref, left, ghosts>>

\* load_state finds none and goes to S3.
LoadMiss(t) ==
  /\ pc[t] = "load"
  /\ cache[ManagerOf[t]] = NoObj
  /\ Goto(t, "fetch")
  /\ UNCHANGED <<s3, heap, cache, lock, call, ref, left, ghosts>>

\* get_object answers: the document is parsed into a new dict.
FetchFound(t) ==
  /\ pc[t] = "fetch"
  /\ s3 # NoDoc
  /\ \E o \in Fresh : /\ heap' = [heap EXCEPT ![o] = s3]
                      /\ ref' = [ref EXCEPT ![t] = o]
  /\ Goto(t, "install")
  /\ UNCHANGED <<s3, cache, lock, call, left, ghosts>>

\* NoSuchKey, or any error: _load_from_s3 returns {} (or raises), and
\* load_state makes the default state, which is not put in the cache.
FetchDefault(t) ==
  /\ pc[t] = "fetch"
  /\ s3 = NoDoc \/ "get_error" \in Faults
  /\ \E o \in Fresh : /\ heap' = [heap EXCEPT ![o] = DefaultState]
                      /\ ref' = [ref EXCEPT ![t] = o]
  /\ Goto(t, "loaded")
  /\ UNCHANGED <<s3, cache, lock, call, left, ghosts>>

\* _load_from_s3 puts what it parsed into the cache, whatever is there now.
Install(t) ==
  /\ pc[t] = "install"
  /\ cache' = [cache EXCEPT ![ManagerOf[t]] = ref[t]]
  /\ Goto(t, "loaded")
  /\ UNCHANGED <<s3, lock, call, ref, left, ghosts>>
  /\ heap' = Reclaim(heap)

\* A reader takes its field out of the dict and returns it.
ReturnRead(t) ==
  /\ pc[t] = "loaded" /\ call[t].op = "get"
  /\ Return(t)
  /\ UNCHANGED <<s3, cache, lock, left, ghosts>>
  /\ heap' = Reclaim(heap)

\* Mutant: the "with" block ends before save_state.
MutateUnlocked(t) ==
  LET f == call[t].field IN
  /\ pc[t] = "loaded" /\ call[t].op = "update"
  /\ issued' = [issued EXCEPT ![f] = issued[f] + 1]
  /\ heap' = [heap EXCEPT ![ref[t]] = [heap[ref[t]] EXCEPT ![f] = issued[f] + 1]]
  /\ Goto(t, "put")
  /\ Release(t)
  /\ UNCHANGED <<s3, cache, call, ref, left, acked, floor>>

\* A writer changes its field of the dict, in place.
Mutate(t) ==
  LET f == call[t].field IN
  /\ pc[t] = "loaded" /\ call[t].op = "update"
  /\ issued' = [issued EXCEPT ![f] = issued[f] + 1]
  /\ heap' = [heap EXCEPT ![ref[t]] = [heap[ref[t]] EXCEPT ![f] = issued[f] + 1]]
  /\ Goto(t, "put")
  /\ UNCHANGED <<s3, cache, lock, call, ref, left, acked, floor>>

\* cleanup_old_streams deletes the old entries, and saves if there were any.
Clean(t) ==
  /\ pc[t] = "loaded" /\ call[t].op = "cleanup"
  /\ \E f \in Field : IsStreamOld(heap[ref[t]], f)
  /\ heap' = [heap EXCEPT ![ref[t]] = Purged(heap[ref[t]])]
  /\ Goto(t, "put")
  /\ UNCHANGED <<s3, cache, lock, call, ref, left, ghosts>>

CleanNothing(t) ==
  /\ pc[t] = "loaded" /\ call[t].op = "cleanup"
  /\ ~ \E f \in Field : IsStreamOld(heap[ref[t]], f)
  /\ Return(t)
  /\ Release(t)
  /\ UNCHANGED <<s3, cache, left, ghosts>>
  /\ heap' = Reclaim(heap)

\* _save_to_s3: put_object writes the dict as it is now.
PutStored(t) ==
  /\ pc[t] = "put"
  /\ s3' = heap[ref[t]]
  /\ Goto(t, "commit")
  /\ UNCHANGED <<heap, cache, lock, call, ref, left, ghosts>>

\* Mutant: update_* returns True although _save_to_s3 returned False.
PutFailedTrue(t) ==
  /\ pc[t] = "put"
  /\ "put_error" \in Faults
  /\ acked' = IF call[t].op = "update"
              THEN [acked EXCEPT ![call[t].field] = heap[ref[t]][call[t].field]]
              ELSE acked
  /\ Return(t)
  /\ Release(t)
  /\ UNCHANGED <<s3, cache, left, issued, floor>>
  /\ heap' = Reclaim(heap)

\* Mutant: a failed save leaves the method without releasing the lock.
PutFailedLocked(t) ==
  /\ pc[t] = "put"
  /\ "put_error" \in Faults
  /\ s3' \in {s3, heap[ref[t]]}
  /\ Return(t)
  /\ UNCHANGED <<cache, lock, left, ghosts>>
  /\ heap' = Reclaim(heap)

\* put_object raises: the method returns False, and the cache is not
\* refreshed.  The object may have been written all the same, when it was
\* the answer that was lost.
PutFailed(t) ==
  /\ pc[t] = "put"
  /\ "put_error" \in Faults
  /\ s3' \in {s3, heap[ref[t]]}
  /\ Return(t)
  /\ Release(t)
  /\ UNCHANGED <<cache, left, ghosts>>
  /\ heap' = Reclaim(heap)

\* After the put: the dict becomes the cache entry and the method returns
\* True, leaving the "with" block.
Commit(t) ==
  LET f == call[t].field IN
  /\ pc[t] = "commit"
  /\ cache' = [cache EXCEPT ![ManagerOf[t]] = ref[t]]
  /\ acked' = IF call[t].op = "update"
              THEN [acked EXCEPT ![f] = heap[ref[t]][f]] ELSE acked
  /\ Return(t)
  /\ Release(t)
  /\ UNCHANGED <<s3, left, issued, floor>>
  /\ heap' = Reclaim(heap)

\* A cache entry turns 60 seconds old.  It is never read again, so from here
\* on there is no entry.
Expire(m) ==
  /\ "expire" \in Faults
  /\ cache[m] # NoObj
  /\ cache' = [cache EXCEPT ![m] = NoObj]
  /\ UNCHANGED <<s3, lock, pc, call, ref, left, ghosts>>
  /\ heap' = Reclaim(heap)

Step(t) ==
  \/ Begin(t)
  \/ Acquire(t)
  \/ LoadCached(t)
  \/ LoadMiss(t)
  \/ FetchFound(t)
  \/ FetchDefault(t)
  \/ Install(t)
  \/ ReturnRead(t)
  \/ Mutate(t)
  \/ Clean(t)
  \/ CleanNothing(t)
  \/ PutStored(t)
  \/ PutFailed(t)
  \/ Commit(t)

Next ==
  \/ \E t \in Thread : Step(t)
  \/ \E m \in Manager : Expire(m)

Spec == Init /\ [][Next]_vars

\* Every thread keeps running.  A manager's lock is taken a bounded number of
\* times, so no assumption on the order in which it is granted is needed.
FairSpec == Spec /\ \A t \in Thread : WF_vars(Step(t))

-----------------------------------------------------------------------------
(* The abstract store this implements: state.json, or the default state    *)
(* while there is no such object.                                          *)
Store == INSTANCE StateStore WITH
           doc <- IF s3 = NoDoc THEN DefaultState ELSE s3,
           Field <- Field, Old <- OldStream

\* With no load outside the lock that can be stale, the manager is such a
\* store: every save moves the document forward.
ImplementsStore == Store!Spec

-----------------------------------------------------------------------------
(* Properties. *)

\* Types of the variables (one heap slot per dict, versions are naturals).
TypeOK ==
  /\ s3 \in Doc \cup {NoDoc}
  /\ heap \in [Obj -> Doc]
  /\ cache \in [Manager -> Obj \cup {NoObj}]
  /\ lock \in [Manager -> Thread \cup {NoThread}]
  /\ pc \in [Thread -> {"idle", "acquire", "load", "fetch", "install",
                        "loaded", "put", "commit"}]
  /\ call \in [Thread -> Call \cup {NoCall}]
  /\ ref \in [Thread -> Obj \cup {NoObj}]
  /\ left \in [Thread -> Nat]
  /\ issued \in [Field -> Nat]
  /\ acked \in [Field -> Nat]
  /\ floor \in [Thread -> Nat]

\* The updates that reported success: s3_state_manager.py:248, 335 and 348
\* return what _save_to_s3 returned.  None of them may vanish from state.json
\* afterwards.  This is what README.md:453 and README.md:500 promise of the
\* lock; it needs more than the lock, because a reader outside the lock can put
\* an older document into the cache the next writer starts from.
NoLostUpdate ==
  \A f \in Field : acked[f] > Absent => s3 # NoDoc /\ s3[f] >= acked[f]

\* The document a writer is about to change holds every update acknowledged
\* so far, so that saving it takes none of them back.
WritersStartFresh ==
  \A t \in Thread :
    pc[t] = "loaded" /\ call[t].op # "get" =>
      \A f \in Field : heap[ref[t]][f] >= acked[f]

\* A reader sees every update of its field that was acknowledged before it
\* asked (get_stream_state before reading a stream under a second prefix).
ReadersSeeAcked ==
  \A t \in Thread :
    pc[t] = "loaded" /\ call[t].op = "get" =>
      heap[ref[t]][call[t].field] >= floor[t]

\* When a writer returns True, what it wrote is in S3 at that moment: nobody
\* else saved another document between its put_object and its return.
AckedIsDurable ==
  [][\A f \in Field : acked'[f] # acked[f] => s3' # NoDoc /\ s3'[f] = acked'[f]]_vars

\* A dict that one writer is changing is not changed by another thread before
\* it is saved: json.dumps never sees another thread's half of an update.
WritersDoNotShare ==
  \A t, u \in Thread :
    /\ t # u
    /\ pc[t] \in {"loaded", "put", "commit"} /\ call[t].op # "get"
    /\ pc[u] \in {"loaded", "put", "commit"} /\ call[u].op # "get"
    => ref[t] # ref[u]

\* Every call returns: the lock is given back on every path, failures of S3
\* included.
EveryCallReturns == \A t \in Thread : ~Idle(t) ~> Idle(t)

=============================================================================
