-------------------------- MODULE MC_StateManager --------------------------
(***************************************************************************)
(* Instances of StateManager for TLC.  A worker of the stream executor     *)
(* asks for the state of its stream and updates it                         *)
(* (cloudwatch_log_reader.py:211, 302); the thread of the log group reads  *)
(* and writes the times and cleans up (batch_processor.py:105-145,         *)
(* 309-328).                                                               *)
(***************************************************************************)
EXTENDS StateManager, FiniteSets, TLC

CONSTANTS w1, w2, main, m1, st1, st2

Worker(s) == [op : {"get", "update"}, field : {s}]

Group ==
  [op : {"update"}, field : {"last_read_time", "last_run_time"}]
    \cup [op : {"cleanup"}, field : {NoField}]

\* Two workers and the thread of the log group share one manager.
TeamManagerOf == (w1 :> m1) @@ (w2 :> m1) @@ (main :> m1)
TeamCalls == (w1 :> Worker(st1)) @@ (w2 :> Worker(st2)) @@ (main :> Group)

\* The same threads, with the calls that take the lock only.
WriterCalls == [t \in Thread |-> {c \in TeamCalls[t] : c.op # "get"}]

\* One worker and the thread of the log group.
DuoManagerOf == (w1 :> m1) @@ (main :> m1)
DuoCalls == (w1 :> Worker(st1)) @@ (main :> Group)

\* Two workers alone.
PairManagerOf == (w1 :> m1) @@ (w2 :> m1)
PairCalls == (w1 :> Worker(st1)) @@ (w2 :> Worker(st2))

ObjSymmetry == Permutations(Obj)
=============================================================================
