------------------------ MODULE StateManager_proofs ------------------------
(***************************************************************************)
(* Proofs about StateManager, for every set of threads, streams and dicts, *)
(* every assignment of calls to threads and every number of calls.         *)
(***************************************************************************)
EXTENDS StateManager, TLAPS

-----------------------------------------------------------------------------
(* Dicts and documents. *)

\* The fields an operator of the module may be given.
LEMMA NullCalls ==
  /\ NoCall \notin Call
  /\ \A c \in Call : c.op \in {"get", "update", "cleanup"}
  /\ \A c \in Call : c.op # "cleanup" => c.field \in Field
BY DEF NoCall, Call

LEMMA DefaultIsDoc == DefaultState \in Doc
BY DEF DefaultState, Doc, Absent

LEMMA PurgedIsDoc == ASSUME NEW d \in Doc PROVE Purged(d) \in Doc
BY DEF Purged, Doc, Absent

\* Reclaim keeps the dicts in their slots, whole.
LEMMA ReclaimType ==
  ASSUME heap \in [Obj -> Doc], heap' = Reclaim(heap)
  PROVE  heap' \in [Obj -> Doc]
BY DefaultIsDoc DEF Reclaim

\* A dict that is still referred to is not reclaimed.
LEMMA ReclaimKeeps ==
  ASSUME heap' = Reclaim(heap), NEW o \in Obj,
         \/ \E m \in Manager : cache'[m] = o
         \/ \E t \in Thread : ref'[t] = o
  PROVE  heap'[o] = heap[o]
BY DEF Reclaim

-----------------------------------------------------------------------------
(* Types.  A thread that has passed its load holds a dict, and a thread    *)
(* that takes the lock or saves is a writer: both are needed for s3 to     *)
(* hold a document after put_object.                                       *)

RefOK ==
  \A t \in Thread :
    pc[t] \in {"install", "loaded", "put", "commit"} => ref[t] \in Obj

CallOK ==
  \A t \in Thread :
    /\ pc[t] # "idle" => call[t] \in Call
    /\ pc[t] \in {"acquire", "put", "commit"} => call[t].op # "get"

TypeInv == TypeOK /\ RefOK /\ CallOK

LEMMA TypeInit == Init => TypeInv
<1> SUFFICES ASSUME Init PROVE TypeInv
  OBVIOUS
<1> USE ManagerAssumption, NullAssumption, DefaultIsDoc
<1>1. \A start \in StartFrom : start \in {"absent", "cold", "warm"}
  OBVIOUS
<1>2. s3 \in Doc \cup {NoDoc}
  BY <1>1 DEF Init, Doc, Absent, Inherited
<1>3. cache \in [Manager -> Obj \cup {NoObj}]
  BY DEF Init
<1>4. heap \in [Obj -> Doc]
  BY DEF Init, Doc, Absent, Inherited
<1>5. TypeOK
  BY <1>2, <1>3, <1>4 DEF TypeOK, Init, Absent, Inherited
<1>6. RefOK /\ CallOK
  BY DEF RefOK, CallOK, Init
<1> QED
  BY <1>5, <1>6 DEF TypeInv

LEMMA TypeStep == TypeInv /\ [Next]_vars => TypeInv'
<1> SUFFICES ASSUME TypeInv, [Next]_vars PROVE TypeInv'
  OBVIOUS
<1> USE DEF TypeInv
<1> USE ManagerAssumption, NullAssumption
<1>1. ASSUME NEW t \in Thread, Begin(t) PROVE TypeInv'
  <2>1. PICK c \in Calls[t] :
          /\ call' = [call EXCEPT ![t] = c]
          /\ Goto(t, IF c.op = "get" THEN "load" ELSE "acquire")
          /\ floor' = [floor EXCEPT ![t] = IF c.op = "get" THEN acked[c.field]
                                                           ELSE Absent]
    BY <1>1 DEF Begin
  <2>2. c \in Call
    OBVIOUS
  <2>3. c.op = "get" => c.field \in Field
    BY <2>2, NullCalls
  <2>4. TypeOK'
    BY <1>1, <2>1, <2>2, <2>3 DEF Begin, TypeOK, Goto, Absent
  <2>5. RefOK' /\ CallOK'
    BY <1>1, <2>1, <2>2 DEF Begin, TypeOK, RefOK, CallOK, Goto
  <2> QED
    BY <2>4, <2>5
<1>2. ASSUME NEW t \in Thread, Acquire(t) PROVE TypeInv'
  BY <1>2 DEF Acquire, Goto, TypeOK, RefOK, CallOK, ghosts
<1>3. ASSUME NEW t \in Thread, LoadCached(t) PROVE TypeInv'
  BY <1>3 DEF LoadCached, Goto, TypeOK, RefOK, CallOK, ghosts
<1>4. ASSUME NEW t \in Thread, LoadMiss(t) PROVE TypeInv'
  BY <1>4 DEF LoadMiss, Goto, TypeOK, RefOK, CallOK, ghosts
<1>5. ASSUME NEW t \in Thread, FetchFound(t) PROVE TypeInv'
  <2>1. PICK o \in Fresh : /\ heap' = [heap EXCEPT ![o] = s3]
                           /\ ref' = [ref EXCEPT ![t] = o]
    BY <1>5 DEF FetchFound
  <2>2. o \in Obj /\ s3 \in Doc
    BY <1>5 DEF Fresh, FetchFound, TypeOK
  <2> QED
    BY <1>5, <2>1, <2>2 DEF FetchFound, Goto, TypeOK, RefOK, CallOK, ghosts
<1>6. ASSUME NEW t \in Thread, FetchDefault(t) PROVE TypeInv'
  <2>1. PICK o \in Fresh : /\ heap' = [heap EXCEPT ![o] = DefaultState]
                           /\ ref' = [ref EXCEPT ![t] = o]
    BY <1>6 DEF FetchDefault
  <2>2. o \in Obj
    BY DEF Fresh
  <2> QED
    BY <1>6, <2>1, <2>2, DefaultIsDoc
    DEF FetchDefault, Goto, TypeOK, RefOK, CallOK, ghosts
<1>7. ASSUME NEW t \in Thread, Install(t) PROVE TypeInv'
  <2>1. heap' \in [Obj -> Doc]
    BY <1>7, ReclaimType DEF Install, TypeOK
  <2> QED
    BY <1>7, <2>1 DEF Install, Goto, TypeOK, RefOK, CallOK, ghosts
<1>8. ASSUME NEW t \in Thread, ReturnRead(t) PROVE TypeInv'
  <2>1. heap' \in [Obj -> Doc]
    BY <1>8, ReclaimType DEF ReturnRead, TypeOK
  <2> QED
    BY <1>8, <2>1 DEF ReturnRead, Return, Goto, TypeOK, RefOK, CallOK, ghosts
<1>9. ASSUME NEW t \in Thread, Mutate(t) PROVE TypeInv'
  <2>1. ref[t] \in Obj /\ call[t] \in Call /\ call[t].field \in Field
    BY <1>9, NullCalls DEF Mutate, RefOK, CallOK
  <2>2. heap[ref[t]] \in Doc /\ issued[call[t].field] \in Nat
    BY <2>1 DEF TypeOK
  <2>3. [heap[ref[t]] EXCEPT ![call[t].field] = issued[call[t].field] + 1] \in Doc
    BY <2>1, <2>2 DEF Doc
  <2>4. heap' \in [Obj -> Doc] /\ issued' \in [Field -> Nat]
    BY <1>9, <2>1, <2>2, <2>3 DEF Mutate, TypeOK
  <2> QED
    BY <1>9, <2>4 DEF Mutate, Goto, TypeOK, RefOK, CallOK
<1>10. ASSUME NEW t \in Thread, Clean(t) PROVE TypeInv'
  <2>1. ref[t] \in Obj /\ call[t] \in Call
    BY <1>10 DEF Clean, RefOK, CallOK
  <2>2. heap' \in [Obj -> Doc]
    BY <1>10, <2>1, PurgedIsDoc DEF Clean, TypeOK
  <2> QED
    BY <1>10, <2>2 DEF Clean, Goto, TypeOK, RefOK, CallOK, ghosts
<1>11. ASSUME NEW t \in Thread, CleanNothing(t) PROVE TypeInv'
  <2>1. heap' \in [Obj -> Doc]
    BY <1>11, ReclaimType DEF CleanNothing, TypeOK
  <2> QED
    BY <1>11, <2>1
    DEF CleanNothing, Return, Release, Goto, TypeOK, RefOK, CallOK, ghosts
<1>12. ASSUME NEW t \in Thread, PutStored(t) PROVE TypeInv'
  <2>1. s3' \in Doc
    BY <1>12 DEF PutStored, RefOK, TypeOK
  <2> QED
    BY <1>12, <2>1 DEF PutStored, Goto, TypeOK, RefOK, CallOK, ghosts
<1>13. ASSUME NEW t \in Thread, PutFailed(t) PROVE TypeInv'
  <2>1. s3' \in Doc \cup {NoDoc}
    BY <1>13 DEF PutFailed, RefOK, TypeOK
  <2>2. heap' \in [Obj -> Doc]
    BY <1>13, ReclaimType DEF PutFailed, TypeOK
  <2> QED
    BY <1>13, <2>1, <2>2
    DEF PutFailed, Return, Release, Goto, TypeOK, RefOK, CallOK, ghosts
<1>14. ASSUME NEW t \in Thread, Commit(t) PROVE TypeInv'
  <2>1. ref[t] \in Obj
    BY <1>14 DEF Commit, RefOK
  <2>2. heap' \in [Obj -> Doc]
    BY <1>14, ReclaimType DEF Commit, TypeOK
  <2>3. call[t].op = "update" => heap[ref[t]][call[t].field] \in Nat
    BY <1>14, <2>1, NullCalls DEF Commit, CallOK, TypeOK, Doc
  <2>4. acked' \in [Field -> Nat]
    BY <1>14, <2>3 DEF Commit, TypeOK
  <2> QED
    BY <1>14, <2>1, <2>2, <2>4
    DEF Commit, Return, Release, Goto, TypeOK, RefOK, CallOK
<1>15. ASSUME NEW m \in Manager, Expire(m) PROVE TypeInv'
  <2>1. heap' \in [Obj -> Doc]
    BY <1>15, ReclaimType DEF Expire, TypeOK
  <2> QED
    BY <1>15, <2>1 DEF Expire, TypeOK, RefOK, CallOK, ghosts
<1>16. CASE UNCHANGED vars
  BY <1>16 DEF vars, TypeOK, RefOK, CallOK
<1> QED
  BY <1>1, <1>2, <1>3, <1>4, <1>5, <1>6, <1>7, <1>8, <1>9, <1>10, <1>11,
     <1>12, <1>13, <1>14, <1>15, <1>16 DEF Next, Step

\* The variables keep their types: in particular state.json holds a document
\* or nothing, whatever fails and whoever saves.
THEOREM TypeCorrect == Spec => []TypeOK
<1>1. Spec => []TypeInv
  BY TypeInit, TypeStep, PTL DEF Spec
<1>2. TypeInv => TypeOK
  BY DEF TypeInv
<1> QED
  BY <1>1, <1>2, PTL

-----------------------------------------------------------------------------
(* The lock.  From the moment a writer enters load_state to the moment it  *)
(* leaves the "with" block it holds the lock of its manager.               *)

Locked(t) ==
  \/ pc[t] \in {"put", "commit"}
  \/ pc[t] \in {"load", "fetch", "install", "loaded"} /\ call[t].op # "get"

LockInv == \A t \in Thread : Locked(t) => lock[ManagerOf[t]] = t

LEMMA LockInit == Init => LockInv
BY DEF Init, LockInv, Locked

LEMMA LockStep == TypeInv /\ LockInv /\ [Next]_vars => LockInv'
<1> SUFFICES ASSUME TypeInv, LockInv, [Next]_vars PROVE LockInv'
  OBVIOUS
<1> USE ManagerAssumption, NullAssumption DEF TypeInv, TypeOK, LockInv, Locked
<1>1. ASSUME NEW t \in Thread, Begin(t) PROVE LockInv'
  BY <1>1 DEF Begin, Idle, Goto
<1>2. ASSUME NEW t \in Thread, Acquire(t) PROVE LockInv'
  <2>1. \A u \in Thread : ManagerOf[u] = ManagerOf[t] => ~Locked(u)
    BY <1>2 DEF Acquire
  <2> QED
    BY <1>2, <2>1 DEF Acquire, Goto, ghosts
<1>3. ASSUME NEW t \in Thread, LoadCached(t) PROVE LockInv'
  BY <1>3 DEF LoadCached, Goto, ghosts
<1>4. ASSUME NEW t \in Thread, LoadMiss(t) PROVE LockInv'
  BY <1>4 DEF LoadMiss, Goto, ghosts
<1>5. ASSUME NEW t \in Thread, FetchFound(t) PROVE LockInv'
  BY <1>5 DEF FetchFound, Goto, ghosts
<1>6. ASSUME NEW t \in Thread, FetchDefault(t) PROVE LockInv'
  BY <1>6 DEF FetchDefault, Goto, ghosts
<1>7. ASSUME NEW t \in Thread, Install(t) PROVE LockInv'
  BY <1>7 DEF Install, Goto, ghosts
<1>8. ASSUME NEW t \in Thread, ReturnRead(t) PROVE LockInv'
  BY <1>8 DEF ReturnRead, Return, Goto, ghosts
<1>9. ASSUME NEW t \in Thread, Mutate(t) PROVE LockInv'
  BY <1>9 DEF Mutate, Goto
<1>10. ASSUME NEW t \in Thread, Clean(t) PROVE LockInv'
  BY <1>10 DEF Clean, Goto, ghosts
<1>11. ASSUME NEW t \in Thread, PutStored(t) PROVE LockInv'
  BY <1>11 DEF PutStored, Goto, ghosts
\* A thread that leaves the "with" block is the holder, so no other thread
\* of its manager relies on the lock it gives back.
<1>12. ASSUME NEW t \in Thread, Return(t), Release(t), Locked(t)
       PROVE  LockInv'
  BY <1>12 DEF Return, Release, Goto
<1>13. ASSUME NEW t \in Thread,
              CleanNothing(t) \/ PutFailed(t) \/ Commit(t)
       PROVE  LockInv'
  BY <1>12, <1>13 DEF CleanNothing, PutFailed, Commit
<1>14. ASSUME NEW m \in Manager, Expire(m) PROVE LockInv'
  BY <1>14 DEF Expire, ghosts
<1>15. CASE UNCHANGED vars
  BY <1>15 DEF vars
<1> QED
  BY <1>1, <1>2, <1>3, <1>4, <1>5, <1>6, <1>7, <1>8, <1>9, <1>10, <1>11,
     <1>13, <1>14, <1>15 DEF Next, Step

LEMMA LockAlways == Spec => [](TypeInv /\ LockInv)
<1>1. Init => TypeInv /\ LockInv
  BY TypeInit, LockInit
<1>2. (TypeInv /\ LockInv) /\ [Next]_vars => (TypeInv /\ LockInv)'
  BY TypeStep, LockStep
<1> QED
  BY <1>1, <1>2, PTL DEF Spec

\* One invocation: all its threads share the manager of its BatchProcessor.
OneManager == \A m, n \in Manager : m = n

\* Within one invocation no two writers work on the same dict, under every
\* fault and whatever the readers do.
THEOREM WritersApart == OneManager => (Spec => []WritersDoNotShare)
<1> SUFFICES ASSUME OneManager PROVE Spec => []WritersDoNotShare
  OBVIOUS
<1>1. LockInv => WritersDoNotShare
  <2> SUFFICES ASSUME LockInv,
                      NEW t \in Thread, NEW u \in Thread, t # u,
                      Locked(t), Locked(u)
               PROVE  FALSE
    BY DEF WritersDoNotShare, Locked
  <2>1. ManagerOf[t] = ManagerOf[u]
    BY ManagerAssumption DEF OneManager
  <2> QED
    BY <2>1 DEF LockInv
<1> QED
  BY <1>1, LockAlways, PTL

-----------------------------------------------------------------------------
(* Versions.  No document holds a version that was not issued, and what a  *)
(* writer is about to acknowledge was written in this run, so that no      *)
(* purge of an old entry can take it back.                                 *)

Issued == \A f \in Field : issued[f] >= Inherited

HeapBound == \A o \in Obj : \A f \in Field : heap[o][f] <= issued[f]

AckedBound ==
  \A f \in Field : acked[f] <= issued[f] /\ acked[f] # Inherited

WroteNew ==
  \A t \in Thread :
    pc[t] \in {"put", "commit"} /\ call[t].op = "update" =>
      heap[ref[t]][call[t].field] > Inherited

S3Bound == s3 # NoDoc => \A f \in Field : s3[f] <= issued[f]

VersionInv == Issued /\ HeapBound /\ AckedBound /\ WroteNew /\ S3Bound

\* What the actions have in common: dicts are only taken away.
LEMMA ReclaimBound ==
  ASSUME TypeInv, HeapBound, heap' = Reclaim(heap), issued' = issued
  PROVE  HeapBound'
BY DEF TypeInv, TypeOK, HeapBound, Reclaim, DefaultState, Absent, Doc

LEMMA VersionInit == Init => VersionInv
<1> SUFFICES ASSUME Init PROVE VersionInv
  OBVIOUS
<1> USE DEF Init, Absent, Inherited
<1>1. \A start \in StartFrom : start \in {"absent", "cold", "warm"}
  BY ManagerAssumption
<1>2. S3Bound
  BY <1>1 DEF S3Bound
<1>3. heap \in [Obj -> [Field -> {0, 1}]]
  BY <1>1 DEF DefaultState
<1> QED
  BY <1>2, <1>3 DEF VersionInv, Issued, HeapBound, AckedBound, WroteNew

LEMMA VersionStep == TypeInv /\ VersionInv /\ [Next]_vars => VersionInv'
<1> SUFFICES ASSUME TypeInv, VersionInv, [Next]_vars PROVE VersionInv'
  OBVIOUS
<1> USE ManagerAssumption, NullAssumption
<1> USE DEF TypeInv, TypeOK, VersionInv, Inherited
\* A call in progress keeps its dict, so what it wrote stays there.
<1>0. ASSUME NEW t \in Thread, Return(t), heap' = Reclaim(heap),
             issued' = issued
      PROVE  WroteNew' /\ HeapBound' /\ Issued'
  <2>1. HeapBound' /\ Issued'
    BY <1>0, ReclaimBound DEF Issued
  <2>2. ASSUME NEW u \in Thread, pc'[u] \in {"put", "commit"},
               call'[u].op = "update"
        PROVE  heap'[ref'[u]][call'[u].field] > 1
    <3>1. u # t /\ pc'[u] = pc[u] /\ call'[u] = call[u] /\ ref'[u] = ref[u]
      BY <1>0, <2>2 DEF Return, Goto
    <3>2. ref[u] \in Obj
      BY <2>2, <3>1 DEF RefOK
    <3>3. heap'[ref[u]] = heap[ref[u]]
      BY <1>0, <3>1, <3>2, ReclaimKeeps
    <3> QED
      BY <2>2, <3>1, <3>3 DEF WroteNew
  <2> QED
    BY <2>1, <2>2 DEF WroteNew
<1>1. ASSUME NEW t \in Thread, Begin(t) PROVE VersionInv'
  BY <1>1 DEF Begin, Idle, Goto, Issued, HeapBound, AckedBound, WroteNew,
              S3Bound
<1>2. ASSUME NEW t \in Thread,
             Acquire(t) \/ LoadCached(t) \/ LoadMiss(t)
      PROVE  VersionInv'
  BY <1>2 DEF Acquire, LoadCached, LoadMiss, Goto, ghosts, Issued, HeapBound,
              AckedBound, WroteNew, S3Bound
<1>3. ASSUME NEW t \in Thread, FetchFound(t) \/ FetchDefault(t)
      PROVE  VersionInv'
  <2>1. PICK o \in Fresh, d \in Doc :
          /\ heap' = [heap EXCEPT ![o] = d]
          /\ ref' = [ref EXCEPT ![t] = o]
          /\ d = DefaultState \/ (s3 # NoDoc /\ d = s3)
    <3>1. CASE FetchFound(t)
      <4>1. s3 \in Doc /\ s3 # NoDoc
        BY <3>1 DEF FetchFound
      <4>2. PICK o \in Fresh : /\ heap' = [heap EXCEPT ![o] = s3]
                               /\ ref' = [ref EXCEPT ![t] = o]
        BY <3>1 DEF FetchFound
      <4> QED
        BY <4>1, <4>2
    <3>2. CASE FetchDefault(t)
      <4>1. PICK o \in Fresh : /\ heap' = [heap EXCEPT ![o] = DefaultState]
                               /\ ref' = [ref EXCEPT ![t] = o]
        BY <3>2 DEF FetchDefault
      <4> QED
        BY <4>1, DefaultIsDoc
    <3> QED
      BY <1>3, <3>1, <3>2
  <2>2. \A f \in Field : d[f] <= issued[f]
    BY <2>1 DEF S3Bound, DefaultState, Absent
  <2>3. \A u \in Thread : ref[u] # o
    BY DEF Fresh
  <2>4. HeapBound'
    BY <1>3, <2>1, <2>2 DEF HeapBound, FetchFound, FetchDefault, ghosts
  <2>5. WroteNew'
    BY <1>3, <2>1, <2>3
    DEF WroteNew, RefOK, FetchFound, FetchDefault, Goto, ghosts
  <2> QED
    BY <1>3, <2>4, <2>5
    DEF FetchFound, FetchDefault, ghosts, Issued, AckedBound, S3Bound
<1>4. ASSUME NEW t \in Thread, Install(t) PROVE VersionInv'
  <2>1. HeapBound'
    BY <1>4, ReclaimBound DEF Install, ghosts
  <2>2. \A u \in Thread : ref[u] \in Obj => heap'[ref[u]] = heap[ref[u]]
    BY <1>4, ReclaimKeeps DEF Install
  <2>3. WroteNew'
    BY <1>4, <2>2 DEF WroteNew, RefOK, Install, Goto, ghosts
  <2> QED
    BY <1>4, <2>1, <2>3 DEF Install, ghosts, Issued, AckedBound, S3Bound
<1>5. ASSUME NEW t \in Thread, ReturnRead(t) \/ CleanNothing(t)
      PROVE  VersionInv'
  BY <1>0, <1>5 DEF ReturnRead, CleanNothing, ghosts, AckedBound, S3Bound
<1>6. ASSUME NEW t \in Thread, Mutate(t) PROVE VersionInv'
  <2> DEFINE f == call[t].field
  <2>1. ref[t] \in Obj /\ f \in Field
    BY <1>6, NullCalls DEF Mutate, RefOK, CallOK
  <2>2. issued[f] \in Nat /\ issued[f] >= 1
    BY <2>1 DEF Issued
  <2>3. heap' = [heap EXCEPT ![ref[t]] = [heap[ref[t]] EXCEPT ![f] = issued[f] + 1]]
    BY <1>6 DEF Mutate
  <2>4. issued' = [issued EXCEPT ![f] = issued[f] + 1]
    BY <1>6 DEF Mutate
  <2>5. \A o \in Obj, g \in Field :
          heap'[o][g] = IF o = ref[t] /\ g = f THEN issued[f] + 1 ELSE heap[o][g]
    BY <2>1, <2>3 DEF Doc
  <2>6. \A g \in Field : issued'[g] = IF g = f THEN issued[f] + 1 ELSE issued[g]
    BY <2>1, <2>4
  <2>7. \A o \in Obj, g \in Field : heap[o][g] \in Nat /\ issued[g] \in Nat
    BY DEF Doc
  <2>8. HeapBound' /\ Issued'
    BY <2>2, <2>5, <2>6, <2>7 DEF HeapBound, Issued
  <2>9. WroteNew'
    <3> SUFFICES ASSUME NEW u \in Thread, pc'[u] \in {"put", "commit"},
                        call'[u].op = "update"
                 PROVE  heap'[ref'[u]][call'[u].field] > 1
      BY DEF WroteNew
    <3>1. call' = call /\ ref' = ref
      BY <1>6 DEF Mutate
    <3>2. u = t \/ pc[u] \in {"put", "commit"}
      BY <1>6 DEF Mutate, Goto
    <3>3. ref[u] \in Obj /\ call[u].field \in Field
      BY <2>1, <3>1, <3>2, NullCalls DEF RefOK, CallOK
    <3> QED
      BY <2>2, <2>5, <3>1, <3>2, <3>3 DEF WroteNew
  <2>10. AckedBound' /\ S3Bound'
    <3>1. s3' = s3 /\ acked' = acked
      BY <1>6 DEF Mutate
    <3>2. s3 # NoDoc => \A g \in Field : s3[g] \in Nat
      BY DEF Doc
    <3> QED
      BY <2>2, <2>6, <2>7, <3>1, <3>2 DEF AckedBound, S3Bound
  <2> QED
    BY <2>8, <2>9, <2>10
<1>7. ASSUME NEW t \in Thread, Clean(t) PROVE VersionInv'
  <2>1. ref[t] \in Obj
    BY <1>7 DEF Clean, RefOK
  <2>2. heap' = [heap EXCEPT ![ref[t]] = Purged(heap[ref[t]])]
    BY <1>7 DEF Clean
  <2>3. \A o \in Obj, g \in Field :
          \/ heap'[o][g] = heap[o][g]
          \/ heap[o][g] = 1 /\ heap'[o][g] = 0
    BY <2>1, <2>2 DEF Purged, IsStreamOld, Absent
  <2>4. \A o \in Obj, g \in Field : heap[o][g] \in Nat /\ issued[g] \in Nat
    BY DEF Doc
  <2>5. HeapBound'
    BY <1>7, <2>3, <2>4 DEF HeapBound, Clean, ghosts
  <2>6. WroteNew'
    <3> SUFFICES ASSUME NEW u \in Thread, pc'[u] \in {"put", "commit"},
                        call'[u].op = "update"
                 PROVE  heap'[ref'[u]][call'[u].field] > 1
      BY DEF WroteNew
    <3>1. call' = call /\ ref' = ref /\ u # t /\ pc'[u] = pc[u]
      BY <1>7 DEF Clean, Goto
    <3>2. ref[u] \in Obj /\ call[u].field \in Field
      BY <3>1, NullCalls DEF RefOK, CallOK
    <3> QED
      BY <2>3, <2>4, <3>1, <3>2 DEF WroteNew
  <2> QED
    BY <1>7, <2>5, <2>6 DEF Clean, ghosts, Issued, AckedBound, S3Bound
<1>8. ASSUME NEW t \in Thread, PutStored(t) PROVE VersionInv'
  BY <1>8 DEF PutStored, RefOK, Goto, ghosts, Issued, HeapBound, AckedBound,
              WroteNew, S3Bound
<1>9. ASSUME NEW t \in Thread, PutFailed(t) PROVE VersionInv'
  <2>1. S3Bound'
    BY <1>9 DEF PutFailed, RefOK, HeapBound, S3Bound, ghosts
  <2> QED
    BY <1>0, <1>9, <2>1 DEF PutFailed, ghosts, AckedBound
<1>10. ASSUME NEW t \in Thread, Commit(t) PROVE VersionInv'
  <2>1. ASSUME call[t].op = "update" PROVE AckedBound'
    <3>1. ref[t] \in Obj /\ call[t].field \in Field
      BY <1>10, <2>1, NullCalls DEF Commit, RefOK, CallOK
    <3>2. acked' = [acked EXCEPT ![call[t].field] = heap[ref[t]][call[t].field]]
      BY <1>10, <2>1 DEF Commit
    <3>3. heap[ref[t]][call[t].field] > 1
      BY <1>10, <2>1 DEF Commit, WroteNew
    <3>4. heap[ref[t]][call[t].field] <= issued[call[t].field]
      BY <3>1 DEF HeapBound
    <3>5. issued' = issued
      BY <1>10 DEF Commit
    <3>6. heap[ref[t]][call[t].field] \in Nat
      BY <3>1 DEF Doc
    <3> QED
      BY <3>1, <3>2, <3>3, <3>4, <3>5, <3>6 DEF AckedBound
  <2>2. ASSUME call[t].op # "update" PROVE AckedBound'
    BY <1>10, <2>2 DEF Commit, AckedBound
  <2> QED
    BY <1>0, <1>10, <2>1, <2>2 DEF Commit, S3Bound
<1>11. ASSUME NEW m \in Manager, Expire(m) PROVE VersionInv'
  <2>1. HeapBound'
    BY <1>11, ReclaimBound DEF Expire, ghosts
  <2>2. \A u \in Thread : ref[u] \in Obj => heap'[ref[u]] = heap[ref[u]]
    BY <1>11, ReclaimKeeps DEF Expire
  <2>3. WroteNew'
    BY <1>11, <2>2 DEF WroteNew, RefOK, Expire, ghosts
  <2> QED
    BY <1>11, <2>1, <2>3 DEF Expire, ghosts, Issued, AckedBound, S3Bound
<1>12. CASE UNCHANGED vars
  BY <1>12 DEF vars, Issued, HeapBound, AckedBound, WroteNew, S3Bound
<1> QED
  BY <1>1, <1>2, <1>3, <1>4, <1>5, <1>6, <1>7, <1>8, <1>9, <1>10, <1>11,
     <1>12 DEF Next, Step

-----------------------------------------------------------------------------
(* Acknowledged updates.  The lock alone does not keep them (the run       *)
(* StateManager_stale_load loses one); it does when no load outside the    *)
(* lock can put an old document into the cache: either only the methods    *)
(* that take the lock are called and S3 gives a document or says that      *)
(* there is none, or the document is in the cache and does not expire.     *)

OnlyWriters ==
  /\ "get_error" \notin Faults
  /\ \A t \in Thread : \A c \in Calls[t] : c.op # "get"

StaysCached == StartFrom = {"warm"} /\ "expire" \notin Faults

NoStaleLoad == OnlyWriters \/ StaysCached

LoadInv ==
  \/ /\ OnlyWriters
     /\ \A t \in Thread : call[t].op # "get"
  \/ /\ StaysCached
     /\ \A m \in Manager : cache[m] # NoObj
     /\ \A t \in Thread : pc[t] \notin {"fetch", "install"}

\* Between put_object and the return, S3 holds the document just saved.
CommitInv == \A t \in Thread : pc[t] = "commit" => s3 = heap[ref[t]]

CacheCovers ==
  \A m \in Manager : cache[m] # NoObj =>
    \A f \in Field : heap[cache[m]][f] >= acked[f]

RefCovers ==
  \A t \in Thread :
    Locked(t) /\ pc[t] \in {"install", "loaded", "put", "commit"} =>
      \A f \in Field : heap[ref[t]][f] >= acked[f]

AckInv == CommitInv /\ NoLostUpdate /\ CacheCovers /\ RefCovers

LEMMA OnlyHolder ==
  ASSUME OneManager, LockInv,
         NEW t \in Thread, Locked(t), NEW u \in Thread, Locked(u)
  PROVE  t = u
<1>1. ManagerOf[t] = ManagerOf[u]
  BY ManagerAssumption DEF OneManager
<1> QED
  BY <1>1 DEF LockInv

LEMMA LoadInit == NoStaleLoad /\ Init => LoadInv
<1> SUFFICES ASSUME NoStaleLoad, Init PROVE LoadInv
  OBVIOUS
<1>1. \A t \in Thread : call[t].op # "get" /\ pc[t] = "idle"
  BY DEF Init, NoCall
<1>2. StaysCached => \A m \in Manager : cache[m] # NoObj
  BY NullAssumption DEF Init, StaysCached
<1> QED
  BY <1>1, <1>2 DEF NoStaleLoad, LoadInv

LEMMA LoadStep == TypeInv /\ LoadInv /\ [Next]_vars => LoadInv'
<1> SUFFICES ASSUME TypeInv, LoadInv, [Next]_vars PROVE LoadInv'
  OBVIOUS
<1> USE ManagerAssumption, NullAssumption DEF TypeInv, TypeOK
<1>1. CASE /\ OnlyWriters
           /\ \A t \in Thread : call[t].op # "get"
  <2>1. \A t \in Thread : call'[t] \in Calls[t] \cup {NoCall, call[t]}
    BY DEF Next, Step, Begin, Acquire, LoadCached, LoadMiss, FetchFound,
           FetchDefault, Install, ReturnRead, Mutate, Clean, CleanNothing,
           PutStored, PutFailed, Commit, Expire, Return, vars
  <2> QED
    BY <1>1, <2>1 DEF LoadInv, NoCall, OnlyWriters
<1>2. CASE /\ StaysCached
           /\ \A m \in Manager : cache[m] # NoObj
           /\ \A t \in Thread : pc[t] \notin {"fetch", "install"}
  <2>1. \A m \in Manager : cache'[m] # NoObj
    <3>1. ASSUME NEW t \in Thread, Commit(t)
          PROVE  \A m \in Manager : cache'[m] # NoObj
      <4>1. ref[t] \in Obj /\ cache' = [cache EXCEPT ![ManagerOf[t]] = ref[t]]
        BY <3>1 DEF Commit, RefOK
      <4> QED
        BY <1>2, <4>1
    <3>2. (\E t \in Thread : Commit(t)) \/ cache' = cache
      BY <1>2 DEF Next, Step, Begin, Acquire, LoadCached, LoadMiss,
             FetchFound, FetchDefault, Install, ReturnRead, Mutate, Clean,
             CleanNothing, PutStored, PutFailed, Expire, vars, StaysCached
    <3> QED
      BY <1>2, <3>1, <3>2
  <2>2. \A t \in Thread : pc'[t] \notin {"fetch", "install"}
    BY <1>2 DEF Next, Step, Begin, Acquire, LoadCached, LoadMiss, FetchFound,
           FetchDefault, Install, ReturnRead, Mutate, Clean, CleanNothing,
           PutStored, PutFailed, Commit, Expire, Return, Goto, vars
  <2> QED
    BY <1>2, <2>1, <2>2 DEF LoadInv
<1> QED
  BY <1>1, <1>2 DEF LoadInv

LEMMA AckInit == Init => AckInv
<1> SUFFICES ASSUME Init PROVE AckInv
  OBVIOUS
<1>1. s3 = NoDoc \/ s3 \in Doc
  BY TypeInit DEF TypeInv, TypeOK
<1>2. heap \in [Obj -> Doc] /\ cache \in [Manager -> Obj \cup {NoObj}]
  BY TypeInit DEF TypeInv, TypeOK
<1>3. \A f \in Field : acked[f] = 0
  BY DEF Init, Absent
<1>4. CommitInv /\ RefCovers
  BY DEF Init, CommitInv, RefCovers
<1>5. NoLostUpdate
  BY <1>1, <1>3 DEF NoLostUpdate, Absent
<1>6. CacheCovers
  BY <1>2, <1>3 DEF CacheCovers, Doc
<1> QED
  BY <1>4, <1>5, <1>6 DEF AckInv

LEMMA AckStep ==
  ASSUME OneManager, TypeInv, LockInv, VersionInv, LoadInv, AckInv, [Next]_vars
  PROVE  AckInv'
<1> USE ManagerAssumption, NullAssumption
<1> USE DEF TypeInv, TypeOK, AckInv
<1>a. \A f \in Field : acked[f] \in Nat /\ issued[f] \in Nat
  OBVIOUS
<1>b. \A o \in Obj, f \in Field : heap[o][f] \in Nat
  BY DEF Doc
\* A step that leaves S3, the acknowledgements and the dicts in use alone,
\* takes the cache entries from the dicts of those who hold the lock, and
\* brings no thread to "commit".
<1>0. ASSUME s3' = s3, acked' = acked,
             \A o \in Obj :
               (\/ \E m \in Manager : cache'[m] = o
                \/ \E u \in Thread : ref'[u] = o)
               => heap'[o] = heap[o],
             \A m \in Manager :
               \/ cache'[m] \in {cache[m], NoObj}
               \/ \E u \in Thread :
                    /\ cache'[m] = ref[u] /\ ref[u] \in Obj
                    /\ \A f \in Field : heap[ref[u]][f] >= acked[f],
             \A u \in Thread :
               Locked(u)' /\ pc'[u] \in {"install", "loaded", "put", "commit"} =>
                 /\ ref'[u] \in Obj
                 /\ \A f \in Field : heap[ref'[u]][f] >= acked[f],
             \A u \in Thread : pc'[u] = "commit" =>
               pc[u] = "commit" /\ ref'[u] = ref[u]
      PROVE  AckInv'
  <2>1. CommitInv'
    BY <1>0 DEF CommitInv, RefOK
  <2>2. NoLostUpdate'
    BY <1>0 DEF NoLostUpdate
  <2>3. CacheCovers'
    BY <1>0 DEF CacheCovers
  <2>4. RefCovers'
    BY <1>0 DEF RefCovers
  <2> QED
    BY <2>1, <2>2, <2>3, <2>4
<1>1. ASSUME NEW t \in Thread, Begin(t) PROVE AckInv'
  BY <1>1 DEF Begin, Idle, Goto, CommitInv, NoLostUpdate, CacheCovers,
              RefCovers, Locked
<1>2. ASSUME NEW t \in Thread, Acquire(t) \/ LoadMiss(t) PROVE AckInv'
  BY <1>2 DEF Acquire, LoadMiss, Goto, ghosts, CommitInv, NoLostUpdate,
              CacheCovers, RefCovers, Locked
<1>3. ASSUME NEW t \in Thread, LoadCached(t) PROVE AckInv'
  <2>1. cache[ManagerOf[t]] \in Obj /\ cache[ManagerOf[t]] # NoObj
    BY <1>3 DEF LoadCached
  <2>2. \A f \in Field : heap[cache[ManagerOf[t]]][f] >= acked[f]
    BY <2>1 DEF CacheCovers
  <2> QED
    BY <1>3, <2>1, <2>2 DEF LoadCached, Goto, ghosts, CommitInv, NoLostUpdate,
                            CacheCovers, RefCovers, Locked
<1>4. ASSUME NEW t \in Thread, FetchFound(t) PROVE AckInv'
  <2>1. PICK o \in Fresh : /\ heap' = [heap EXCEPT ![o] = s3]
                           /\ ref' = [ref EXCEPT ![t] = o]
    BY <1>4 DEF FetchFound
  <2>2. /\ o \in Obj
        /\ \A m \in Manager : cache[m] # o
        /\ \A u \in Thread : ref[u] # o
    BY DEF Fresh
  <2>3. s3 \in Doc /\ \A f \in Field : s3[f] >= acked[f]
    BY <1>4 DEF FetchFound, NoLostUpdate, Absent, Doc
  <2>4. RefCovers'
    BY <1>4, <2>1, <2>2, <2>3
    DEF FetchFound, Goto, ghosts, RefCovers, RefOK, Locked
  <2>5. CommitInv' /\ CacheCovers'
    BY <1>4, <2>1, <2>2
    DEF FetchFound, Goto, ghosts, CommitInv, CacheCovers, RefOK
  <2> QED
    BY <1>4, <2>4, <2>5 DEF FetchFound, ghosts, NoLostUpdate
<1>5. ASSUME NEW t \in Thread, FetchDefault(t) PROVE AckInv'
  <2>1. PICK o \in Fresh : /\ heap' = [heap EXCEPT ![o] = DefaultState]
                           /\ ref' = [ref EXCEPT ![t] = o]
    BY <1>5 DEF FetchDefault
  <2>2. /\ o \in Obj
        /\ \A m \in Manager : cache[m] # o
        /\ \A u \in Thread : ref[u] # o
    BY DEF Fresh
  \* The thread fetches, so no document stays cached and S3 did not fail:
  \* there is no document, hence nothing was acknowledged.
  <2>3. s3 = NoDoc
    BY <1>5 DEF FetchDefault, LoadInv, OnlyWriters
  <2>4. \A f \in Field : acked[f] = 0
    BY <2>3 DEF NoLostUpdate, Absent
  <2>5. DefaultState \in Doc /\ \A f \in Field : DefaultState[f] >= acked[f]
    BY <2>4, DefaultIsDoc DEF DefaultState, Absent
  <2>6. RefCovers'
    BY <1>5, <2>1, <2>2, <2>5
    DEF FetchDefault, Goto, ghosts, RefCovers, RefOK, Locked
  <2>7. CommitInv' /\ CacheCovers'
    BY <1>5, <2>1, <2>2
    DEF FetchDefault, Goto, ghosts, CommitInv, CacheCovers, RefOK
  <2> QED
    BY <1>5, <2>6, <2>7 DEF FetchDefault, ghosts, NoLostUpdate
<1>6. ASSUME NEW t \in Thread, Install(t) PROVE AckInv'
  <2>1. Locked(t)
    BY <1>6 DEF Install, Locked, LoadInv
  <2>2. ref[t] \in Obj /\ \A f \in Field : heap[ref[t]][f] >= acked[f]
    BY <1>6, <2>1 DEF Install, RefOK, RefCovers
  <2>3. cache' = [cache EXCEPT ![ManagerOf[t]] = ref[t]]
    BY <1>6 DEF Install
  <2>4. \A m \in Manager : cache'[m] \in {cache[m], ref[t]}
    BY <2>3
  <2>5. \A u \in Thread : Locked(u)' => Locked(u)
    BY <1>6, <2>1 DEF Install, Goto, Locked
  <2>6. \A u \in Thread : pc'[u] # pc[u] => u = t /\ pc'[u] = "loaded"
    BY <1>6 DEF Install, Goto
  <2>7. \A u \in Thread :
          Locked(u)' /\ pc'[u] \in {"install", "loaded", "put", "commit"} =>
            /\ ref'[u] \in Obj
            /\ \A f \in Field : heap[ref'[u]][f] >= acked[f]
    BY <1>6, <2>2, <2>5, <2>6 DEF Install, RefOK, RefCovers
  <2>8. \A o \in Obj :
          (\/ \E m \in Manager : cache'[m] = o
           \/ \E u \in Thread : ref'[u] = o)
          => heap'[o] = heap[o]
    BY <1>6, ReclaimKeeps DEF Install
  <2> QED
    BY <1>0, <1>6, <2>2, <2>4, <2>6, <2>7, <2>8 DEF Install, ghosts
\* A call that returns without a new acknowledgement.
<1>7. ASSUME NEW t \in Thread, Return(t), heap' = Reclaim(heap),
             s3' = s3, cache' = cache, acked' = acked
      PROVE  AckInv'
  <2>1. \A o \in Obj :
          (\/ \E m \in Manager : cache'[m] = o
           \/ \E u \in Thread : ref'[u] = o)
          => heap'[o] = heap[o]
    BY <1>7, ReclaimKeeps
  <2>2. \A u \in Thread :
          pc'[u] # "idle" => /\ u # t /\ pc'[u] = pc[u]
                             /\ call'[u] = call[u] /\ ref'[u] = ref[u]
    BY <1>7 DEF Return, Goto
  <2>3. \A u \in Thread :
          Locked(u)' /\ pc'[u] \in {"install", "loaded", "put", "commit"} =>
            /\ ref'[u] \in Obj
            /\ \A f \in Field : heap[ref'[u]][f] >= acked[f]
    BY <2>2 DEF Locked, RefOK, RefCovers
  <2> QED
    BY <1>0, <1>7, <2>1, <2>2, <2>3
<1>8. ASSUME NEW t \in Thread, ReturnRead(t) \/ CleanNothing(t) PROVE AckInv'
  BY <1>7, <1>8 DEF ReturnRead, CleanNothing, ghosts
\* A writer changes its dict.  Only it is locked, so only its own entry of
\* RefCovers and the cache entry, if it is that dict, are concerned.
<1>9. ASSUME NEW t \in Thread, Locked(t), ref[t] \in Obj,
             pc[t] = "loaded", Goto(t, "put"),
             \A o \in Obj : o # ref[t] => heap'[o] = heap[o],
             \A f \in Field : heap'[ref[t]][f] >= acked[f],
             s3' = s3, cache' = cache, call' = call, ref' = ref,
             acked' = acked
      PROVE  AckInv'
  <2>1. \A u \in Thread : Locked(u) => u = t
    BY <1>9, OnlyHolder
  <2>2. \A u \in Thread : u # t => pc'[u] = pc[u]
    BY <1>9 DEF Goto
  <2>3. \A u \in Thread : Locked(u)' => u = t
    BY <1>9, <2>1, <2>2 DEF Locked
  <2>4. CommitInv'
    BY <1>9, <2>3 DEF CommitInv, Locked, Goto
  <2>5. CacheCovers' /\ RefCovers' /\ NoLostUpdate'
    BY <1>9, <2>3 DEF CacheCovers, RefCovers, NoLostUpdate
  <2> QED
    BY <2>4, <2>5
<1>10. ASSUME NEW t \in Thread, Mutate(t) PROVE AckInv'
  <2> DEFINE f == call[t].field
  <2>1. ref[t] \in Obj /\ f \in Field
    BY <1>10, NullCalls DEF Mutate, RefOK, CallOK
  <2>2. Locked(t)
    BY <1>10 DEF Mutate, Locked
  <2>3. heap' = [heap EXCEPT ![ref[t]] = [heap[ref[t]] EXCEPT ![f] = issued[f] + 1]]
    BY <1>10 DEF Mutate
  <2>4. \A g \in Field :
          heap'[ref[t]][g] = IF g = f THEN issued[f] + 1 ELSE heap[ref[t]][g]
    BY <2>1, <2>3 DEF Doc
  <2>5. \A g \in Field : heap[ref[t]][g] >= acked[g]
    BY <1>10, <2>2 DEF Mutate, RefCovers
  <2>6. \A g \in Field : heap'[ref[t]][g] >= acked[g]
    BY <1>a, <2>1, <2>4, <2>5 DEF VersionInv, AckedBound
  <2>7. \A o \in Obj : o # ref[t] => heap'[o] = heap[o]
    BY <2>3
  <2> QED
    BY <1>9, <1>10, <2>1, <2>2, <2>6, <2>7 DEF Mutate
<1>11. ASSUME NEW t \in Thread, Clean(t) PROVE AckInv'
  <2>1. ref[t] \in Obj /\ Locked(t)
    BY <1>11 DEF Clean, RefOK, Locked
  <2>2. heap' = [heap EXCEPT ![ref[t]] = Purged(heap[ref[t]])]
    BY <1>11 DEF Clean
  <2>3. \A g \in Field :
          \/ heap'[ref[t]][g] = heap[ref[t]][g]
          \/ heap[ref[t]][g] = 1 /\ heap'[ref[t]][g] = 0
    BY <2>1, <2>2 DEF Purged, IsStreamOld, Absent, Inherited
  <2>4. \A g \in Field : heap[ref[t]][g] >= acked[g]
    BY <1>11, <2>1 DEF Clean, RefCovers
  <2>5. \A g \in Field : heap'[ref[t]][g] >= acked[g]
    BY <1>a, <2>3, <2>4 DEF VersionInv, AckedBound, Inherited
  <2>6. \A o \in Obj : o # ref[t] => heap'[o] = heap[o]
    BY <2>2
  <2> QED
    BY <1>9, <1>11, <2>1, <2>5, <2>6 DEF Clean, ghosts
<1>12. ASSUME NEW t \in Thread, PutStored(t) PROVE AckInv'
  <2>1. Locked(t) /\ ref[t] \in Obj /\ heap[ref[t]] \in Doc
    BY <1>12 DEF PutStored, Locked, RefOK
  <2>2. \A f \in Field : heap[ref[t]][f] >= acked[f]
    BY <1>12, <2>1 DEF PutStored, RefCovers
  <2>3. s3' = heap[ref[t]] /\ s3' # NoDoc
    BY <1>12, <2>1 DEF PutStored, Doc
  <2>4. \A u \in Thread : pc[u] # "commit"
    BY <1>12, <2>1, OnlyHolder DEF PutStored, Locked
  <2>5. CommitInv'
    BY <1>12, <2>3, <2>4 DEF PutStored, CommitInv, Goto
  <2>6. NoLostUpdate'
    BY <1>12, <2>2, <2>3 DEF PutStored, ghosts, NoLostUpdate
  <2>7. CacheCovers' /\ RefCovers'
    BY <1>12 DEF PutStored, ghosts, CacheCovers, RefCovers, Goto, Locked
  <2> QED
    BY <2>5, <2>6, <2>7
<1>13. ASSUME NEW t \in Thread, PutFailed(t) PROVE AckInv'
  <2>1. Locked(t) /\ ref[t] \in Obj /\ heap[ref[t]] \in Doc
    BY <1>13 DEF PutFailed, Locked, RefOK
  <2>2. \A f \in Field : heap[ref[t]][f] >= acked[f]
    BY <1>13, <2>1 DEF PutFailed, RefCovers
  <2>3. heap[ref[t]] # NoDoc
    BY <2>1 DEF Doc
  <2>4. NoLostUpdate'
    BY <1>13, <2>2, <2>3 DEF PutFailed, ghosts, NoLostUpdate
  <2>5. \A u \in Thread : Locked(u) => u = t
    BY <2>1, OnlyHolder
  <2>6. \A u \in Thread : ~ (Locked(u)' /\ pc'[u] # "idle")
    BY <1>13, <2>5 DEF PutFailed, Return, Goto, Locked
  <2>7. CommitInv' /\ RefCovers'
    BY <2>6 DEF CommitInv, RefCovers, Locked
  <2>8. \A m \in Manager : cache[m] # NoObj =>
          heap'[cache[m]] = heap[cache[m]]
    BY <1>13, ReclaimKeeps DEF PutFailed
  <2>9. CacheCovers'
    BY <1>13, <2>8 DEF PutFailed, ghosts, CacheCovers
  <2> QED
    BY <2>4, <2>7, <2>9
<1>14. ASSUME NEW t \in Thread, Commit(t) PROVE AckInv'
  <2>1. Locked(t) /\ ref[t] \in Obj /\ heap[ref[t]] \in Doc
    BY <1>14 DEF Commit, Locked, RefOK
  <2>2. \A f \in Field : heap[ref[t]][f] >= acked[f]
    BY <1>14, <2>1 DEF Commit, RefCovers
  <2>3. s3 = heap[ref[t]] /\ s3 # NoDoc /\ s3' = s3
    BY <1>14, <2>1 DEF Commit, CommitInv, Doc
  <2>4. \A f \in Field : acked'[f] \in {acked[f], heap[ref[t]][f]}
    BY <1>14, <2>1 DEF Commit
  <2>5. \A f \in Field : heap[ref[t]][f] >= acked'[f]
    BY <1>b, <2>1, <2>2, <2>4
  <2>6. NoLostUpdate'
    BY <2>3, <2>5 DEF NoLostUpdate
  <2>7. \A u \in Thread : Locked(u) => u = t
    BY <2>1, OnlyHolder
  <2>8. \A u \in Thread : ~ (Locked(u)' /\ pc'[u] # "idle")
    BY <1>14, <2>7 DEF Commit, Return, Goto, Locked
  <2>9. CommitInv' /\ RefCovers'
    BY <2>8 DEF CommitInv, RefCovers, Locked
  \* There is one manager, so the only cache entry is the saved dict.
  <2>10. \A m \in Manager : cache'[m] = ref[t]
    BY <1>14 DEF Commit, OneManager
  <2>11. Manager # {} => heap'[ref[t]] = heap[ref[t]]
    BY <1>14, <2>1, <2>10, ReclaimKeeps DEF Commit
  <2>12. CacheCovers'
    BY <2>5, <2>10, <2>11 DEF CacheCovers
  <2> QED
    BY <2>6, <2>9, <2>12
<1>15. ASSUME NEW m \in Manager, Expire(m) PROVE AckInv'
  <2>1. \A o \in Obj :
          (\/ \E n \in Manager : cache'[n] = o
           \/ \E u \in Thread : ref'[u] = o)
          => heap'[o] = heap[o]
    BY <1>15, ReclaimKeeps DEF Expire
  <2>2. \A n \in Manager : cache'[n] \in {cache[n], NoObj}
    BY <1>15 DEF Expire
  <2>3. \A u \in Thread :
          Locked(u)' /\ pc'[u] \in {"install", "loaded", "put", "commit"} =>
            /\ ref'[u] \in Obj
            /\ \A f \in Field : heap[ref'[u]][f] >= acked[f]
    BY <1>15 DEF Expire, Locked, RefOK, RefCovers
  <2> QED
    BY <1>0, <1>15, <2>1, <2>2, <2>3 DEF Expire, ghosts
<1>16. CASE UNCHANGED vars
  BY <1>16 DEF vars, CommitInv, NoLostUpdate, CacheCovers, RefCovers, Locked
<1> QED
  BY <1>1, <1>2, <1>3, <1>4, <1>5, <1>6, <1>8, <1>10, <1>11, <1>12, <1>13,
     <1>14, <1>15, <1>16 DEF Next, Step

SafeInv == TypeInv /\ LockInv /\ VersionInv /\ LoadInv /\ AckInv

LEMMA SafeAlways ==
  ASSUME OneManager, NoStaleLoad
  PROVE  Spec => []SafeInv
<1>1. Init => SafeInv
  BY TypeInit, LockInit, VersionInit, LoadInit, AckInit DEF SafeInv
<1>2. SafeInv /\ [Next]_vars => SafeInv'
  BY TypeStep, LockStep, VersionStep, LoadStep, AckStep DEF SafeInv
<1> QED
  BY <1>1, <1>2, PTL DEF Spec

\* No acknowledged update is lost within one invocation, when no load outside
\* the lock can be stale: any number of threads, streams and calls, entries
\* that expire, saves that fail with or without an effect on S3.
THEOREM UpdatesKept == OneManager /\ NoStaleLoad => (Spec => []NoLostUpdate)
<1> SUFFICES ASSUME OneManager, NoStaleLoad PROVE Spec => []NoLostUpdate
  OBVIOUS
<1>1. SafeInv => NoLostUpdate
  BY DEF SafeInv, AckInv
<1> QED
  BY <1>1, SafeAlways, PTL

-----------------------------------------------------------------------------
(* Durability at the moment of the acknowledgement.  It needs the lock and *)
(* nothing else: no assumption on the loads, any fault.                    *)

LEMMA CommitStep ==
  ASSUME OneManager, TypeInv, LockInv, CommitInv, [Next]_vars
  PROVE  CommitInv'
<1> USE ManagerAssumption, NullAssumption
<1> USE DEF TypeInv, TypeOK
\* A thread at "commit" is the only one that is locked, so what the others
\* do to the dicts they were given changes neither S3 nor its dict.
<1>1. SUFFICES ASSUME NEW t \in Thread, pc'[t] = "commit"
               PROVE  s3' = heap'[ref'[t]]
  BY DEF CommitInv
<1>2. ASSUME NEW u \in Thread, PutStored(u), u = t PROVE s3' = heap'[ref'[t]]
  BY <1>2 DEF PutStored
<1>3. ASSUME pc[t] = "commit", s3 = heap[ref[t]], ref[t] \in Obj, Locked(t)
      PROVE  s3' = heap'[ref'[t]]
  <2>1. ASSUME NEW u \in Thread, Step(u), u # t PROVE s3' = heap'[ref'[t]]
    <3>1. ~Locked(u)
      BY <1>3, <2>1, OnlyHolder
    <3>2. CASE \/ Begin(u) \/ Acquire(u) \/ LoadCached(u) \/ LoadMiss(u)
      BY <1>3, <2>1, <3>2
      DEF Begin, Acquire, LoadCached, LoadMiss, ghosts
    <3>3. CASE FetchFound(u) \/ FetchDefault(u)
      <4>1. \A o \in Fresh : o # ref[t]
        BY DEF Fresh
      <4> QED
        BY <1>3, <2>1, <3>3, <4>1 DEF FetchFound, FetchDefault, ghosts
    <3>4. CASE Install(u) \/ ReturnRead(u)
      <4>1. s3' = s3 /\ ref'[t] = ref[t] /\ heap' = Reclaim(heap)
        BY <2>1, <3>4 DEF Install, ReturnRead, Return
      <4> QED
        BY <1>3, <4>1, ReclaimKeeps
    <3>5. CASE \/ Mutate(u) \/ Clean(u) \/ CleanNothing(u)
               \/ PutStored(u) \/ PutFailed(u) \/ Commit(u)
      BY <3>1, <3>5 DEF Locked, Mutate, Clean, CleanNothing, PutStored,
                        PutFailed, Commit
    <3> QED
      BY <2>1, <3>2, <3>3, <3>4, <3>5 DEF Step
  <2>2. ASSUME Step(t) PROVE s3' = heap'[ref'[t]]
    BY <1>1, <1>3, <2>2
    DEF Step, Begin, Idle, Acquire, LoadCached, LoadMiss, FetchFound,
        FetchDefault, Install, ReturnRead, Mutate, Clean, CleanNothing,
        PutStored, PutFailed, Commit, Return, Goto
  <2>3. ASSUME NEW m \in Manager, Expire(m) PROVE s3' = heap'[ref'[t]]
    <3>1. s3' = s3 /\ ref'[t] = ref[t] /\ heap' = Reclaim(heap)
      BY <2>3 DEF Expire
    <3> QED
      BY <1>3, <3>1, ReclaimKeeps
  <2>4. CASE UNCHANGED vars
    BY <1>3, <2>4 DEF vars
  <2> QED
    BY <2>1, <2>2, <2>3, <2>4 DEF Next
<1>4. pc[t] = "commit" \/ PutStored(t)
  <2>1. ASSUME NEW u \in Thread, Step(u), u # t PROVE pc[t] = "commit"
    BY <1>1, <2>1
    DEF Step, Begin, Acquire, LoadCached, LoadMiss, FetchFound, FetchDefault,
        Install, ReturnRead, Mutate, Clean, CleanNothing, PutStored,
        PutFailed, Commit, Return, Goto
  <2>2. ASSUME Step(t), ~PutStored(t) PROVE FALSE
    <3>1. \A label : Goto(t, label) => label = "commit"
      BY <1>1 DEF Goto
    <3>2. CASE Begin(t)
      BY <3>1, <3>2 DEF Begin
    <3> QED
      BY <2>2, <3>1, <3>2
      DEF Step, Acquire, LoadCached, LoadMiss, FetchFound, FetchDefault,
          Install, ReturnRead, Mutate, Clean, CleanNothing, PutFailed, Commit,
          Return
  <2>3. CASE UNCHANGED vars \/ \E m \in Manager : Expire(m)
    BY <1>1, <2>3 DEF vars, Expire
  <2> QED
    BY <2>1, <2>2, <2>3 DEF Next
<1> QED
  BY <1>2, <1>3, <1>4 DEF CommitInv, RefOK, Locked

\* When an update reports success, state.json holds it at that moment.
THEOREM AcknowledgedIsSaved == OneManager => (Spec => AckedIsDurable)
<1> SUFFICES ASSUME OneManager PROVE Spec => AckedIsDurable
  OBVIOUS
<1> DEFINE Inv == TypeInv /\ LockInv /\ CommitInv
           Saved == \A f \in Field : acked'[f] # acked[f] =>
                      s3' # NoDoc /\ s3'[f] = acked'[f]
<1>1. Init => Inv
  BY TypeInit, LockInit DEF Init, CommitInv
<1>2. Inv /\ [Next]_vars => Inv'
  BY TypeStep, LockStep, CommitStep
<1>3. Inv /\ [Next]_vars => [Saved]_vars
  <2> SUFFICES ASSUME Inv, Next PROVE Saved
    OBVIOUS
  <2>1. (\E t \in Thread : Commit(t)) \/ acked' = acked
    BY DEF Next, Step, Begin, Acquire, LoadCached, LoadMiss, FetchFound,
           FetchDefault, Install, ReturnRead, Mutate, Clean, CleanNothing,
           PutStored, PutFailed, Expire, ghosts
  <2>2. ASSUME NEW t \in Thread, Commit(t) PROVE Saved
    <3>1. s3' = heap[ref[t]] /\ heap[ref[t]] \in Doc
      BY <2>2 DEF Commit, CommitInv, TypeInv, TypeOK, RefOK
    <3>2. s3' # NoDoc
      BY <3>1, NullAssumption DEF Doc
    <3>3. \A f \in Field : acked'[f] \in {acked[f], heap[ref[t]][f]}
      BY <2>2 DEF Commit, TypeInv, TypeOK
    <3> QED
      BY <3>1, <3>2, <3>3
  <2> QED
    BY <2>1, <2>2
<1> QED
  BY <1>1, <1>2, <1>3, PTL DEF Spec, AckedIsDurable

-----------------------------------------------------------------------------
(* What the users of the state see.                                        *)

\* A writer starts from a document that holds every update acknowledged so
\* far, when no load outside the lock can be stale.
THEOREM WritersFresh == OneManager /\ NoStaleLoad => (Spec => []WritersStartFresh)
<1> SUFFICES ASSUME OneManager, NoStaleLoad PROVE Spec => []WritersStartFresh
  OBVIOUS
<1>1. SafeInv => WritersStartFresh
  BY DEF SafeInv, AckInv, RefCovers, Locked, WritersStartFresh
<1> QED
  BY <1>1, SafeAlways, PTL

\* While the entry does not expire there is one dict: the cached one, which
\* every thread works on.
WarmInv ==
  /\ \A m \in Manager : cache[m] # NoObj
  /\ \A t \in Thread : /\ pc[t] \notin {"fetch", "install"}
                       /\ ref[t] \in {NoObj, cache[ManagerOf[t]]}

\* What a reader must see was acknowledged, and stays so.
FloorInv ==
  \A t \in Thread : call[t].op = "get" => floor[t] <= acked[call[t].field]

LEMMA WarmInit == StaysCached /\ Init => WarmInv
BY NullAssumption, ManagerAssumption DEF StaysCached, Init, WarmInv

LEMMA WarmStep ==
  ASSUME StaysCached, TypeInv, WarmInv, [Next]_vars
  PROVE  WarmInv'
<1> USE ManagerAssumption, NullAssumption DEF TypeInv, TypeOK
<1>1. cache' = cache
  <2>1. ASSUME NEW t \in Thread, Commit(t) PROVE cache' = cache
    <3>1. ref[t] \in Obj /\ cache' = [cache EXCEPT ![ManagerOf[t]] = ref[t]]
      BY <2>1 DEF Commit, RefOK
    <3>2. ref[t] = cache[ManagerOf[t]]
      BY <3>1 DEF WarmInv
    <3> QED
      BY <3>1, <3>2
  <2>2. (\E t \in Thread : Commit(t)) \/ cache' = cache
    BY DEF WarmInv, StaysCached, Next, Step, Begin, Acquire, LoadCached,
           LoadMiss, FetchFound, FetchDefault, Install, ReturnRead, Mutate,
           Clean, CleanNothing, PutStored, PutFailed, Expire, vars
  <2> QED
    BY <2>1, <2>2
<1>2. \A t \in Thread : pc'[t] \notin {"fetch", "install"}
  BY DEF WarmInv, StaysCached, Next, Step, Begin, Acquire, LoadCached,
         LoadMiss, FetchFound, FetchDefault, Install, ReturnRead, Mutate,
         Clean, CleanNothing, PutStored, PutFailed, Commit, Expire, Return,
         Goto, vars
<1>3. \A t \in Thread : ref'[t] \in {ref[t], NoObj, cache[ManagerOf[t]]}
  BY DEF WarmInv, StaysCached, Next, Step, Begin, Acquire, LoadCached,
         LoadMiss, FetchFound, FetchDefault, Install, ReturnRead, Mutate,
         Clean, CleanNothing, PutStored, PutFailed, Commit, Expire, Return,
         vars
<1> QED
  BY <1>1, <1>2, <1>3 DEF WarmInv

\* An acknowledgement is only ever replaced by that of a later update.
LEMMA AckedGrows ==
  ASSUME SafeInv, [Next]_vars, NEW f \in Field
  PROVE  acked'[f] >= acked[f]
<1> USE DEF SafeInv, TypeInv, TypeOK
<1>1. ASSUME NEW t \in Thread, Commit(t) PROVE acked'[f] >= acked[f]
  <2>1. ref[t] \in Obj /\ heap[ref[t]][f] \in Nat /\ acked[f] \in Nat
    BY <1>1 DEF Commit, RefOK, Doc
  <2>2. heap[ref[t]][f] >= acked[f]
    BY <1>1 DEF Commit, AckInv, RefCovers, Locked
  <2>3. acked'[f] \in {acked[f], heap[ref[t]][f]}
    BY <1>1 DEF Commit
  <2> QED
    BY <2>1, <2>2, <2>3
<1>2. (\E t \in Thread : Commit(t)) \/ acked' = acked
  BY DEF Next, Step, Begin, Acquire, LoadCached, LoadMiss, FetchFound,
         FetchDefault, Install, ReturnRead, Mutate, Clean, CleanNothing,
         PutStored, PutFailed, Expire, ghosts, vars
<1> QED
  BY <1>1, <1>2

LEMMA FloorStep ==
  ASSUME SafeInv, FloorInv, [Next]_vars
  PROVE  FloorInv'
<1> USE ManagerAssumption, NullAssumption DEF SafeInv, TypeInv, TypeOK
<1> SUFFICES ASSUME NEW t \in Thread, call'[t].op = "get"
             PROVE  floor'[t] <= acked'[call'[t].field]
  BY DEF FloorInv
<1>1. CASE call'[t] = call[t] /\ floor'[t] = floor[t]
  <2>1. call[t].field \in Field
    BY <1>1, NullCalls DEF NoCall
  <2>2. acked'[call[t].field] >= acked[call[t].field]
    BY <2>1, AckedGrows
  <2>3. floor[t] <= acked[call[t].field]
    BY <1>1 DEF FloorInv
  <2>4. acked'[call[t].field] \in Nat
    BY <2>1, TypeStep
  <2> QED
    BY <1>1, <2>1, <2>2, <2>3, <2>4
<1>2. CASE Begin(t)
  <2>1. PICK c \in Calls[t] :
          /\ call' = [call EXCEPT ![t] = c]
          /\ floor' = [floor EXCEPT ![t] = IF c.op = "get" THEN acked[c.field]
                                                           ELSE Absent]
    BY <1>2 DEF Begin
  <2>2. c \in Call /\ c.op = "get" /\ c.field \in Field
    BY <2>1, NullCalls
  <2> QED
    BY <1>2, <2>1, <2>2 DEF Begin
<1>3. Begin(t) \/ (call'[t] \in {call[t], NoCall} /\ floor'[t] = floor[t])
  <2>1. ASSUME NEW u \in Thread, Begin(u), u # t
        PROVE  call'[t] = call[t] /\ floor'[t] = floor[t]
    BY <2>1 DEF Begin
  <2>2. ASSUME NEW u \in Thread, Return(u) PROVE call'[t] \in {call[t], NoCall}
    BY <2>2 DEF Return
  <2>3. \/ \E u \in Thread : Begin(u)
        \/ floor' = floor /\ (call' = call \/ \E u \in Thread : Return(u))
    BY DEF Next, Step, Acquire, LoadCached, LoadMiss, FetchFound, FetchDefault,
           Install, ReturnRead, Mutate, Clean, CleanNothing, PutStored,
           PutFailed, Commit, Expire, ghosts, vars
  <2> QED
    BY <2>1, <2>2, <2>3
<1> QED
  BY <1>1, <1>2, <1>3 DEF NoCall

\* A reader, which takes no lock, sees every update of its field that was
\* acknowledged before it asked, as long as the cached document does not
\* expire.
THEOREM ReadersSee == OneManager /\ StaysCached => (Spec => []ReadersSeeAcked)
<1> SUFFICES ASSUME OneManager, StaysCached PROVE Spec => []ReadersSeeAcked
  OBVIOUS
<1>1. Spec => []SafeInv
  BY SafeAlways DEF NoStaleLoad
<1>2. Init => WarmInv /\ FloorInv
  BY WarmInit DEF Init, FloorInv, NoCall
<1>3. SafeInv /\ (WarmInv /\ FloorInv) /\ [Next]_vars => (WarmInv /\ FloorInv)'
  BY WarmStep, FloorStep DEF SafeInv
<1>4. SafeInv /\ WarmInv /\ FloorInv => ReadersSeeAcked
  <2> SUFFICES ASSUME SafeInv, WarmInv, FloorInv, NEW t \in Thread,
                      pc[t] = "loaded", call[t].op = "get"
               PROVE  heap[ref[t]][call[t].field] >= floor[t]
    BY DEF ReadersSeeAcked
  <2> DEFINE m == ManagerOf[t]
             f == call[t].field
  <2>1. ref[t] \in Obj /\ m \in Manager /\ f \in Field
    BY ManagerAssumption, NullCalls DEF SafeInv, TypeInv, RefOK, CallOK
  <2>2. ref[t] = cache[m]
    BY <2>1, NullAssumption DEF WarmInv
  <2>3. heap[ref[t]][f] >= acked[f]
    BY <2>1, <2>2 DEF WarmInv, SafeInv, AckInv, CacheCovers
  <2>4. floor[t] <= acked[f]
    BY DEF FloorInv
  <2>5. heap[ref[t]][f] \in Nat /\ acked[f] \in Nat /\ floor[t] \in Nat
    BY <2>1 DEF SafeInv, TypeInv, TypeOK, Doc
  <2> QED
    BY <2>3, <2>4, <2>5
<1> QED
  BY <1>1, <1>2, <1>3, <1>4, PTL DEF Spec

-----------------------------------------------------------------------------
(* The abstract store.  Every document a locked writer holds, and the one  *)
(* in the cache, is ahead of state.json: each of its entries is that of    *)
(* state.json, or a later version, or an old entry that was purged.  So    *)
(* every save carries the store forward.                                   *)

Stored == IF s3 = NoDoc THEN DefaultState ELSE s3

Ahead(d, doc) ==
  \A f \in Field :
    \/ d[f] >= doc[f]
    \/ f \in OldStream /\ doc[f] = Inherited /\ d[f] = Absent

\* A writer past its load works on the cached dict, or nothing is cached.
HoldsCached ==
  \A t \in Thread : Locked(t) =>
    /\ pc[t] \in {"fetch", "install"} => cache[ManagerOf[t]] = NoObj
    /\ pc[t] \in {"loaded", "put", "commit"} =>
         cache[ManagerOf[t]] \in {NoObj, ref[t]}

CacheAhead ==
  \A m \in Manager : cache[m] # NoObj => Ahead(heap[cache[m]], Stored)

RefAhead ==
  \A t \in Thread :
    Locked(t) /\ pc[t] \in {"install", "loaded", "put", "commit"} =>
      Ahead(heap[ref[t]], Stored)

\* What is about to be acknowledged is later than all that was.
WroteAhead ==
  \A t \in Thread :
    pc[t] \in {"put", "commit"} /\ call[t].op = "update" =>
      heap[ref[t]][call[t].field] > acked[call[t].field]

LEMMA AheadSelf == ASSUME NEW d \in Doc PROVE Ahead(d, d)
BY DEF Ahead, Doc

LEMMA AheadUpdated ==
  ASSUME NEW d \in Doc, NEW doc \in Doc, Ahead(d, doc),
         NEW f \in Field, NEW n \in Nat, n >= doc[f]
  PROVE  Ahead([d EXCEPT ![f] = n], doc)
BY DEF Ahead, Doc

LEMMA AheadPurged ==
  ASSUME NEW d \in Doc, NEW doc \in Doc, Ahead(d, doc)
  PROVE  Ahead(Purged(d), doc)
BY DEF Ahead, Doc, Purged, IsStreamOld, Absent, Inherited

LEMMA StoredIsDoc == TypeInv => Stored \in Doc
BY DefaultIsDoc DEF TypeInv, TypeOK, Stored

LEMMA HoldInit == Init => HoldsCached /\ RefAhead /\ CacheAhead /\ WroteAhead
<1> SUFFICES ASSUME Init
             PROVE  HoldsCached /\ RefAhead /\ CacheAhead /\ WroteAhead
  OBVIOUS
<1>1. HoldsCached /\ RefAhead /\ WroteAhead
  BY DEF Init, HoldsCached, RefAhead, WroteAhead, Locked
<1>2. s3 \in Doc \cup {NoDoc} /\ cache \in [Manager -> Obj \cup {NoObj}]
  BY TypeInit DEF TypeInv, TypeOK
<1>3. ASSUME NEW m \in Manager, cache[m] # NoObj
      PROVE  heap[cache[m]] = s3 /\ s3 \in Doc
  <2>1. cache[m] \in Obj
    BY <1>2, <1>3
  <2>2. s3 \in [Field -> {Absent, Inherited}]
    BY <1>3 DEF Init
  <2> QED
    BY <1>3, <2>1, <2>2, NullAssumption
    DEF Init, Doc, Absent, Inherited
<1>4. CacheAhead
  BY <1>3, AheadSelf, NullAssumption DEF CacheAhead, Stored, Doc
<1> QED
  BY <1>1, <1>4

LEMMA HoldStep ==
  ASSUME OneManager, TypeInv, LockInv, LoadInv, HoldsCached, [Next]_vars
  PROVE  HoldsCached'
<1> USE ManagerAssumption, NullAssumption
<1> USE DEF TypeInv, TypeOK, HoldsCached, Locked
<1>1. ASSUME NEW t \in Thread, Begin(t) PROVE HoldsCached'
  BY <1>1 DEF Begin, Idle, Goto
<1>2. ASSUME NEW t \in Thread, Acquire(t) \/ LoadCached(t) \/ LoadMiss(t)
      PROVE  HoldsCached'
  BY <1>2 DEF Acquire, LoadCached, LoadMiss, Goto, ghosts
<1>3. ASSUME NEW t \in Thread, FetchFound(t) \/ FetchDefault(t)
      PROVE  HoldsCached'
  BY <1>3 DEF FetchFound, FetchDefault, Goto, ghosts
<1>4. ASSUME NEW t \in Thread, Install(t) PROVE HoldsCached'
  <2>1. \A u \in Thread : Locked(u) => u = t
    BY <1>4, OnlyHolder DEF Install, LoadInv
  <2> QED
    BY <1>4, <2>1 DEF Install, Goto, ghosts
<1>5. ASSUME NEW t \in Thread, Return(t), cache' = cache PROVE HoldsCached'
  BY <1>5 DEF Return, Goto
<1>6. ASSUME NEW t \in Thread,
             Mutate(t) \/ Clean(t) \/ PutStored(t)
      PROVE  HoldsCached'
  BY <1>6 DEF Mutate, Clean, PutStored, Goto, ghosts
<1>7. ASSUME NEW t \in Thread,
             ReturnRead(t) \/ CleanNothing(t) \/ PutFailed(t)
      PROVE  HoldsCached'
  BY <1>5, <1>7 DEF ReturnRead, CleanNothing, PutFailed
<1>8. ASSUME NEW t \in Thread, Commit(t) PROVE HoldsCached'
  <2>1. \A u \in Thread : Locked(u) => u = t
    BY <1>8, OnlyHolder DEF Commit
  <2> QED
    BY <1>8, <2>1 DEF Commit, Return, Goto
<1>9. ASSUME NEW m \in Manager, Expire(m) PROVE HoldsCached'
  BY <1>9 DEF Expire, ghosts
<1>10. CASE UNCHANGED vars
  BY <1>10 DEF vars
<1> QED
  BY <1>1, <1>2, <1>3, <1>4, <1>6, <1>7, <1>8, <1>9, <1>10 DEF Next, Step

LEMMA AheadStep ==
  ASSUME OneManager, TypeInv, LockInv, LoadInv, HoldsCached,
         VersionInv, CacheAhead, RefAhead, [Next]_vars
  PROVE  CacheAhead' /\ RefAhead'
<1> USE ManagerAssumption, NullAssumption
<1> USE DEF TypeInv, TypeOK
\* A step that saves nothing and changes no dict in use.
<1>0. ASSUME s3' = s3,
             \A o \in Obj :
               (\/ \E m \in Manager : cache'[m] = o
                \/ \E u \in Thread : ref'[u] = o)
               => heap'[o] = heap[o],
             \A m \in Manager :
               \/ cache'[m] \in {cache[m], NoObj}
               \/ \E u \in Thread : /\ cache'[m] = ref[u] /\ ref[u] \in Obj
                                    /\ Ahead(heap[ref[u]], Stored),
             \A u \in Thread :
               Locked(u)' /\ pc'[u] \in {"install", "loaded", "put", "commit"} =>
                 ref'[u] \in Obj /\ Ahead(heap[ref'[u]], Stored)
      PROVE  CacheAhead' /\ RefAhead'
  <2>1. Stored' = Stored
    BY <1>0 DEF Stored
  <2> QED
    BY <1>0, <2>1 DEF CacheAhead, RefAhead
<1>1. ASSUME NEW t \in Thread, Begin(t) \/ Acquire(t) \/ LoadMiss(t)
      PROVE  CacheAhead' /\ RefAhead'
  BY <1>1 DEF Begin, Idle, Acquire, LoadMiss, Goto, ghosts, CacheAhead,
              RefAhead, Locked, Stored
<1>2. ASSUME NEW t \in Thread, LoadCached(t) PROVE CacheAhead' /\ RefAhead'
  <2>1. Ahead(heap[cache[ManagerOf[t]]], Stored) /\ Stored' = Stored
    BY <1>2 DEF LoadCached, CacheAhead, Stored
  <2> QED
    BY <1>2, <2>1 DEF LoadCached, Goto, ghosts, CacheAhead, RefAhead, Locked
<1>3. ASSUME NEW t \in Thread, FetchFound(t) \/ FetchDefault(t)
      PROVE  CacheAhead' /\ RefAhead'
  \* S3 does not fail to answer: what is fetched is what is stored.
  <2>1. PICK o \in Fresh : /\ heap' = [heap EXCEPT ![o] = Stored]
                           /\ ref' = [ref EXCEPT ![t] = o]
    BY <1>3 DEF FetchFound, FetchDefault, Stored, LoadInv, OnlyWriters
  <2>2. /\ o \in Obj
        /\ \A m \in Manager : cache[m] # o
        /\ \A u \in Thread : ref[u] # o
    BY DEF Fresh
  <2>3. Ahead(Stored, Stored) /\ Stored' = Stored
    BY <1>3, StoredIsDoc, AheadSelf DEF FetchFound, FetchDefault, Stored
  <2>4. \A x \in Obj : x # o => heap'[x] = heap[x]
    BY <2>1
  <2>5. heap'[o] = Stored
    BY <2>1, <2>2
  <2>6. cache' = cache /\ call' = call /\ Goto(t, pc'[t])
    BY <1>3 DEF FetchFound, FetchDefault, Goto, ghosts
  <2>7. CacheAhead'
    BY <2>2, <2>3, <2>4, <2>6 DEF CacheAhead
  <2>8. ASSUME NEW u \in Thread, u # t, Locked(u)',
               pc'[u] \in {"install", "loaded", "put", "commit"}
        PROVE  Ahead(heap'[ref'[u]], Stored')
    <3>1. Locked(u) /\ pc[u] = pc'[u] /\ ref'[u] = ref[u] /\ ref[u] \in Obj
      BY <2>1, <2>6, <2>8 DEF Goto, Locked, RefOK
    <3> QED
      BY <2>2, <2>3, <2>4, <2>8, <3>1 DEF RefAhead
  <2>9. Ahead(heap'[ref'[t]], Stored')
    BY <2>1, <2>3, <2>5
  <2> QED
    BY <2>7, <2>8, <2>9 DEF RefAhead
<1>4. ASSUME NEW t \in Thread, Install(t) PROVE CacheAhead' /\ RefAhead'
  <2>1. Locked(t)
    BY <1>4 DEF Install, Locked, LoadInv
  <2>2. ref[t] \in Obj /\ Ahead(heap[ref[t]], Stored)
    BY <1>4, <2>1 DEF Install, RefOK, RefAhead
  <2>3. \A m \in Manager : cache'[m] \in {cache[m], ref[t]}
    BY <1>4 DEF Install
  <2>4. \A u \in Thread :
          Locked(u)' /\ pc'[u] \in {"install", "loaded", "put", "commit"} =>
            ref'[u] \in Obj /\ Ahead(heap[ref'[u]], Stored)
    BY <1>4, <2>2 DEF Install, Goto, Locked, RefOK, RefAhead, ghosts
  <2>5. \A o \in Obj :
          (\/ \E m \in Manager : cache'[m] = o
           \/ \E u \in Thread : ref'[u] = o)
          => heap'[o] = heap[o]
    BY <1>4, ReclaimKeeps DEF Install
  <2>6. s3' = s3
    BY <1>4 DEF Install
  <2> QED
    BY <1>0, <2>2, <2>3, <2>4, <2>5, <2>6
<1>5. ASSUME NEW t \in Thread, ReturnRead(t) \/ CleanNothing(t)
      PROVE  CacheAhead' /\ RefAhead'
  <2>1. /\ Return(t) /\ s3' = s3 /\ cache' = cache /\ heap' = Reclaim(heap)
    BY <1>5 DEF ReturnRead, CleanNothing
  <2>2. \A o \in Obj :
          (\/ \E m \in Manager : cache'[m] = o
           \/ \E u \in Thread : ref'[u] = o)
          => heap'[o] = heap[o]
    BY <2>1, ReclaimKeeps
  <2>3. \A u \in Thread :
          Locked(u)' /\ pc'[u] \in {"install", "loaded", "put", "commit"} =>
            ref'[u] \in Obj /\ Ahead(heap[ref'[u]], Stored)
    BY <2>1 DEF Return, Goto, Locked, RefOK, RefAhead
  <2> QED
    BY <1>0, <2>1, <2>2, <2>3
\* A writer changes its dict, which may be the cached one, and stays ahead.
<1>6. ASSUME NEW t \in Thread, Mutate(t) \/ Clean(t)
      PROVE  CacheAhead' /\ RefAhead'
  <2>1. /\ Locked(t) /\ ref[t] \in Obj /\ heap[ref[t]] \in Doc
        /\ pc[t] = "loaded" /\ call[t] \in Call
    BY <1>6 DEF Mutate, Clean, Locked, RefOK, CallOK
  <2>2. s3' = s3 /\ cache' = cache /\ ref' = ref /\ call' = call
        /\ Goto(t, "put")
    BY <1>6 DEF Mutate, Clean, ghosts
  <2>3. Ahead(heap[ref[t]], Stored) /\ Stored \in Doc /\ Stored' = Stored
    BY <2>1, <2>2, StoredIsDoc DEF RefAhead, Stored
  <2>4. PICK d \in Doc : heap' = [heap EXCEPT ![ref[t]] = d] /\ Ahead(d, Stored)
    <3>1. CASE Mutate(t)
      <4> DEFINE f == call[t].field
      <4>1. f \in Field
        BY <2>1, <3>1, NullCalls DEF Mutate
      <4>2. issued[f] + 1 \in Nat /\ issued[f] + 1 >= Stored[f]
        BY <4>1 DEF VersionInv, S3Bound, Stored, DefaultState, Absent, Doc
      <4>3. [heap[ref[t]] EXCEPT ![f] = issued[f] + 1] \in Doc
        BY <2>1, <4>1, <4>2 DEF Doc
      <4> QED
        BY <2>1, <2>3, <3>1, <4>1, <4>2, <4>3, AheadUpdated DEF Mutate
    <3>2. CASE Clean(t)
      BY <2>1, <2>3, <3>2, PurgedIsDoc, AheadPurged DEF Clean
    <3> QED
      BY <1>6, <3>1, <3>2
  <2>5. \A o \in Obj : heap'[o] = heap[o] \/ (o = ref[t] /\ heap'[o] = d)
    BY <2>4
  <2>6. heap'[ref[t]] = d
    BY <2>1, <2>4
  <2>7. CacheAhead'
    BY <2>2, <2>3, <2>4, <2>5 DEF CacheAhead
  <2>8. \A u \in Thread : Locked(u) => u = t
    BY <2>1, OnlyHolder
  <2>9. \A u \in Thread : Locked(u)' => u = t
    BY <2>1, <2>2, <2>8 DEF Goto, Locked
  <2>10. RefAhead'
    BY <2>2, <2>3, <2>4, <2>6, <2>9 DEF RefAhead
  <2> QED
    BY <2>7, <2>10
\* A save: the store becomes the dict of the one locked writer, which is the
\* cached one if any is.
<1>7. ASSUME NEW t \in Thread, pc[t] = "put", s3' \in {s3, heap[ref[t]]},
             cache' = cache, ref' = ref \/ Return(t),
             Locked(t)' => Goto(t, "commit") /\ ref' = ref /\ s3' = heap[ref[t]],
             \A u \in Thread : u # t => Locked(u)' = Locked(u),
             \A o \in Obj : (\E m \in Manager : cache[m] = o) \/ ref'[t] = o
               => heap'[o] = heap[o]
      PROVE  CacheAhead' /\ RefAhead'
  <2>1. Locked(t) /\ ref[t] \in Obj /\ heap[ref[t]] \in Doc
    BY <1>7 DEF Locked, RefOK
  <2>2. heap[ref[t]] # NoDoc
    BY <2>1 DEF Doc
  <2>3. Stored' = Stored \/ Stored' = heap[ref[t]]
    BY <1>7, <2>2 DEF Stored
  <2>4. Ahead(heap[ref[t]], Stored) /\ Ahead(heap[ref[t]], heap[ref[t]])
    BY <1>7, <2>1, AheadSelf DEF RefAhead
  <2>5. Ahead(heap[ref[t]], Stored')
    BY <2>3, <2>4
  <2>6. ASSUME NEW m \in Manager, cache'[m] # NoObj
        PROVE  Ahead(heap'[cache'[m]], Stored')
    <3>1. m = ManagerOf[t] /\ cache[m] \in Obj
      BY <1>7, <2>6 DEF OneManager
    <3>2. cache[m] = ref[t]
      BY <1>7, <2>1, <2>6, <3>1 DEF HoldsCached
    <3> QED
      BY <1>7, <2>5, <3>1, <3>2
  <2>7. \A u \in Thread : Locked(u)' => u = t
    BY <1>7, <2>1, OnlyHolder
  <2>8. Locked(t)' => Ahead(heap'[ref'[t]], Stored')
    BY <1>7, <2>1, <2>5
  <2> QED
    BY <2>6, <2>7, <2>8 DEF CacheAhead, RefAhead
<1>8. ASSUME NEW t \in Thread, PutStored(t) PROVE CacheAhead' /\ RefAhead'
  <2>1. \A u \in Thread : u # t => Locked(u)' = Locked(u)
    BY <1>8 DEF PutStored, Goto, Locked, ghosts
  <2> QED
    BY <1>7, <1>8, <2>1 DEF PutStored, ghosts
<1>9. ASSUME NEW t \in Thread, PutFailed(t) PROVE CacheAhead' /\ RefAhead'
  <2>1. \A u \in Thread : u # t => Locked(u)' = Locked(u)
    BY <1>9 DEF PutFailed, Return, Goto, Locked, ghosts
  <2>2. ~Locked(t)'
    BY <1>9 DEF PutFailed, Return, Goto, Locked, ghosts
  <2>3. \A o \in Obj : (\E m \in Manager : cache[m] = o) \/ ref'[t] = o
          => heap'[o] = heap[o]
    BY <1>9, ReclaimKeeps DEF PutFailed
  <2> QED
    BY <1>7, <1>9, <2>1, <2>2, <2>3 DEF PutFailed
<1>10. ASSUME NEW t \in Thread, Commit(t) PROVE CacheAhead' /\ RefAhead'
  <2>1. ref[t] \in Obj /\ Locked(t) /\ Ahead(heap[ref[t]], Stored)
    BY <1>10 DEF Commit, Locked, RefOK, RefAhead
  <2>2. \A o \in Obj :
          (\/ \E m \in Manager : cache'[m] = o
           \/ \E u \in Thread : ref'[u] = o)
          => heap'[o] = heap[o]
    BY <1>10, ReclaimKeeps DEF Commit
  <2>3. \A m \in Manager : cache'[m] \in {cache[m], ref[t]}
    BY <1>10 DEF Commit
  <2>4. \A u \in Thread :
          Locked(u)' /\ pc'[u] \in {"install", "loaded", "put", "commit"} =>
            ref'[u] \in Obj /\ Ahead(heap[ref'[u]], Stored)
    BY <1>10 DEF Commit, Return, Goto, Locked, RefOK, RefAhead
  <2>5. s3' = s3
    BY <1>10 DEF Commit
  <2> QED
    BY <1>0, <2>1, <2>2, <2>3, <2>4, <2>5
<1>11. ASSUME NEW m \in Manager, Expire(m) PROVE CacheAhead' /\ RefAhead'
  <2>1. \A o \in Obj :
          (\/ \E n \in Manager : cache'[n] = o
           \/ \E u \in Thread : ref'[u] = o)
          => heap'[o] = heap[o]
    BY <1>11, ReclaimKeeps DEF Expire
  <2>2. \A n \in Manager : cache'[n] \in {cache[n], NoObj}
    BY <1>11 DEF Expire
  <2>3. \A u \in Thread :
          Locked(u)' /\ pc'[u] \in {"install", "loaded", "put", "commit"} =>
            ref'[u] \in Obj /\ Ahead(heap[ref'[u]], Stored)
    BY <1>11 DEF Expire, Locked, RefOK, RefAhead
  <2> QED
    BY <1>0, <1>11, <2>1, <2>2, <2>3 DEF Expire
<1>12. CASE UNCHANGED vars
  BY <1>12 DEF vars, CacheAhead, RefAhead, Locked, Stored
<1> QED
  BY <1>1, <1>2, <1>3, <1>4, <1>5, <1>6, <1>8, <1>9, <1>10, <1>11, <1>12
  DEF Next, Step

LEMMA WroteStep ==
  ASSUME OneManager, SafeInv, WroteAhead, [Next]_vars
  PROVE  WroteAhead'
<1> USE ManagerAssumption, NullAssumption DEF SafeInv, TypeInv, TypeOK
<1> SUFFICES ASSUME NEW t \in Thread, pc'[t] \in {"put", "commit"},
                    call'[t].op = "update"
             PROVE  heap'[ref'[t]][call'[t].field] > acked'[call'[t].field]
  BY DEF WroteAhead
<1> DEFINE f == call[t].field
\* A step of another thread, or the expiry of an entry.
<1>1. ASSUME pc'[t] = pc[t], call'[t] = call[t], ref'[t] = ref[t],
             heap'[ref[t]][f] = heap[ref[t]][f], acked' = acked
      PROVE  heap'[ref'[t]][call'[t].field] > acked'[call'[t].field]
  BY <1>1 DEF WroteAhead
<1>2. ASSUME NEW u \in Thread, Step(u), u # t, ref[t] \in Obj, Locked(t)
      PROVE  /\ pc'[t] = pc[t] /\ call'[t] = call[t] /\ ref'[t] = ref[t]
             /\ heap'[ref[t]] = heap[ref[t]] /\ acked' = acked
  <2>1. ~Locked(u)
    BY <1>2, OnlyHolder
  <2>2. CASE Begin(u) \/ Acquire(u) \/ LoadCached(u) \/ LoadMiss(u)
    BY <1>2, <2>2 DEF Begin, Acquire, LoadCached, LoadMiss, Goto, ghosts
  <2>3. CASE FetchFound(u) \/ FetchDefault(u)
    <3>1. \A o \in Fresh : o # ref[t]
      BY DEF Fresh
    <3> QED
      BY <1>2, <2>3, <3>1 DEF FetchFound, FetchDefault, Goto, ghosts
  <2>4. CASE Install(u) \/ ReturnRead(u)
    <3>1. ref'[t] = ref[t] /\ heap' = Reclaim(heap)
      BY <1>2, <2>4 DEF Install, ReturnRead, Return
    <3> QED
      BY <1>2, <2>4, <3>1, ReclaimKeeps
      DEF Install, ReturnRead, Return, Goto, ghosts
  <2>5. CASE \/ Mutate(u) \/ Clean(u) \/ CleanNothing(u)
             \/ PutStored(u) \/ PutFailed(u) \/ Commit(u)
    BY <2>1, <2>5 DEF Locked, Mutate, Clean, CleanNothing, PutStored,
                      PutFailed, Commit
  <2> QED
    BY <1>2, <2>2, <2>3, <2>4, <2>5 DEF Step
<1>3. ASSUME NEW u \in Thread, Step(u), u # t
      PROVE  heap'[ref'[t]][call'[t].field] > acked'[call'[t].field]
  <2>1. pc'[t] = pc[t]
    BY <1>3 DEF Step, Begin, Acquire, LoadCached, LoadMiss, FetchFound,
            FetchDefault, Install, ReturnRead, Mutate, Clean, CleanNothing,
            PutStored, PutFailed, Commit, Return, Goto
  <2>2. ref[t] \in Obj /\ Locked(t)
    BY <2>1 DEF RefOK, Locked
  <2> QED
    BY <1>1, <1>2, <1>3, <2>2
<1>4. ASSUME NEW m \in Manager, Expire(m)
      PROVE  heap'[ref'[t]][call'[t].field] > acked'[call'[t].field]
  <2>1. pc' = pc /\ call' = call /\ ref' = ref /\ acked' = acked
        /\ heap' = Reclaim(heap)
    BY <1>4 DEF Expire, ghosts
  <2>2. heap'[ref[t]] = heap[ref[t]]
    BY <2>1, ReclaimKeeps DEF RefOK
  <2> QED
    BY <1>1, <2>1, <2>2
<1>5. CASE Mutate(t)
  <2>1. ref[t] \in Obj /\ f \in Field
    BY <1>5, NullCalls DEF Mutate, RefOK, CallOK
  <2>2. heap'[ref[t]][f] = issued[f] + 1
    BY <1>5, <2>1 DEF Mutate, Doc
  <2>3. acked[f] <= issued[f] /\ acked[f] \in Nat /\ issued[f] \in Nat
    BY <2>1 DEF VersionInv, AckedBound
  <2> QED
    BY <1>5, <2>2, <2>3 DEF Mutate
<1>6. CASE PutStored(t)
  BY <1>1, <1>6 DEF PutStored, WroteAhead, ghosts
<1>7. CASE Step(t) /\ ~Mutate(t) /\ ~PutStored(t)
  <2>1. ~Clean(t)
    BY DEF Clean, ghosts
  <2>2. \A label : Goto(t, label) => label \in {"put", "commit"}
    BY DEF Goto
  <2>3. ~Begin(t)
    BY <2>2 DEF Begin
  <2> QED
    BY <1>7, <2>1, <2>2, <2>3
    DEF Step, Acquire, LoadCached, LoadMiss, FetchFound, FetchDefault,
        Install, ReturnRead, CleanNothing, PutFailed, Commit, Return
<1>8. CASE UNCHANGED vars
  BY <1>8 DEF vars, WroteAhead
<1> QED
  BY <1>3, <1>4, <1>5, <1>6, <1>7, <1>8 DEF Next

\* A step of the manager is a step of the store, or changes nothing there.
LEMMA StoreSimulates ==
  ASSUME SafeInv, RefAhead, WroteAhead, [Next]_vars
  PROVE  [Store!Next]_(Store!store)
<1> USE ManagerAssumption, NullAssumption DEF SafeInv, TypeInv, TypeOK
<1>1. ASSUME s3' = s3, issued' = issued, acked' = acked
      PROVE  UNCHANGED Store!store
  BY <1>1 DEF Store!store
<1>2. ASSUME NEW t \in Thread, Mutate(t) PROVE Store!Next
  <2>1. call[t].field \in Field
    BY <1>2, NullCalls DEF Mutate, CallOK
  <2>2. Store!Issue(call[t].field)
    BY <1>2 DEF Mutate, Store!Issue
  <2> QED
    BY <2>1, <2>2 DEF Store!Next
<1>3. ASSUME NEW t \in Thread, pc[t] = "put", s3' = heap[ref[t]],
             issued' = issued, acked' = acked
      PROVE  Store!Next
  <2>1. ref[t] \in Obj /\ s3' \in Doc /\ s3' # NoDoc
    BY <1>3 DEF RefOK, Doc
  <2>2. Stored' = s3' /\ Stored \in Doc
    BY <2>1, StoredIsDoc DEF Stored
  <2>3. Ahead(s3', Stored) /\ \A f \in Field : s3'[f] <= issued[f]
    BY <1>3, <2>1 DEF RefAhead, Locked, VersionInv, HeapBound
  <2>4. \A f \in Field : \/ Stored'[f] = Stored[f]
                         \/ Stored'[f] > Stored[f] /\ Stored'[f] <= issued[f]
                         \/ f \in OldStream /\ Stored[f] = 1 /\ Stored'[f] = 0
    <3> SUFFICES ASSUME NEW f \in Field
                 PROVE  \/ Stored'[f] = Stored[f]
                        \/ Stored'[f] > Stored[f] /\ Stored'[f] <= issued[f]
                        \/ f \in OldStream /\ Stored[f] = 1 /\ Stored'[f] = 0
      OBVIOUS
    <3>1. s3'[f] \in Nat /\ Stored[f] \in Nat /\ s3'[f] <= issued[f]
      BY <2>1, <2>2, <2>3 DEF Doc
    <3>2. s3'[f] >= Stored[f] \/ (f \in OldStream /\ Stored[f] = 1 /\ s3'[f] = 0)
      BY <2>3 DEF Ahead, Absent, Inherited
    <3> QED
      BY <2>2, <3>1, <3>2
  <2>5. Store!Persist
    BY <1>3, <2>1, <2>2, <2>4
    DEF Store!Persist, Store!Advances, Store!IsPurged, Stored, Doc
  <2> QED
    BY <2>5 DEF Store!Next
<1>4. ASSUME NEW t \in Thread, Commit(t), call[t].op = "update" PROVE Store!Next
  <2> DEFINE f == call[t].field
  <2>1. ref[t] \in Obj /\ heap[ref[t]] \in Doc /\ f \in Field
    BY <1>4, NullCalls DEF Commit, RefOK, CallOK
  <2>2. s3 = heap[ref[t]] /\ s3 # NoDoc /\ s3' = s3 /\ issued' = issued
    BY <1>4, <2>1 DEF Commit, AckInv, CommitInv, Doc
  <2>3. acked' = [acked EXCEPT ![f] = heap[ref[t]][f]]
    BY <1>4 DEF Commit
  <2>4. acked'[f] = s3[f] /\ s3[f] \in Nat /\ s3[f] > 1 /\ s3[f] > acked[f]
    BY <1>4, <2>1, <2>2, <2>3
    DEF Commit, VersionInv, WroteNew, WroteAhead, Doc, Inherited
  <2>5. acked'[f] \in 2..s3[f] /\ acked'[f] > acked[f]
    BY <2>4
  <2>6. acked' = [acked EXCEPT ![f] = acked'[f]]
    BY <2>1, <2>3
  <2>7. Store!Acknowledge(f)
    BY <2>2, <2>5, <2>6 DEF Store!Acknowledge
  <2> QED
    BY <2>1, <2>7 DEF Store!Next
<1>5. ASSUME NEW t \in Thread, Commit(t), call[t].op # "update"
      PROVE  UNCHANGED Store!store
  BY <1>1, <1>5 DEF Commit
<1>6. ASSUME NEW t \in Thread, PutStored(t) PROVE Store!Next
  BY <1>3, <1>6 DEF PutStored, ghosts
<1>7. ASSUME NEW t \in Thread, PutFailed(t)
      PROVE  Store!Next \/ UNCHANGED Store!store
  BY <1>1, <1>3, <1>7 DEF PutFailed, ghosts
<1>8. \/ \E t \in Thread : Mutate(t) \/ PutStored(t) \/ PutFailed(t) \/ Commit(t)
      \/ s3' = s3 /\ issued' = issued /\ acked' = acked
  BY DEF Next, Step, Begin, Acquire, LoadCached, LoadMiss, FetchFound,
         FetchDefault, Install, ReturnRead, Clean, CleanNothing, Expire,
         ghosts, vars
<1> QED
  BY <1>1, <1>2, <1>4, <1>5, <1>6, <1>7, <1>8

\* The manager implements the abstract store, when no load outside the lock
\* can be stale: state.json never goes back, whatever expires, fails or is
\* written without an answer.
THEOREM RefinesStore == OneManager /\ NoStaleLoad => (Spec => ImplementsStore)
<1> SUFFICES ASSUME OneManager, NoStaleLoad PROVE Spec => ImplementsStore
  OBVIOUS
<1> DEFINE HoldInv == HoldsCached /\ CacheAhead /\ RefAhead /\ WroteAhead
<1>1. Spec => []SafeInv
  BY SafeAlways
<1>2. Init => HoldInv
  BY HoldInit
<1>3. SafeInv /\ HoldInv /\ [Next]_vars => HoldInv'
  BY HoldStep, AheadStep, WroteStep DEF SafeInv
<1>4. SafeInv /\ HoldInv /\ [Next]_vars => [Store!Next]_(Store!store)
  BY StoreSimulates
<1>5. Init => Store!Init
  <2> SUFFICES ASSUME Init PROVE Store!Init
    OBVIOUS
  <2>1. s3 = NoDoc \/ s3 \in [Field -> {0, 1}]
    BY DEF Init, Absent, Inherited
  <2>2. Stored \in [Field -> {0, 1}]
    BY <2>1 DEF Stored, DefaultState, Absent
  <2> QED
    BY <2>2 DEF Init, Store!Init, Stored, Absent, Inherited
<1> QED
  BY <1>1, <1>2, <1>3, <1>4, <1>5, PTL DEF Spec, ImplementsStore, Store!Spec

=============================================================================
