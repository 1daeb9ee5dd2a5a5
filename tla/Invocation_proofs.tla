------------------------- MODULE Invocation_proofs -------------------------
(***************************************************************************)
(* Proofs about Invocation, for every set of log groups, every deployment, *)
(* every number of workers and every set of calls of S3 that may fail.     *)
(***************************************************************************)
EXTENDS Invocation, TLAPS

-----------------------------------------------------------------------------
(* Types.  The pool is empty unless the log groups are processed, and then *)
(* every queued or running task is one of the deployment.                  *)

PoolInv ==
  /\ ~Pooled => queued = {} /\ running = {}
  /\ pc \in {"get", "move"} => legacy # NoFile

Inv == TypeOK /\ PoolInv

LEMMA EndInv ==
  ASSUME TypeOK, End, legacy' = NoFile \/ legacy' \subseteq Group,
         UNCHANGED <<setup, file, last, mode>>, lost' \subseteq Group, hurt' \subseteq Group,
         manager' \in {"validate", "batch", "reader"}
  PROVE  Inv'
BY DEF TypeOK, End, NoTasks, Inv, PoolInv, Pooled, Tasks

LEMMA BuiltInv ==
  ASSUME Inv, pc \in {"head", "get", "move"}, Built,
         legacy' = NoFile \/ legacy' \subseteq Group,
         UNCHANGED <<setup, file, last, mode, manager>>,
         lost' \subseteq Group, hurt' \subseteq Group
  PROVE  Inv'
<1> USE DEF Inv, TypeOK, PoolInv, Pooled, pool, Tasks
<1>1. CASE End
  BY <1>1, EndInv
<1>2. CASE pc' \in {"access", "head"} /\ todo' = {} /\ moved' = {}
           /\ UNCHANGED pool /\ readers' \in Nat
  BY <1>2
<1>3. CASE /\ pc' = "collect" /\ todo' = {} /\ moved' = {} /\ queued' = Tasks
           /\ UNCHANGED <<readers, running, loaded>>
  BY <1>3
<1>4. readers > 1 => readers - 1 \in Nat
  OBVIOUS
<1> QED
  BY <1>1, <1>2, <1>3, <1>4 DEF Built

LEMMA KeyOf ==
  ASSUME NEW g \in Group PROVE StateKey(g) \in Key
BY DEF Key

LEMMA GroupOf ==
  ASSUME TypeOK, NEW i \in Tasks PROVE setup.groups[i] \in Group
<1>1. setup.groups \in Seq(Group)
  BY InvocationAssumption DEF TypeOK, Setup
<1> QED
  BY <1>1 DEF Tasks

LEMMA InvInit == Init => Inv
BY DEF Init, Inv, TypeOK, PoolInv, Pooled, Tasks

LEMMA Increment ==
  ASSUME NEW S, NEW f \in [S -> Nat], NEW k \in S
  PROVE  [f EXCEPT ![k] = @ + 1] \in [S -> Nat]
OBVIOUS

LEMMA SaveTyped ==
  ASSUME Inv, NEW i \in Tasks, Save(i)
  PROVE  file' \in [Key -> Nat] /\ last' \in [Group -> Nat]
<1> DEFINE g == setup.groups[i]
<1>1. g \in Group /\ StateKey(g) \in Key
  BY GroupOf, KeyOf DEF Inv, TypeOK
<1>2. file \in [Key -> Nat] /\ last \in [Group -> Nat]
  BY DEF Inv, TypeOK
<1>3. \/ file' = file /\ last' = last
      \/ /\ file' = [file EXCEPT ![StateKey(g)] = @ + 1]
         /\ last' = [last EXCEPT ![g] = @ + 1]
  BY DEF Save
<1>4. /\ [file EXCEPT ![StateKey(g)] = @ + 1] \in [Key -> Nat]
      /\ [last EXCEPT ![g] = @ + 1] \in [Group -> Nat]
  BY <1>1, <1>2, Increment
<1> HIDE DEF g
<1> QED
  BY <1>2, <1>3, <1>4

LEMMA InvStep ==
  ASSUME Inv, [Next]_vars
  PROVE  Inv'
<1> USE DEF Inv, TypeOK, PoolInv, Pooled, Tasks, deployed, ghosts, store,
            migration, pool
<1>1. CASE UNCHANGED vars
  BY <1>1 DEF vars
<1>2. CASE Deploy
  BY <1>2 DEF Deploy
<1>3. CASE \E m \in {"normal", "test"} : Start(m)
  BY <1>3 DEF Start, Build
<1>4. CASE Check
  <2>1. CASE legacy = NoFile
    BY <1>4, <2>1, BuiltInv DEF Check
  <2>2. CASE legacy # NoFile
    BY <1>4, <2>2 DEF Check
  <2> QED
    BY <2>1, <2>2
<1>5. CASE Get
  <2>1. legacy \subseteq Group /\ todo' \subseteq Group
    BY <1>5 DEF Get
  <2> QED
    BY <1>5, <2>1 DEF Get
<1>6. CASE \E g \in Group : Move(g)
  <2>1. PICK g \in Group : Move(g)
    BY <1>6
  <2>2. file' \in [Key -> Nat] /\ moved' \subseteq Group /\ todo' \subseteq Group
    BY <2>1, KeyOf DEF Move
  <2> QED
    BY <2>1, <2>2 DEF Move
<1>7. CASE EndMigration
  <2>1. legacy' = NoFile \/ legacy' \subseteq Group
    BY <1>7 DEF EndMigration
  <2> QED
    BY <1>7, <2>1, BuiltInv DEF EndMigration
<1>15. CASE MigrationFails
  <2>1. hurt' \subseteq Group
    BY <1>15 DEF MigrationFails, Legacy
  <2> QED
    BY <1>15, <2>1, BuiltInv DEF MigrationFails
<1>16. CASE \E g \in Group : MoveFails(g)
  BY <1>16 DEF MoveFails
<1>17. CASE AccessFails
  BY <1>17, EndInv DEF AccessFails
<1>8. CASE Access
  <2>1. CASE End
    BY <1>8, <2>1, EndInv DEF Access
  <2>2. CASE pc' = "configs" /\ UNCHANGED <<readers, migration, pool>>
    BY <1>8, <2>2 DEF Access
  <2> QED
    BY <1>8, <2>1, <2>2 DEF Access
<1>9. CASE Configs
  <2>1. CASE End /\ UNCHANGED manager
    BY <1>9, <2>1, EndInv DEF Configs
  <2>2. CASE /\ pc' = "head" /\ manager' \in {"batch", "reader"}
             /\ readers' \in {readers, Len(setup.groups)}
             /\ UNCHANGED <<migration, pool>>
    <3>1. Len(setup.groups) \in Nat
      BY InvocationAssumption DEF Setup
    <3> QED
      BY <1>9, <2>2, <3>1 DEF Configs
  <2> QED
    BY <1>9, <2>1, <2>2 DEF Configs, Build
<1>10. CASE \E i \in Tasks : BeginTask(i)
  BY <1>10 DEF BeginTask
<1>11. CASE \E i \in Tasks : Save(i)
  <2>1. PICK i \in Tasks : Save(i)
    BY <1>11
  <2>2. file' \in [Key -> Nat] /\ last' \in [Group -> Nat]
    BY <2>1, SaveTyped
  <2> QED
    BY <2>1, <2>2 DEF Save
<1>18. CASE \E i \in Tasks : SaveOverDefault(i)
  <2>1. PICK i \in Tasks : SaveOverDefault(i)
    BY <1>18
  <2>2. setup.groups[i] \in Group /\ StateKey(setup.groups[i]) \in Key
    BY GroupOf, KeyOf
  <2>3. /\ file' \in [Key -> Nat] /\ last' \in [Group -> Nat]
        /\ hurt' \subseteq Group
    BY <2>1, <2>2 DEF SaveOverDefault
  <2> QED
    BY <2>1, <2>3 DEF SaveOverDefault
<1>12. CASE \E i \in Tasks : EndTask(i)
  BY <1>12 DEF EndTask
<1>13. CASE CollectTimeout \/ Collected
  BY <1>13 DEF CollectTimeout, Collected
<1>14. CASE Answer \/ Kill
  BY <1>14, EndInv DEF Answer, Kill
<1> QED
  BY <1>1, <1>2, <1>3, <1>4, <1>5, <1>6, <1>7, <1>8, <1>9, <1>10, <1>11, <1>12,
     <1>13, <1>14, <1>15, <1>16, <1>17, <1>18 DEF Next, Step

LEMMA InvAlways == Spec => []Inv
BY InvInit, InvStep, PTL DEF Spec

\* The variables keep their types in every run of every deployment.
THEOREM TypeCorrect == Spec => []TypeOK
<1>1. Inv => TypeOK
  BY DEF Inv
<1> QED
  BY <1>1, InvAlways, PTL

\* No task of the pool is left when an invocation answers, whenever the
\* collection of the results times out and whatever the number of workers.
THEOREM WorkersJoined == Spec => []NoWorkerLeft
<1>1. Inv => NoWorkerLeft
  BY DEF Inv, PoolInv, NoWorkerLeft
<1> QED
  BY <1>1, InvAlways, PTL

-----------------------------------------------------------------------------
(* The state of the log groups is kept.  A file of a log group never goes  *)
(* away, and the common file only does when each entry of it was moved or  *)
(* could not be saved for a failing put.                                   *)

MovedInv ==
  pc = "move" =>
    /\ moved \subseteq legacy /\ todo \subseteq legacy
    /\ moved # {} => May("put")
    /\ May("put") => legacy \subseteq todo \cup moved \cup lost
    /\ \A g \in moved : Saves(g) > 0

KeepInv == NothingForgotten /\ MovedInv

LEMMA KeepInit == Init => KeepInv
BY DEF Init, KeepInv, MovedInv, NothingForgotten, Legacy

LEMMA MoveKeeps ==
  ASSUME Inv, KeepInv, NEW g \in Group, Move(g)
  PROVE  KeepInv'
<1>1. /\ pc = "move" /\ g \in todo /\ todo' = todo \ {g}
      /\ UNCHANGED <<legacy, last, lost, setup, pc>>
  BY DEF Move, deployed, ghosts
<1>2. moved \subseteq Group
  BY DEF Inv, TypeOK
<1>3. CASE May("put")
  <2>1. file' = [file EXCEPT ![StateKey(g)] = 1] /\ moved' = moved \cup {g}
    BY <1>3 DEF Move
  <2>2. ASSUME NEW h \in Group
        PROVE  Saves(h)' \in {1, Saves(h)} /\ (h = g => Saves(h)' = 1)
    <3>1. file \in [Key -> Nat] /\ StateKey(h) \in Key
      BY KeyOf DEF Inv, TypeOK
    <3> QED
      BY <2>1, <3>1 DEF Saves
  <2>3. NothingForgotten'
    BY <1>1, <2>2 DEF KeepInv, NothingForgotten, Legacy
  <2>4. (May("put"))'
    BY <1>1, <1>3 DEF May
  <2>5. \A h \in moved' : Saves(h)' > 0
    BY <1>1, <1>2, <2>1, <2>2 DEF KeepInv, MovedInv
  <2> QED
    BY <1>1, <2>1, <2>3, <2>4, <2>5, <1>3 DEF KeepInv, MovedInv
<1>4. CASE ~May("put")
  <2>1. UNCHANGED <<file, moved>>
    BY <1>4 DEF Move
  <2>2. NothingForgotten'
    BY <1>1, <2>1 DEF KeepInv, NothingForgotten, Saves, Legacy
  <2>3. ~(May("put"))'
    BY <1>1, <1>4 DEF May
  <2> QED
    BY <1>1, <1>4, <2>1, <2>2, <2>3 DEF KeepInv, MovedInv
<1> QED
  BY <1>3, <1>4

\* A worker writes the file of its log group: none is gone.
LEMMA WriteKeeps ==
  ASSUME Inv, KeepInv, NEW i \in Tasks, Save(i) \/ SaveOverDefault(i)
  PROVE  KeepInv'
<1> DEFINE g == setup.groups[i]
<1>1. g \in Group /\ file \in [Key -> Nat] /\ last \in [Group -> Nat]
  BY GroupOf DEF Inv, TypeOK
<1>2. pc' # "move" /\ UNCHANGED <<legacy, lost>>
  BY DEF Save, SaveOverDefault, Pooled, ghosts
<1>3. ASSUME NEW h \in Group
      PROVE  /\ Saves(h) > 0 => Saves(h)' > 0
             /\ last'[h] > 0 => last[h] > 0 \/ Saves(h)' > 0
  <2>1. StateKey(h) \in Key /\ StateKey(g) \in Key
    BY <1>1, KeyOf
  <2>2. Saves(h) \in Nat
    BY <1>1, <2>1 DEF Saves
  <2>3. CASE UNCHANGED <<file, last>>
    BY <2>3 DEF Saves
  <2>4. CASE /\ \/ file' = [file EXCEPT ![StateKey(g)] = @ + 1]
                \/ file' = [file EXCEPT ![StateKey(g)] = 1]
             /\ last' = [last EXCEPT ![g] = @ + 1]
    <3>1. Saves(h)' \in {Saves(h), Saves(h) + 1, 1}
      BY <1>1, <2>1, <2>4 DEF Saves
    <3>2. CASE h = g
      BY <1>1, <2>1, <2>2, <2>4, <3>1, <3>2 DEF Saves
    <3>3. CASE h # g
      BY <1>1, <2>2, <2>4, <3>1, <3>3
    <3> QED
      BY <3>2, <3>3
  <2> QED
    BY <2>3, <2>4 DEF Save, SaveOverDefault
<1> QED
  BY <1>2, <1>3 DEF KeepInv, MovedInv, NothingForgotten, Legacy

LEMMA KeepStep ==
  ASSUME Inv, KeepInv, [Next]_vars
  PROVE  KeepInv'
<1>1. ASSUME UNCHANGED <<legacy, file, last, lost>>,
             pc' # "move" \/ UNCHANGED <<setup, pc, todo, moved>>
      PROVE  KeepInv'
  <2>1. NothingForgotten'
    BY <1>1 DEF KeepInv, NothingForgotten, Saves, Legacy
  <2>2. CASE pc' # "move"
    BY <2>1, <2>2 DEF KeepInv, MovedInv
  <2>3. CASE UNCHANGED <<setup, pc, todo, moved>>
    <3>1. (May("put"))' = May("put") /\ \A g \in moved : Saves(g)' = Saves(g)
      BY <1>1, <2>3 DEF May, Saves
    <3> QED
      BY <1>1, <2>1, <2>3, <3>1 DEF KeepInv, MovedInv
  <2> QED
    BY <1>1, <2>2, <2>3
<1>2. Built => pc' # "move"
  BY DEF Built, End
<1> USE DEF deployed, ghosts, store, migration
<1>3. CASE UNCHANGED vars
  BY <1>1, <1>3 DEF vars
<1>4. CASE Get
  <2>1. NothingForgotten' /\ legacy # NoFile
    BY <1>4 DEF Get, KeepInv, NothingForgotten, Saves, Legacy, Inv, PoolInv
  <2> QED
    BY <1>4, <2>1 DEF Get, KeepInv, MovedInv
<1>5. CASE \E g \in Group : Move(g)
  BY <1>5, MoveKeeps
<1>6. CASE \E g \in Group : MoveFails(g)
  <2>1. PICK g \in Group : MoveFails(g)
    BY <1>6
  <2>2. /\ pc = "move" /\ pc' = "move" /\ todo' = todo \ {g}
        /\ lost' = lost \cup {g}
        /\ UNCHANGED <<setup, legacy, file, last, moved>>
    BY <2>1 DEF MoveFails
  <2>3. NothingForgotten'
    BY <2>2 DEF KeepInv, NothingForgotten, Saves, Legacy
  <2>4. (May("put"))' = May("put") /\ \A h \in moved : Saves(h)' = Saves(h)
    BY <2>2 DEF May, Saves
  <2> QED
    BY <2>2, <2>3, <2>4 DEF KeepInv, MovedInv
<1>7. CASE EndMigration
  <2>1. /\ pc = "move" /\ todo = {} /\ legacy # NoFile
        /\ UNCHANGED <<file, last, lost>>
        /\ legacy' = IF moved # {} /\ May("delete") THEN NoFile ELSE legacy
    BY <1>7 DEF EndMigration, Inv, PoolInv
  <2>2. moved # {} => \A g \in legacy \ lost : Saves(g) > 0
    BY <2>1 DEF KeepInv, MovedInv
  <2>3. NothingForgotten'
    BY <2>1, <2>2 DEF KeepInv, NothingForgotten, Saves, Legacy
  <2> QED
    BY <1>2, <1>7, <2>3 DEF EndMigration, KeepInv, MovedInv
<1>8. CASE \E i \in Tasks : Save(i) \/ SaveOverDefault(i)
  BY <1>8, WriteKeeps
<1>9. CASE \/ Deploy \/ \E m \in {"normal", "test"} : Start(m)
           \/ Check \/ MigrationFails \/ Access \/ AccessFails \/ Configs
           \/ CollectTimeout \/ Collected \/ Answer \/ Kill
           \/ \E i \in Tasks : BeginTask(i) \/ EndTask(i)
  <2>1. UNCHANGED <<legacy, file, last, lost>>
    BY <1>9 DEF Deploy, Start, Check, MigrationFails, Access, AccessFails, Configs,
                CollectTimeout, Collected, Answer, Kill, BeginTask, EndTask
  <2>2. pc' # "move" \/ UNCHANGED <<setup, pc, todo, moved>>
    BY <1>2, <1>9 DEF Deploy, Start, Check, MigrationFails, Access, AccessFails,
                Configs, CollectTimeout, Collected, Answer, Kill, BeginTask, EndTask,
                Build, End, Pooled
  <2> QED
    BY <1>1, <2>1, <2>2
<1> QED
  BY <1>3, <1>4, <1>5, <1>6, <1>7, <1>8, <1>9 DEF Next, Step

LEMMA KeepAlways == Spec => [](Inv /\ KeepInv)
<1>1. Inv /\ KeepInv /\ [Next]_vars => KeepInv'
  BY KeepStep
<1> QED
  BY <1>1, InvInit, InvStep, KeepInit, PTL DEF Spec

\* The migration loses no state but that of a log group whose own entry could
\* not be saved, wherever an invocation is killed, whatever the role of a
\* deployment may not do and whichever other calls fail.
THEOREM MigrationKeeps == Spec => []NothingForgotten
<1>1. KeepInv => NothingForgotten
  BY DEF KeepInv
<1> QED
  BY <1>1, KeepAlways, PTL

-----------------------------------------------------------------------------
(* Tasks go on from the state saved last.  The saves of a group no failure *)
(* has hurt are in its own file, or the first of them is still in the      *)
(* common one; once a batch is processed, the common file has no entry of  *)
(* such a group any more, because what was moved could also be deleted:    *)
(* the access was checked before, or the role has every right.             *)

\* No two log groups have the same state file.
DistinctKeys ==
  \A g, h \in Group : StateKey(g) = StateKey(h) => g = h

\* The access check is left out only where the role may write and delete.
CheckedSetups == \A s \in Setups : s.useS3State \/ s.denied = {}

SavedInv ==
  \A g \in Group \ hurt : \/ Saves(g) = last[g]
                          \/ g \in Legacy /\ last[g] = 1 /\ Saves(g) = 0

LegacyInv == \A g \in Legacy \ hurt : last[g] = 1

MovedOnceInv == pc = "move" => \A g \in moved \ hurt : Saves(g) = 1

AccessInv ==
  /\ pc = "configs" \/ (pc \in {"head", "get", "move"} /\ manager # "validate")
       => setup.denied = {}
  /\ Pooled => Legacy \subseteq hurt
  /\ lost \subseteq hurt

StateInv == SavedInv /\ LegacyInv /\ MovedOnceInv /\ AccessInv

LEMMA StateInit == Init => StateInv
<1> SUFFICES ASSUME Init PROVE StateInv
  OBVIOUS
<1>1. \A g \in Group : Saves(g) = 0
  BY KeyOf DEF Init, Saves
<1>2. SavedInv /\ LegacyInv
  BY <1>1 DEF Init, SavedInv, LegacyInv, Legacy
<1> QED
  BY <1>2 DEF Init, StateInv, MovedOnceInv, AccessInv, Pooled

\* The facts of StateInv that only speak of the files.
LEMMA FilesKept ==
  ASSUME StateInv, UNCHANGED <<legacy, file, last>>, hurt \subseteq hurt'
  PROVE  SavedInv' /\ LegacyInv'
<1>1. Legacy' = Legacy /\ \A g \in Group : Saves(g)' = Saves(g)
  BY DEF Legacy, Saves
<1> QED
  BY <1>1 DEF StateInv, SavedInv, LegacyInv

\* A manager is built: the batch goes on only without an entry left, but
\* those of the groups that are hurt.
LEMMA BuiltState ==
  ASSUME CheckedSetups, SavedInv', LegacyInv', AccessInv, Built,
         pc \in {"head", "get", "move"}, UNCHANGED <<setup, manager>>,
         manager = "batch" => Legacy' \subseteq hurt',
         lost' \subseteq hurt'
  PROVE  StateInv'
<1>1. MovedOnceInv'
  BY DEF Built, MovedOnceInv, End
<1>2. AccessInv'
  <2>1. CASE manager = "reader" /\ readers > 1 /\ pc' = "head"
    BY <2>1 DEF AccessInv, Pooled
  <2>2. CASE pc' \in {"access", "idle"}
    BY <2>2 DEF AccessInv, Pooled
  <2>3. CASE manager = "batch" /\ pc' = "collect"
    BY <2>3 DEF AccessInv, Pooled
  <2> QED
    BY <2>1, <2>2, <2>3 DEF Built, End
<1> QED
  BY <1>1, <1>2 DEF StateInv

LEMMA MoveState ==
  ASSUME Inv, KeepInv, StateInv, DistinctKeys, NEW g \in Group, Move(g)
  PROVE  StateInv'
<1>1. /\ pc = "move" /\ pc' = "move" /\ g \in todo
      /\ UNCHANGED <<legacy, last, lost, hurt, setup, manager>>
  BY DEF Move, deployed, ghosts
<1>2. g \in Legacy
  BY <1>1 DEF Inv, PoolInv, KeepInv, MovedInv, Legacy
<1>3. LegacyInv' /\ AccessInv'
  BY <1>1 DEF StateInv, LegacyInv, AccessInv, Legacy, Pooled
<1>4. CASE May("put")
  <2>1. file' = [file EXCEPT ![StateKey(g)] = 1] /\ moved' = moved \cup {g}
    BY <1>4 DEF Move
  <2>2. ASSUME NEW h \in Group
        PROVE  Saves(h)' = IF h = g THEN 1 ELSE Saves(h)
    <3>1. file \in [Key -> Nat] /\ StateKey(h) \in Key
      BY KeyOf DEF Inv, TypeOK
    <3>2. h # g => StateKey(h) # StateKey(g)
      BY DEF DistinctKeys
    <3> QED
      BY <2>1, <3>1, <3>2 DEF Saves
  <2>3. g \notin hurt => last[g] = 1
    BY <1>2 DEF StateInv, LegacyInv
  <2>4. SavedInv'
    <3> SUFFICES ASSUME NEW h \in Group \ hurt
                 PROVE  \/ Saves(h)' = last[h]
                        \/ h \in Legacy /\ last[h] = 1 /\ Saves(h)' = 0
      BY <1>1 DEF SavedInv, Legacy
    <3> QED
      BY <2>2, <2>3 DEF StateInv, SavedInv
  <2>5. MovedOnceInv'
    <3>1. moved \subseteq Group
      BY DEF Inv, TypeOK
    <3>2. \A h \in moved' \ hurt' : Saves(h)' = 1
      BY <1>1, <2>1, <2>2, <3>1 DEF StateInv, MovedOnceInv
    <3> QED
      BY <3>2 DEF MovedOnceInv
  <2> QED
    BY <1>3, <2>4, <2>5 DEF StateInv
<1>5. CASE ~May("put")
  <2>1. UNCHANGED <<file, moved>>
    BY <1>5 DEF Move
  <2> QED
    BY <1>1, <1>3, <2>1 DEF StateInv, SavedInv, MovedOnceInv, Saves, Legacy
<1> QED
  BY <1>4, <1>5

\* The common file is only deleted when each entry of it was moved or is hurt.
LEMMA EndMigrationState ==
  ASSUME Inv, KeepInv, CheckedSetups, StateInv, EndMigration
  PROVE  StateInv'
<1>1. /\ pc = "move" /\ todo = {} /\ legacy # NoFile /\ Legacy = legacy
      /\ UNCHANGED <<setup, file, last, lost, hurt, manager>>
      /\ legacy' = IF moved # {} /\ May("delete") THEN NoFile ELSE legacy
  BY DEF EndMigration, Inv, PoolInv, deployed, ghosts, Legacy
<1>2. May("put") => legacy \subseteq moved \cup hurt
  BY <1>1 DEF KeepInv, MovedInv, StateInv, AccessInv
<1>3. moved # {} => \A g \in legacy \ hurt : Saves(g) = 1 /\ last[g] = 1
  BY <1>1, <1>2 DEF KeepInv, MovedInv, StateInv, MovedOnceInv, LegacyInv
<1>4. Legacy' = IF moved # {} /\ May("delete") THEN {} ELSE legacy
  BY <1>1 DEF Legacy
<1>5. LegacyInv'
  BY <1>1, <1>4 DEF StateInv, LegacyInv
<1>6. SavedInv'
  <2> SUFFICES ASSUME NEW g \in Group \ hurt
               PROVE  \/ Saves(g) = last[g]
                      \/ g \in Legacy' /\ last[g] = 1 /\ Saves(g) = 0
    BY <1>1 DEF SavedInv, Saves
  <2> QED
    BY <1>1, <1>3, <1>4 DEF StateInv, SavedInv
<1>7. manager = "batch" => Legacy' \subseteq hurt'
  <2> SUFFICES ASSUME manager = "batch" PROVE Legacy' \subseteq hurt
    BY <1>1
  <2>1. setup.denied = {}
    BY <1>1 DEF StateInv, AccessInv
  <2>2. May("put") /\ May("delete")
    BY <2>1 DEF May
  <2> QED
    BY <1>2, <1>4, <2>2
<1>8. AccessInv /\ lost' \subseteq hurt'
  BY <1>1 DEF StateInv, AccessInv
<1> QED
  BY <1>1, <1>5, <1>6, <1>7, <1>8, BuiltState DEF EndMigration

LEMMA SaveState ==
  ASSUME Inv, StateInv, DistinctKeys, NEW i \in Tasks,
         Save(i) \/ SaveOverDefault(i)
  PROVE  StateInv'
<1> DEFINE g == setup.groups[i]
<1>1. g \in Group /\ StateKey(g) \in Key
  BY GroupOf, KeyOf DEF Inv
<1>2. /\ Pooled /\ Legacy \subseteq hurt /\ pc # "move" /\ hurt \subseteq hurt'
      /\ UNCHANGED <<legacy, lost, setup, pc, manager>>
  BY DEF Save, SaveOverDefault, StateInv, AccessInv, Pooled, deployed, ghosts
<1>3. LegacyInv' /\ AccessInv' /\ MovedOnceInv'
  BY <1>2 DEF LegacyInv, AccessInv, MovedOnceInv, Legacy, Pooled, StateInv
<1>4. \A h \in Group \ hurt : Saves(h) = last[h]
  BY <1>2 DEF StateInv, SavedInv
<1>5. ASSUME NEW h \in Group \ hurt' PROVE Saves(h)' = last'[h]
  <2>1. Saves(h) = last[h]
    BY <1>2, <1>4
  <2>2. file \in [Key -> Nat] /\ last \in [Group -> Nat] /\ StateKey(h) \in Key
    BY KeyOf DEF Inv, TypeOK
  <2>3. h # g => StateKey(h) # StateKey(g)
    BY <1>1 DEF DistinctKeys
  <2>4. CASE UNCHANGED <<file, last>>
    BY <2>1, <2>4 DEF Saves
  <2>5. CASE /\ file' = [file EXCEPT ![StateKey(g)] = @ + 1]
             /\ last' = [last EXCEPT ![g] = @ + 1]
    <3>1. CASE h = g
      BY <1>1, <2>1, <2>2, <2>5, <3>1 DEF Saves
    <3>2. CASE h # g
      BY <1>1, <2>1, <2>2, <2>3, <2>5, <3>2 DEF Saves
    <3> QED
      BY <3>1, <3>2
  <2>6. CASE SaveOverDefault(i)
    <3>1. h # g
      BY <2>6 DEF SaveOverDefault
    <3> QED
      BY <1>1, <2>1, <2>2, <2>3, <2>6, <3>1 DEF SaveOverDefault, Saves
  <2> QED
    BY <2>4, <2>5, <2>6 DEF Save
<1> QED
  BY <1>3, <1>5 DEF StateInv, SavedInv

LEMMA StateStep ==
  ASSUME DistinctKeys, CheckedSetups, Inv, KeepInv, StateInv, [Next]_vars
  PROVE  StateInv'
<1> USE DEF deployed, ghosts, store, AccessInv, MovedOnceInv, Pooled
<1>1. CASE UNCHANGED vars
  <2>1. SavedInv' /\ LegacyInv'
    BY <1>1, FilesKept DEF vars
  <2>2. UNCHANGED <<legacy, file, lost, hurt, setup, pc, manager, moved>>
    BY <1>1 DEF vars, migration
  <2>3. Legacy' = Legacy /\ \A g \in moved : Saves(g)' = Saves(g)
    BY <2>2 DEF Legacy, Saves
  <2>4. MovedOnceInv' /\ AccessInv'
    BY <2>2, <2>3 DEF StateInv
  <2> QED
    BY <2>1, <2>4 DEF StateInv
<1>2. ASSUME UNCHANGED store,
             \/ pc' = "idle"
             \/ pc = "head" /\ pc' = "get" /\ UNCHANGED <<setup, manager>>
      PROVE  StateInv'
  <2>1. SavedInv' /\ LegacyInv'
    BY <1>2, FilesKept
  <2> QED
    BY <1>2, <2>1 DEF StateInv
<1>3. CASE Deploy
  BY <1>2, <1>3 DEF Deploy
<1>4. CASE \E m \in {"normal", "test"} : Start(m)
  <2>1. SavedInv' /\ LegacyInv'
    BY <1>4, FilesKept DEF Start
  <2>2. MovedOnceInv'
    BY <1>4 DEF Start, Build
  <2>3. AccessInv'
    <3>1. setup \in Setups
      BY DEF Inv, TypeOK
    <3> QED
      BY <1>4, <3>1 DEF Start, Build, CheckedSetups, StateInv
  <2> QED
    BY <2>1, <2>2, <2>3 DEF StateInv
<1>5. CASE Check
  <2>1. CASE legacy = NoFile
    <3>1. SavedInv' /\ LegacyInv' /\ Legacy' = {}
      BY <1>5, <2>1, FilesKept DEF Check, Legacy
    <3> QED
      BY <1>5, <2>1, <3>1, BuiltState DEF Check, StateInv
  <2>2. CASE legacy # NoFile
    BY <1>2, <1>5, <2>2 DEF Check
  <2> QED
    BY <2>1, <2>2
<1>6. CASE Get
  <2>1. SavedInv' /\ LegacyInv'
    BY <1>6, FilesKept DEF Get
  <2> QED
    BY <1>6, <2>1 DEF Get, StateInv
<1>7. CASE \E g \in Group : Move(g)
  BY <1>7, MoveState
<1>8. CASE \E g \in Group : MoveFails(g)
  <2>1. PICK g \in Group : MoveFails(g)
    BY <1>8
  <2>2. SavedInv' /\ LegacyInv'
    BY <2>1, FilesKept DEF MoveFails
  <2>3. MovedOnceInv'
    BY <2>1 DEF MoveFails, StateInv, Saves
  <2> QED
    BY <2>1, <2>2, <2>3 DEF MoveFails, StateInv
<1>9. CASE EndMigration
  BY <1>9, EndMigrationState
<1>10. CASE MigrationFails
  <2>1. hurt' = IF manager = "batch" THEN hurt \cup Legacy ELSE hurt
    BY <1>10 DEF MigrationFails
  <2>2. SavedInv' /\ LegacyInv' /\ Legacy' = Legacy
    BY <1>10, <2>1, FilesKept DEF MigrationFails, Legacy
  <2> QED
    BY <1>10, <2>1, <2>2, BuiltState DEF MigrationFails, StateInv
<1>11. CASE Access
  <2>1. SavedInv' /\ LegacyInv'
    BY <1>11, FilesKept DEF Access
  <2>2. May("put") /\ May("delete") => setup.denied = {}
    BY InvocationAssumption DEF May, Inv, TypeOK, Setup
  <2> QED
    BY <1>11, <2>1, <2>2 DEF Access, End, StateInv
<1>12. CASE Configs
  <2>1. SavedInv' /\ LegacyInv'
    BY <1>12, FilesKept DEF Configs
  <2> QED
    BY <1>12, <2>1 DEF Configs, End, Build, StateInv
<1>13. CASE \E i \in Tasks : Save(i) \/ SaveOverDefault(i)
  BY <1>13, SaveState
<1>14. CASE \/ \E i \in Tasks : BeginTask(i) \/ EndTask(i)
            \/ CollectTimeout \/ Collected
  <2>1. UNCHANGED <<store, setup, manager>> /\ Pooled
        /\ pc' \in {pc, "join", "answer"}
    BY <1>14 DEF BeginTask, EndTask, CollectTimeout, Collected
  <2>2. SavedInv' /\ LegacyInv'
    BY <2>1, FilesKept
  <2> QED
    BY <2>1, <2>2 DEF StateInv, Legacy
<1>15. CASE Answer \/ Kill \/ AccessFails
  BY <1>2, <1>15 DEF Answer, Kill, AccessFails, End
<1> QED
  BY <1>1, <1>3, <1>4, <1>5, <1>6, <1>7, <1>8, <1>9, <1>10, <1>11, <1>12, <1>13,
     <1>14, <1>15 DEF Next, Step

LEMMA StateAlways ==
  ASSUME DistinctKeys, CheckedSetups PROVE Spec => [](Inv /\ StateInv)
<1>1. Inv /\ KeepInv /\ StateInv /\ [Next]_vars => StateInv'
  BY StateStep
<1> QED
  BY <1>1, KeepAlways, StateInit, PTL DEF Spec

\* A task begins with the state its log group saved last, or with none when its
\* own load fails: the migration, which every manager repeats, never puts an
\* older one back, but for log groups hurt by a failing call of their own or of
\* the migration of the batch.
THEOREM TasksGoOn ==
  ASSUME DistinctKeys, CheckedSetups PROVE Spec => GoesOn
<1> DEFINE Good == \A i \in running' \ running :
                     LET g == setup.groups[i] IN
                     \/ loaded'[i] = last[g]
                     \/ g \in hurt
                     \/ "load" \in Faults /\ loaded'[i] = 0
<1>1. ASSUME Inv, StateInv, Next PROVE Good
  <2>1. ASSUME NEW i \in Tasks, BeginTask(i) PROVE Good
    <3>1. /\ running' = running \cup {i} /\ Pooled
          /\ loaded'[i] \in LoadedStates(setup.groups[i])
      BY <2>1 DEF BeginTask, Pooled
    <3>2. setup.groups[i] \in Group
      BY <1>1, GroupOf DEF Inv
    <3>3. \A g \in Group \ hurt : Saves(g) = last[g]
      BY <1>1, <3>1 DEF StateInv, SavedInv, AccessInv
    <3> QED
      BY <3>1, <3>2, <3>3 DEF LoadedStates
  <2>2. ASSUME running' \subseteq running PROVE Good
    BY <2>2
  <2>3. \/ \E i \in Tasks : BeginTask(i)
        \/ running' \subseteq running
    BY <1>1 DEF Next, Step, Deploy, Start, Check, Get, Move, MoveFails,
                EndMigration, MigrationFails, Access, AccessFails, Configs, Save,
                SaveOverDefault, EndTask, CollectTimeout, Collected, Answer, Kill,
                Built, End, NoTasks, pool
  <2> QED
    BY <2>1, <2>2, <2>3
<1>2. ASSUME Inv, StateInv, [Next]_vars PROVE [Good]_vars
  BY <1>1, <1>2
<1>3. GoesOn <=> [][Good]_vars
  BY DEF GoesOn
<1> HIDE DEF Good
<1> QED
  BY <1>2, <1>3, StateAlways, PTL DEF Spec
=============================================================================
