-------------------------- MODULE RuleCache_proofs --------------------------
(***************************************************************************)
(* Proofs about RuleCache, for any set, any threads and any queries: the   *)
(* types, the protocol of the lock, that the cache is exact, and that the   *)
(* answers are those for the whole set.                                    *)
(***************************************************************************)
EXTENDS RuleCache, SequenceTheorems, FiniteSetTheorems, WellFoundedInduction, TLAPS

Typing ==
  /\ contents \in Contents
  /\ cache \in Seq(Int) /\ complete \in BOOLEAN /\ over \in BOOLEAN
  /\ length \in Nat \cup {None}
  /\ lock \in Thread \cup {None}
  /\ pc \in [Thread -> PC] /\ pos \in [Thread -> Nat]
  /\ live \in [Thread -> BOOLEAN] /\ batch \in [Thread -> 0..Batch]
  /\ \A t \in Thread : pos[t] <= Len(cache)

\* Who produces holds the lock, and the end of the generator is known from the
\* moment it is noted to the moment the cache is complete.
Protocol ==
  /\ \A t \in Thread : pc[t] \in {"fill", "complete"} => lock = t
  /\ \A t \in Thread : pc[t] = "fill" => ~over /\ pos[t] + batch[t] <= Len(cache)
  /\ \A t \in Thread : pc[t] = "complete" => over
  /\ over => complete \/ \E t \in Thread : pc[t] = "complete"
  /\ complete => over
  /\ over => length = Len(cache)
  /\ ~over => length = None
  /\ \A t \in Thread : pc[t] = "idle" => pos[t] = 0
  /\ \A t \in Thread : pc[t] \in {"look", "take"} /\ ~live[t] => over
  /\ \A t \in Thread : pc[t] = "take" => pos[t] < Len(cache)

LockInv == Typing /\ Protocol

LEMMA NoneIsNew == None \notin Int /\ None \notin Thread /\ Batch \in Nat /\ Batch > 0
  BY CacheAssumption

LEMMA LockInvInit == Init => LockInv
<1> SUFFICES ASSUME Init PROVE LockInv OBVIOUS
<1> USE NoneIsNew DEF Init
<1>1. cache \in Seq(Int) /\ Len(cache) = 0 OBVIOUS
<1>2. pos \in [Thread -> Nat] /\ batch \in [Thread -> 0..Batch] OBVIOUS
<1>3. pc \in [Thread -> PC] /\ live \in [Thread -> BOOLEAN] BY DEF PC
<1>4. length \in Nat \cup {None} /\ lock \in Thread \cup {None} OBVIOUS
<1>5. \A t \in Thread : pos[t] <= Len(cache) BY <1>1
<1>6. contents \in Contents /\ complete \in BOOLEAN /\ over \in BOOLEAN OBVIOUS
<1>7. Typing BY ONLY <1>1, <1>2, <1>3, <1>4, <1>5, <1>6 DEF Typing
<1>8. Protocol BY <1>1 DEF Protocol
<1> QED BY <1>7, <1>8 DEF LockInv

LEMMA LockInvChange == LockInv /\ Change => LockInv'
<1> SUFFICES ASSUME LockInv, Change PROVE LockInv' OBVIOUS
<1> USE NoneIsNew DEF LockInv, Change, At, itVars
<1>1. cache' \in Seq(Int) /\ Len(cache') = 0 OBVIOUS
<1>2. length' \in Nat \cup {None} /\ lock' \in Thread \cup {None} OBVIOUS
<1>3. \A t \in Thread : pos'[t] <= Len(cache') BY <1>1 DEF Protocol
<1>4. /\ contents' \in Contents /\ complete' \in BOOLEAN /\ over' \in BOOLEAN
      /\ UNCHANGED <<pc, pos, live, batch>>
  OBVIOUS
<1>5. Typing' BY ONLY <1>1, <1>2, <1>3, <1>4, Typing DEF Typing
<1>6. Protocol' BY <1>1 DEF Protocol, Typing
<1> QED BY <1>5, <1>6

\* The steps that leave the set, its cache and its generator alone.
LEMMA LockInvRead ==
  ASSUME LockInv, NEW t \in Thread,
         Ask(t) \/ Start(t) \/ Look(t) \/ Take(t) \/ End(t) \/ Answered(t)
  PROVE  LockInv'
<1> USE NoneIsNew DEF LockInv, At, Goto, setVars, itVars
<1>0. UNCHANGED <<setVars, lock>>
  BY DEF Ask, Start, Look, Take, End, Answered
<1>1. CASE Ask(t)
  <2>1. Typing' BY <1>0, <1>1 DEF Typing, Ask, PC
  <2>2. Protocol' BY <1>0, <1>1 DEF Protocol, Typing, Ask
  <2> QED BY <2>1, <2>2
<1>2. CASE Start(t)
  <2>1. Typing' BY <1>0, <1>2 DEF Typing, Start, PC
  <2>2. Protocol' BY <1>0, <1>2 DEF Protocol, Typing, Start
  <2> QED BY <2>1, <2>2
<1>3. CASE Look(t)
  <2>1. Typing' BY <1>0, <1>3 DEF Typing, Look, PC
  <2>2. pc'[t] = "take" => pos[t] < Len(cache) BY <1>3 DEF Typing, Protocol, Look
  <2>3. Protocol' BY <1>0, <1>3, <2>2 DEF Protocol, Typing, Look
  <2> QED BY <2>1, <2>3
<1>4. CASE Take(t)
  <2>1. pos[t] \in Nat /\ pos[t] < Len(cache) BY <1>4 DEF Take, Protocol, Typing
  <2>2. CASE pos' = [pos EXCEPT ![t] = pos[t] + 1]
             /\ Goto(t, IF At(t, "list") THEN "list" ELSE "look")
    <3>1. Typing' BY <1>0, <1>4, <2>1, <2>2 DEF Typing, Take, PC
    <3>2. Protocol' BY <1>0, <1>4, <2>1, <2>2 DEF Protocol, Typing, Take
    <3> QED BY <3>1, <3>2
  <2>3. CASE UNCHANGED pos /\ Goto(t, "answer")
    <3>1. Typing' BY <1>0, <1>4, <2>3 DEF Typing, Take, PC
    <3>2. Protocol' BY <1>0, <1>4, <2>3 DEF Protocol, Typing, Take
    <3> QED BY <3>1, <3>2
  <2> QED BY <1>4, <2>2, <2>3 DEF Take, Return
<1>5. CASE End(t)
  <2>1. Typing' BY <1>0, <1>5 DEF Typing, End, Return, PC
  <2>2. Protocol' BY <1>0, <1>5 DEF Protocol, Typing, End, Return
  <2> QED BY <2>1, <2>2
<1>6. CASE Answered(t)
  <2>1. Typing' BY <1>0, <1>6 DEF Typing, Answered, PC
  <2>2. Protocol' BY <1>0, <1>6 DEF Protocol, Typing, Answered
  <2> QED BY <2>1, <2>2
<1> QED BY <1>1, <1>2, <1>3, <1>4, <1>5, <1>6

\* The steps under the lock.
LEMMA LockInvProduce ==
  ASSUME LockInv, NEW t \in Thread,
         Acquire(t) \/ Skip(t) \/ Fill(t) \/ Release(t) \/ Exhaust(t) \/ Finish(t),
         cache' = cache \/ \E dt \in Int : cache' = Append(cache, dt)
  PROVE  LockInv'
<1> USE NoneIsNew DEF LockInv, At, Goto, setVars, itVars
<1>1. CASE Acquire(t)
  <2>1. Typing' BY <1>1 DEF Typing, Acquire, PC
  <2>2. \A u \in Thread : pc[u] \notin {"fill", "complete"} BY <1>1 DEF Acquire, Protocol
  <2>3. over <=> complete BY <2>2 DEF Protocol
  <2>4. Protocol' BY <1>1, <2>2, <2>3 DEF Protocol, Typing, Acquire
  <2> QED BY <2>1, <2>4
<1>2. CASE Skip(t)
  <2>1. Typing' BY <1>2 DEF Typing, Skip
  <2>2. Protocol' BY <1>2 DEF Protocol, Skip
  <2> QED BY <2>1, <2>2
<1>3. CASE Fill(t)
  <2>1. /\ pc[t] = "fill" /\ batch[t] < Batch /\ lock = t /\ ~over
        /\ UNCHANGED <<contents, complete, over, length, lock, pc, pos, live>>
    BY <1>3 DEF Fill, Protocol
  <2>2. CASE UNCHANGED <<cache, batch>>
    <3>1. Typing' BY <2>1, <2>2 DEF Typing
    <3>2. Protocol' BY <2>1, <2>2 DEF Protocol
    <3> QED BY <3>1, <3>2
  <2>3. ASSUME NEW dt \in Int, cache' = Append(cache, dt),
               batch' = [batch EXCEPT ![t] = @ + 1]
        PROVE LockInv'
    <3>1. cache' \in Seq(Int) /\ Len(cache') = Len(cache) + 1 BY <2>3 DEF Typing
    <3>2. Typing' BY <2>1, <2>3, <3>1 DEF Typing
    <3>3. \A u \in Thread \ {t} : pc[u] \notin {"fill", "complete"} BY <2>1 DEF Protocol
    <3>4. Protocol' BY <2>1, <2>3, <3>1, <3>3 DEF Protocol, Typing
    <3> QED BY <3>2, <3>4
  <2>4. UNCHANGED <<cache, batch>>
        \/ \E dt : cache' = Append(cache, dt) /\ batch' = [batch EXCEPT ![t] = @ + 1]
    BY <1>3 DEF Fill
  <2>5. Len(cache) \in Nat BY DEF Typing
  <2>6. ASSUME NEW dt, cache' = Append(cache, dt), batch' = [batch EXCEPT ![t] = @ + 1]
        PROVE  LockInv'
    <3>1. cache' # cache BY <2>6, <2>5 DEF Typing
    <3>2. PICK d \in Int : cache' = Append(cache, d) BY <3>1
    <3> QED BY <2>3, <2>6, <3>2
  <2> QED BY <2>2, <2>4, <2>6
<1>4. CASE Release(t)
  <2>1. Typing' BY <1>4 DEF Typing, Release, PC
  <2>2. \A u \in Thread \ {t} : pc[u] \notin {"fill", "complete"}
    BY <1>4 DEF Protocol, Release
  <2>3. pos[t] < Len(cache) BY <1>4 DEF Protocol, Typing, Release
  <2>4. Protocol' BY <1>4, <2>2, <2>3 DEF Protocol, Typing, Release
  <2> QED BY <2>1, <2>4
<1>5. CASE Exhaust(t)
  <2>1. Typing' BY <1>5 DEF Typing, Exhaust, PC
  <2>2. \A u \in Thread \ {t} : pc[u] \notin {"fill", "complete"}
    BY <1>5 DEF Protocol, Exhaust
  <2>3. Protocol' BY <1>5, <2>2 DEF Protocol, Typing, Exhaust
  <2> QED BY <2>1, <2>3
<1>6. CASE Finish(t)
  <2>1. Typing' BY <1>6 DEF Typing, Finish, PC
  <2>2. Protocol' BY <1>6 DEF Protocol, Typing, Finish
  <2> QED BY <2>1, <2>2
<1> QED BY <1>1, <1>2, <1>3, <1>4, <1>5, <1>6

-----------------------------------------------------------------------------
(* The generator merges its sources without losing or repeating a date.     *)

In(x, sources) == \E k \in DOMAIN sources : \E j \in DOMAIN sources[k] : x = sources[k][j]

Ascending(sources) ==
  sources \in Seq(Seq(Int)) /\ \A k \in DOMAIN sources : Sorted(sources[k])

IsMember(x) == In(x, contents.include) /\ ~In(x, contents.exclude)

LEMMA InDates ==
  ASSUME NEW sources, NEW x
  PROVE  x \in Dates(sources) <=> In(x, sources)
BY DEF Dates, In

\* The first of a source, and the rest of it.
LEMMA SourceTail ==
  ASSUME NEW s \in Seq(Int), Sorted(s), s # <<>>
  PROVE  /\ Tail(s) \in Seq(Int) /\ Sorted(Tail(s))
         /\ Head(s) \in Int /\ 1 \in DOMAIN s /\ Head(s) = s[1]
         /\ \A j \in DOMAIN s : Head(s) <= s[j]
         /\ \A j \in DOMAIN Tail(s) : j + 1 \in DOMAIN s /\ Tail(s)[j] = s[j + 1]
         /\ \A j \in DOMAIN s : j # 1 => j - 1 \in DOMAIN Tail(s) /\ Tail(s)[j - 1] = s[j]
<1>1. Len(s) \in Nat /\ Len(s) > 0 /\ DOMAIN s = 1..Len(s) /\ s \in [1..Len(s) -> Int]
  OBVIOUS
<1>2. Tail(s) \in Seq(Int) /\ Len(Tail(s)) = Len(s) - 1 /\ DOMAIN Tail(s) = 1..(Len(s) - 1)
  BY <1>1
<1>3. \A j \in 1..(Len(s) - 1) : Tail(s)[j] = s[j + 1] BY <1>1
<1>4. Head(s) = s[1] /\ 1 \in DOMAIN s BY <1>1
<1>5. \A j \in DOMAIN s : Head(s) <= s[j]
  <2> TAKE j \in DOMAIN s
  <2>1. CASE j = 1 BY <2>1, <1>1, <1>4
  <2>2. CASE j # 1 BY <2>2, <1>1, <1>4 DEF Sorted
  <2> QED BY <2>1, <2>2
<1>6. Sorted(Tail(s)) BY <1>1, <1>2, <1>3 DEF Sorted
<1> QED BY <1>1, <1>2, <1>3, <1>4, <1>5, <1>6

\* Taking the first date of a source leaves all the others.
LEMMA TakenOne ==
  ASSUME NEW sources, Ascending(sources), NEW k \in Open(sources)
  PROVE  LET rest == [sources EXCEPT ![k] = Tail(@)]
         IN  /\ Ascending(rest)
             /\ Head(sources[k]) \in Int /\ In(Head(sources[k]), sources)
             /\ \A x : In(x, rest) => In(x, sources)
             /\ \A x : In(x, sources) => x = Head(sources[k]) \/ In(x, rest)
<1> DEFINE rest == [sources EXCEPT ![k] = Tail(@)]
           s == sources[k]
<1>1. /\ k \in DOMAIN sources /\ s \in Seq(Int) /\ Sorted(s) /\ s # <<>>
  BY DEF Ascending, Open
<1>2. DOMAIN rest = DOMAIN sources /\ rest[k] = Tail(s)
      /\ \A l \in DOMAIN sources \ {k} : rest[l] = sources[l]
  BY <1>1
<1>3. Tail(s) \in Seq(Int) /\ Sorted(Tail(s)) BY <1>1, SourceTail
<1>4. rest \in Seq(Seq(Int)) BY <1>1, <1>3 DEF Ascending
<1>5. Ascending(rest) BY <1>2, <1>3, <1>4 DEF Ascending
<1> HIDE DEF rest, s
<1>6. s[1] = Head(s) /\ 1 \in DOMAIN s /\ Head(s) \in Int BY <1>1, SourceTail
<1>7. In(Head(s), sources) BY <1>1, <1>6 DEF In, s
<1>8. ASSUME NEW x, In(x, rest) PROVE In(x, sources)
  <2>1. PICK l \in DOMAIN rest : \E j \in DOMAIN rest[l] : x = rest[l][j] BY <1>8 DEF In
  <2>2. CASE l = k
    <3>1. PICK j \in DOMAIN Tail(s) : x = Tail(s)[j] BY <2>1, <2>2, <1>2
    <3>2. j + 1 \in DOMAIN s /\ x = s[j + 1] BY <3>1, <1>1, SourceTail
    <3> QED BY <3>2, <1>1 DEF In, s
  <2>3. CASE l # k BY <2>1, <2>3, <1>2 DEF In
  <2> QED BY <2>2, <2>3
<1>9. ASSUME NEW x, In(x, sources) PROVE x = Head(s) \/ In(x, rest)
  <2>1. PICK l \in DOMAIN sources : \E j \in DOMAIN sources[l] : x = sources[l][j]
    BY <1>9 DEF In
  <2>2. CASE l = k
    <3>1. PICK j \in DOMAIN s : x = s[j] BY <2>1, <2>2 DEF s
    <3>2. CASE j = 1 BY <3>1, <3>2, <1>6
    <3>3. CASE j # 1
      <4>1. j - 1 \in DOMAIN Tail(s) /\ x = Tail(s)[j - 1] BY <3>1, <3>3, <1>1, SourceTail
      <4> QED BY <4>1, <1>1, <1>2 DEF In
    <3> QED BY <3>2, <3>3
  <2>3. CASE l # k BY <2>1, <2>3, <1>2 DEF In
  <2> QED BY <2>2, <2>3
<1> QED BY <1>5, <1>6, <1>7, <1>8, <1>9 DEF rest, s

\* A date that is the first of all comes before whatever is left.
LEMMA TopFirst ==
  ASSUME NEW sources, Ascending(sources), NEW d \in Int,
         \A l \in Open(sources) : d <= Head(sources[l]),
         NEW x, In(x, sources)
  PROVE  x \in Int /\ d <= x
<1>1. PICK l \in DOMAIN sources : \E j \in DOMAIN sources[l] : x = sources[l][j] BY DEF In
<1>2. sources[l] \in Seq(Int) /\ Sorted(sources[l]) BY <1>1 DEF Ascending
<1>3. PICK j \in DOMAIN sources[l] : x = sources[l][j] BY <1>1
<1>4. sources[l] # <<>> /\ sources[l][j] \in Int BY <1>2, <1>3
<1>5. Head(sources[l]) <= sources[l][j] /\ Head(sources[l]) \in Int BY <1>2, <1>4, SourceTail
<1>6. d <= Head(sources[l]) BY <1>1, <1>4 DEF Open
<1> QED BY <1>3, <1>4, <1>5, <1>6

\* What the generator gave and what it has left make up the set.
Merge ==
  /\ gen.last \in Int \cup {None}
  /\ Ascending(gen.include) /\ Ascending(gen.exclude)
  /\ gen.last = None => cache = <<>>
  /\ gen.last # None => \A x : In(x, gen.include) => gen.last <= x
  /\ gen.last # None => \A j \in 1..Len(cache) : cache[j] <= gen.last
  /\ \A i, j \in 1..Len(cache) : i < j => cache[i] < cache[j]
  /\ \A j \in 1..Len(cache) : IsMember(cache[j])
  /\ \A x : IsMember(x) => In(x, gen.include) \/ \E j \in 1..Len(cache) : cache[j] = x
  /\ \A x : In(x, gen.include) => In(x, contents.include)
  /\ \A x : In(x, gen.exclude) => In(x, contents.exclude)
  /\ \A x, y : In(x, contents.exclude) /\ ~In(x, gen.exclude) /\ In(y, gen.include) => x < y
  /\ gen.last # None /\ IsMember(gen.last) => \E j \in 1..Len(cache) : cache[j] = gen.last
  /\ over => Open(gen.include) = {}

LEMMA MergeStart ==
  ASSUME contents \in Contents, gen = NewGenerator(contents), cache = <<>>, ~over
  PROVE  Merge
<1>1. gen.include = contents.include /\ gen.exclude = contents.exclude /\ gen.last = None
  BY DEF NewGenerator
<1>2. Ascending(contents.include) /\ Ascending(contents.exclude)
  BY CacheAssumption DEF Ascending
<1>3. Len(cache) = 0 OBVIOUS
<1>4. \A j \in 1..Len(cache) : FALSE BY <1>3
<1>5. \A x : IsMember(x) => In(x, gen.include) BY <1>1 DEF IsMember
<1> QED BY ONLY <1>1, <1>2, <1>4, <1>5, cache = <<>>, ~over DEF Merge

\* The generator drops an excluded date.
LEMMA MergeSkip ==
  ASSUME Merge, NEW t \in Thread, Skip(t)
  PROVE  Merge'
<1>1. PICK k \in DOMAIN gen.include, e \in DOMAIN gen.exclude :
        /\ IsTop(gen, k) /\ Behind(gen, e, Head(gen.include[k]))
        /\ gen' = [include |-> gen.include, last |-> gen.last,
                   exclude |-> [gen.exclude EXCEPT ![e] = Tail(@)]]
  BY DEF Skip
<1> DEFINE dt == Head(gen.include[k])
           rest == [gen.exclude EXCEPT ![e] = Tail(@)]
           x0 == Head(gen.exclude[e])
<1>2. gen'.include = gen.include /\ gen'.last = gen.last /\ gen'.exclude = rest BY <1>1
<1>3. UNCHANGED <<contents, cache, over>> BY DEF Skip
<1>4. k \in Open(gen.include) /\ e \in Open(gen.exclude) /\ x0 < dt
  BY <1>1 DEF IsTop, Behind
<1>5. Ascending(gen.include) /\ Ascending(gen.exclude) BY DEF Merge
<1>6. /\ Ascending(rest) /\ x0 \in Int
      /\ \A x : In(x, rest) => In(x, gen.exclude)
      /\ \A x : In(x, gen.exclude) => x = x0 \/ In(x, rest)
  BY <1>4, <1>5, TakenOne
<1>7. dt \in Int BY <1>4, <1>5, TakenOne
<1>8. \A l \in Open(gen.include) : dt <= Head(gen.include[l]) BY <1>1 DEF IsTop
<1> HIDE DEF dt, rest, x0
<1>9. \A y : In(y, gen.include) => y \in Int /\ x0 < y
  <2> SUFFICES ASSUME NEW y, In(y, gen.include) PROVE y \in Int /\ x0 < y OBVIOUS
  <2>1. y \in Int /\ dt <= y BY <1>5, <1>7, <1>8, TopFirst
  <2> QED BY <2>1, <1>4, <1>6, <1>7
<1>10. \A x, y : In(x, contents.exclude) /\ ~In(x, rest) /\ In(y, gen.include) => x < y
  BY <1>6, <1>9 DEF Merge
<1>11. \A x : In(x, rest) => In(x, contents.exclude) BY <1>6 DEF Merge
<1> QED BY <1>2, <1>3, <1>6, <1>10, <1>11 DEF Merge, IsMember

\* The generator gives its first date, or leaves it out: it came before, or is
\* excluded.
LEMMA MergeFill ==
  ASSUME LockInv, Merge, NEW t \in Thread, Fill(t)
  PROVE  /\ Merge'
         /\ cache' = cache \/ \E dt \in Int : cache' = Append(cache, dt)
<1>1. PICK k \in DOMAIN gen.include :
        LET dt == Head(gen.include[k])
        IN  /\ IsTop(gen, k)
            /\ dt # gen.last => \A e \in Open(gen.exclude) : dt <= Head(gen.exclude[e])
            /\ gen' = Turned(gen, k)
            /\ IF Yields(gen, dt) THEN cache' = Append(cache, dt) ELSE UNCHANGED cache
  BY DEF Fill
<1> DEFINE dt == Head(gen.include[k])
           rest == [gen.include EXCEPT ![k] = Tail(@)]
<1>2. gen'.include = rest /\ gen'.last = dt /\ gen'.exclude = gen.exclude
  BY <1>1 DEF Turned
<1>3. UNCHANGED <<contents, over>> /\ ~over BY DEF Fill, LockInv, Protocol, At
<1>4. k \in Open(gen.include) BY <1>1 DEF IsTop
<1>5. Ascending(gen.include) /\ Ascending(gen.exclude) BY DEF Merge
<1>6. /\ Ascending(rest) /\ dt \in Int /\ In(dt, gen.include)
      /\ \A x : In(x, rest) => In(x, gen.include)
      /\ \A x : In(x, gen.include) => x = dt \/ In(x, rest)
  BY <1>4, <1>5, TakenOne
<1>7. \A l \in Open(gen.include) : dt <= Head(gen.include[l]) BY <1>1 DEF IsTop
<1>8. dt # gen.last => \A e \in Open(gen.exclude) : dt <= Head(gen.exclude[e]) BY <1>1
<1>9. \/ Yields(gen, dt) /\ cache' = Append(cache, dt)
      \/ ~Yields(gen, dt) /\ cache' = cache
  BY <1>1
<1> HIDE DEF dt, rest
<1>10. \A y : In(y, gen.include) => y \in Int /\ dt <= y
  <2> SUFFICES ASSUME NEW y, In(y, gen.include) PROVE y \in Int /\ dt <= y OBVIOUS
  <2> QED BY <1>5, <1>6, <1>7, TopFirst
<1>11. dt # None BY <1>6, NoneIsNew
<1>12. cache \in Seq(Int) /\ Len(cache) \in Nat /\ \A j \in 1..Len(cache) : cache[j] \in Int
  BY DEF LockInv, Typing
<1>13. gen.last \in Int \cup {None} /\ (gen.last # None => gen.last <= dt)
  BY <1>6 DEF Merge
<1>14. \A j \in 1..Len(cache) : cache[j] <= dt
  <2> TAKE j \in 1..Len(cache)
  <2>1. CASE gen.last = None
    <3>1. Len(cache) = 0 BY <2>1 DEF Merge
    <3> QED BY <3>1
  <2>2. CASE gen.last # None
    <3>1. cache[j] <= gen.last BY <2>2 DEF Merge
    <3> QED BY <3>1, <2>2, <1>12, <1>13, <1>6
  <2> QED BY <2>1, <2>2
\* What holds whether the date is given or not.
<1>15. /\ \A x : In(x, gen'.include) => In(x, contents'.include)
       /\ \A x : In(x, gen'.exclude) => In(x, contents'.exclude)
       /\ \A x, y : In(x, contents'.exclude) /\ ~In(x, gen'.exclude) /\ In(y, gen'.include)
                    => x < y
       /\ \A x : In(x, gen'.include) => gen'.last <= x
       /\ gen'.last \in Int /\ gen'.last # None
       /\ Ascending(gen'.include) /\ Ascending(gen'.exclude)
  BY <1>2, <1>3, <1>5, <1>6, <1>10, <1>11 DEF Merge
<1>16. CASE Yields(gen, dt) /\ cache' = Append(cache, dt)
  <2>1. dt # gen.last /\ \A e \in Open(gen.exclude) : dt # Head(gen.exclude[e])
    BY <1>16 DEF Yields
  <2>2. /\ Len(cache') = Len(cache) + 1 /\ cache'[Len(cache) + 1] = dt
        /\ \A j \in 1..Len(cache) : cache'[j] = cache[j]
    BY <1>16, <1>12
  <2>3. \A j \in 1..Len(cache) : cache[j] < dt
    <3> TAKE j \in 1..Len(cache)
    <3>1. gen.last # None
      <4> SUFFICES ASSUME gen.last = None PROVE FALSE OBVIOUS
      <4>1. Len(cache) = 0 BY DEF Merge
      <4> QED BY <4>1
    <3>2. cache[j] <= gen.last BY <3>1 DEF Merge
    <3> QED BY <3>1, <3>2, <2>1, <1>12, <1>13, <1>6
  <2>4. IsMember(dt)
    <3>1. In(dt, contents.include) BY <1>6 DEF Merge
    <3>2. SUFFICES ASSUME In(dt, contents.exclude) PROVE FALSE BY <3>1 DEF IsMember
    <3>3. In(dt, gen.exclude)
      <4> SUFFICES ASSUME ~In(dt, gen.exclude) PROVE FALSE OBVIOUS
      <4>1. dt < dt BY <3>2, <1>6 DEF Merge
      <4> QED BY <4>1, <1>6
    <3>4. PICK e \in DOMAIN gen.exclude : \E j \in DOMAIN gen.exclude[e] : dt = gen.exclude[e][j]
      BY <3>3 DEF In
    <3>5. gen.exclude[e] \in Seq(Int) /\ Sorted(gen.exclude[e]) BY <3>4, <1>5 DEF Ascending
    <3>6. gen.exclude[e] # <<>> BY <3>4, <3>5
    <3>7. Head(gen.exclude[e]) <= dt /\ Head(gen.exclude[e]) \in Int
      BY <3>4, <3>5, <3>6, SourceTail
    <3>8. e \in Open(gen.exclude) BY <3>4, <3>6 DEF Open
    <3>9. dt <= Head(gen.exclude[e]) /\ dt # Head(gen.exclude[e]) BY <3>8, <2>1, <1>8
    <3> QED BY <3>7, <3>9, <1>6
  <2>5. \A j \in 1..Len(cache') : cache'[j] = dt \/ \E i \in 1..Len(cache) : i = j /\ cache'[j] = cache[i]
    BY <2>2, <1>12
  <2>6. \A j \in 1..Len(cache') : cache'[j] <= dt BY <2>5, <1>14, <1>6
  <2>7. \A i, j \in 1..Len(cache') : i < j => cache'[i] < cache'[j]
    <3> TAKE i, j \in 1..Len(cache')
    <3> HAVE i < j
    <3>1. i \in 1..Len(cache) BY <2>2, <1>12
    <3>2. CASE j \in 1..Len(cache) BY <3>1, <3>2, <2>2 DEF Merge
    <3>3. CASE j = Len(cache) + 1 BY <3>1, <3>3, <2>2, <2>3
    <3> QED BY <3>2, <3>3, <2>2, <1>12
  <2>8. \A j \in 1..Len(cache') : IsMember(cache'[j])
    <3>1. \A j \in 1..Len(cache) : IsMember(cache[j]) BY DEF Merge
    <3> TAKE j \in 1..Len(cache')
    <3>2. CASE cache'[j] = dt BY <3>2, <2>4
    <3>3. CASE \E i \in 1..Len(cache) : i = j /\ cache'[j] = cache[i] BY <3>1, <3>3
    <3> QED BY <3>2, <3>3, <2>5
  <2>9. \E j \in 1..Len(cache') : cache'[j] = dt BY <2>2, <1>12
  <2>10. \A x : (\E j \in 1..Len(cache) : cache[j] = x) => \E j \in 1..Len(cache') : cache'[j] = x
    BY <2>2, <1>12
  <2>11. \A x : IsMember(x) => In(x, rest) \/ \E j \in 1..Len(cache') : cache'[j] = x
    BY <2>9, <2>10, <1>6 DEF Merge
  <2>12. Merge'
    BY ONLY <1>15, <1>2, <1>3, <2>6, <2>7, <2>8, <2>9, <2>11 DEF Merge, IsMember
  <2> QED BY <2>12, <1>16, <1>6
<1>17. CASE ~Yields(gen, dt) /\ cache' = cache
  <2>1. IsMember(dt) => \E j \in 1..Len(cache) : cache[j] = dt
    <3>1. CASE dt = gen.last BY <3>1, <1>11 DEF Merge
    <3>2. CASE dt # gen.last
      <4>1. PICK e \in Open(gen.exclude) : dt = Head(gen.exclude[e])
        BY <3>2, <1>17 DEF Yields
      <4>2. In(dt, gen.exclude) BY <4>1, <1>5, TakenOne
      <4>3. ~IsMember(dt) BY <4>2 DEF Merge, IsMember
      <4> QED BY <4>3
    <3> QED BY <3>1, <3>2
  <2>2. \A x : IsMember(x) => In(x, rest) \/ \E j \in 1..Len(cache) : cache[j] = x
    BY <2>1, <1>6 DEF Merge
  <2>3. Merge'
    BY <1>15, <1>2, <1>3, <1>14, <1>17, <2>1, <2>2 DEF Merge, IsMember
  <2> QED BY <2>3, <1>17
<1> QED BY <1>9, <1>16, <1>17

-----------------------------------------------------------------------------
(* The theorems.                                                            *)

Inv == LockInv /\ Merge

LEMMA InvInit == Init => Inv
<1> SUFFICES ASSUME Init PROVE Inv OBVIOUS
<1>1. contents \in Contents /\ gen = NewGenerator(contents) /\ cache = <<>> /\ ~over
  BY DEF Init
<1>2. Merge BY <1>1, MergeStart
<1> QED BY <1>2, LockInvInit DEF Inv

LEMMA InvStep == Inv /\ [Next]_vars => Inv'
<1> SUFFICES ASSUME Inv, [Next]_vars PROVE Inv' OBVIOUS
<1> USE DEF Inv
<1>1. CASE Change
  <2>1. /\ contents' \in Contents /\ gen' = NewGenerator(contents')
        /\ cache' = <<>> /\ ~over'
    BY <1>1 DEF Change
  <2>2. (contents \in Contents /\ gen = NewGenerator(contents) /\ cache = <<>> /\ ~over
          => Merge)'
    BY MergeStart, PTL
  <2>3. Merge' BY <2>1, <2>2
  <2> QED BY <2>3, <1>1, LockInvChange
<1>2. ASSUME NEW t \in Thread, Ask(t) \/ Go(t) PROVE Inv'
  <2>1. CASE Ask(t) \/ Start(t) \/ Look(t) \/ Take(t) \/ End(t) \/ Answered(t)
    <3>1. UNCHANGED <<contents, cache, gen, over>>
      BY <2>1 DEF Ask, Start, Look, Take, End, Answered, setVars
    <3>2. Merge' BY <3>1 DEF Merge, IsMember
    <3> QED BY <3>2, <2>1, LockInvRead
  <2>2. CASE Acquire(t) \/ Release(t) \/ Finish(t)
    <3>1. UNCHANGED <<contents, cache, gen, over>>
      BY <2>2 DEF Acquire, Release, Finish, setVars
    <3>2. Merge' BY <3>1 DEF Merge, IsMember
    <3> QED BY <3>1, <3>2, <2>2, LockInvProduce
  <2>3. CASE Skip(t)
    <3>1. cache' = cache BY <2>3 DEF Skip
    <3> QED BY <3>1, <2>3, MergeSkip, LockInvProduce
  <2>4. CASE Fill(t) BY <2>4, MergeFill, LockInvProduce
  <2>5. CASE Exhaust(t)
    <3>1. UNCHANGED <<contents, cache, gen>> /\ Open(gen.include) = {}
      BY <2>5 DEF Exhaust
    <3>2. Merge' BY <3>1 DEF Merge, IsMember
    <3> QED BY <3>1, <3>2, <2>5, LockInvProduce
  <2> QED BY <1>2, <2>1, <2>2, <2>3, <2>4, <2>5 DEF Go
<1>3. CASE UNCHANGED vars
  <2>1. /\ UNCHANGED <<contents, cache, complete, gen, over, length, lock>>
        /\ UNCHANGED <<pc, pos, live, batch>>
    BY <1>3 DEF vars, setVars, itVars
  <2>2. Merge' BY <2>1 DEF Merge, IsMember
  <2>3. LockInv' BY <2>1 DEF LockInv, Typing, Protocol
  <2> QED BY <2>2, <2>3
<1> QED BY <1>1, <1>2, <1>3 DEF Next

LEMMA InvAlways == Spec => []Inv
BY InvInit, InvStep, PTL DEF Spec

LEMMA ExactInv == Inv => CacheExact
<1> SUFFICES ASSUME Inv PROVE CacheExact OBVIOUS
<1>1. cache \in Seq(Int) /\ Len(cache) \in Nat /\ DOMAIN cache = 1..Len(cache)
  BY DEF Inv, LockInv, Typing
<1>2. \A x : x \in Members <=> IsMember(x) BY InDates DEF Members, IsMember
<1>3. \A x : x \in Results <=> \E j \in 1..Len(cache) : cache[j] = x BY <1>1 DEF Results
<1>4. \A j \in 1..(Len(cache) - 1) : cache[j] < cache[j + 1]
  <2> TAKE j \in 1..(Len(cache) - 1)
  <2>1. j \in 1..Len(cache) /\ j + 1 \in 1..Len(cache) /\ j < j + 1 BY <1>1
  <2> QED BY <2>1 DEF Inv, Merge
<1>5. ASSUME NEW x \in Members, cache # <<>>, x <= cache[Len(cache)]
      PROVE  x \in Results
  <2>1. Len(cache) \in 1..Len(cache) /\ cache[Len(cache)] \in Int BY <1>1, <1>5
  <2>2. gen.last # None /\ gen.last \in Int /\ cache[Len(cache)] <= gen.last
    BY <2>1, <1>5 DEF Inv, Merge
  <2>3. SUFFICES ASSUME In(x, gen.include) PROVE x \in Results
    BY <1>2, <1>3 DEF Inv, Merge
  <2>4. gen.last <= x BY <2>2, <2>3 DEF Inv, Merge
  <2>5. PICK k \in DOMAIN gen.include : \E j \in DOMAIN gen.include[k] : x = gen.include[k][j]
    BY <2>3 DEF In
  <2>6. gen.include[k] \in Seq(Int) BY <2>5 DEF Inv, Merge, Ascending
  <2>7. x \in Int BY <2>5, <2>6
  <2>8. x = gen.last BY <2>1, <2>2, <2>4, <2>7, <1>5
  <2> QED BY <2>2, <2>8, <1>2, <1>3 DEF Inv, Merge
<1>6. length # None => length = Len(cache) /\ Results = Members
  <2> SUFFICES ASSUME length # None PROVE length = Len(cache) /\ Results = Members
    OBVIOUS
  <2>1. over /\ length = Len(cache) BY DEF Inv, LockInv, Protocol
  <2>2. \A x : ~In(x, gen.include)
    <3> SUFFICES ASSUME NEW x, In(x, gen.include) PROVE FALSE OBVIOUS
    <3>1. PICK k \in DOMAIN gen.include : \E j \in DOMAIN gen.include[k] : TRUE BY DEF In
    <3>2. gen.include[k] # <<>> BY <3>1 DEF Inv, Merge, Ascending
    <3>3. k \in Open(gen.include) BY <3>1, <3>2 DEF Open
    <3> QED BY <3>3, <2>1 DEF Inv, Merge
  <2>3. \A x : x \in Members <=> x \in Results
    BY <2>2, <1>2, <1>3 DEF Inv, Merge
  <2> QED BY <2>1, <2>3
<1> QED BY <1>4, <1>5, <1>6 DEF CacheExact

-----------------------------------------------------------------------------
(* Ascending sequences of dates.                                            *)

Rising(s) == s \in Seq(Int) /\ \A i, j \in 1..Len(s) : i < j => s[i] < s[j]

Elements(s) == {s[j] : j \in 1..Len(s)}

\* The least element of T is the k whose T \cap (0..k) is smallest: strict
\* inclusion of finite sets is well-founded.
LEMMA LeastNatural ==
  ASSUME NEW T \in SUBSET Nat, T # {}
  PROVE  \E t \in T : \A u \in T : t <= u
<1> DEFINE Below(k) == T \cap (0..k)
           D == {Below(k) : k \in T}
<1>1. D \subseteq FiniteSubsetsOf(Nat)
  <2> SUFFICES ASSUME NEW k \in T PROVE Below(k) \in FiniteSubsetsOf(Nat)
    OBVIOUS
  <2>1. IsFiniteSet(0..k)
    BY FS_Interval
  <2>2. IsFiniteSet(Below(k))
    BY <2>1, FS_Subset
  <2> QED
    BY <2>2 DEF FiniteSubsetsOf
<1>2. D # {}
  OBVIOUS
<1>3. IsWellFoundedOn(StrictSubsetOrdering(Nat), FiniteSubsetsOf(Nat))
  BY FS_StrictSubsetOrderingWellFounded
<1>4. \E B \in D : \A C \in D : ~ (<<C, B>> \in StrictSubsetOrdering(Nat))
  <2> HIDE DEF D
  <2> QED
    BY <1>1, <1>2, <1>3, WFMin
<1>5. PICK k \in T : \A u \in T : <<Below(u), Below(k)>> \notin StrictSubsetOrdering(Nat)
  BY <1>4
<1>6. ASSUME NEW u \in T, ~ (k <= u) PROVE FALSE
  <2>1. Below(u) \subseteq Below(k) /\ Below(u) # Below(k)
    <3>1. k \in Below(k) /\ k \notin Below(u)
      BY <1>6
    <3>2. Below(u) \subseteq Below(k)
      BY <1>6
    <3> QED
      BY <3>1, <3>2
  <2>2. Below(u) \in SUBSET Nat /\ Below(k) \in SUBSET Nat
    OBVIOUS
  <2> HIDE DEF Below
  <2>3. <<Below(u), Below(k)>> \in StrictSubsetOrdering(Nat)
    BY <2>1, <2>2 DEF StrictSubsetOrdering
  <2> QED
    BY <2>3, <1>5
<1> QED
  BY <1>6


\* The last one is the greatest.
LEMMA LastOf ==
  ASSUME NEW s, Rising(s)
  PROVE  IsLast(IF s = <<>> THEN None ELSE s[Len(s)], Elements(s))
<1>1. s \in Seq(Int) /\ Len(s) \in Nat /\ \A j \in 1..Len(s) : s[j] \in Int
  BY DEF Rising
<1>2. CASE s = <<>> BY <1>2 DEF IsLast, Elements
<1>3. CASE s # <<>>
  <2>1. Len(s) \in 1..Len(s) BY <1>1, <1>3
  <2>2. \A j \in 1..Len(s) : s[j] <= s[Len(s)] BY <1>1, <2>1 DEF Rising
  <2> QED BY <1>3, <2>1, <2>2 DEF IsLast, Elements
<1> QED BY <1>2, <1>3

\* Those from the first on that is past a date.
LEMMA Suffix ==
  ASSUME NEW s, Rising(s), NEW d \in Int, NEW inc \in BOOLEAN
  PROVE  LET started == {j \in DOMAIN s : Past(s[j], d, inc)}
         IN  IsListing(IF started = {} THEN <<>> ELSE SubSeq(s, Min(started), Len(s)),
                       {x \in Elements(s) : Past(x, d, inc)})
<1> DEFINE started == {j \in DOMAIN s : Past(s[j], d, inc)}
           dates == {x \in Elements(s) : Past(x, d, inc)}
<1>1. /\ s \in Seq(Int) /\ Len(s) \in Nat /\ DOMAIN s = 1..Len(s)
      /\ \A j \in 1..Len(s) : s[j] \in Int
  BY DEF Rising
<1>2. CASE started = {}
  <2>1. dates = {} BY <1>1, <1>2 DEF Elements
  <2> QED BY <1>2, <2>1 DEF IsListing
<1>3. CASE started # {}
  <2> DEFINE m == Min(started)
             r == SubSeq(s, m, Len(s))
  <2>1. started \in SUBSET Nat BY <1>1
  <2>2. m \in started /\ \A j \in started : m <= j
    <3> HIDE DEF started
    <3> QED BY <2>1, <1>3, LeastNatural DEF Min
  <2>3. m \in 1..Len(s) /\ Past(s[m], d, inc) BY <2>2, <1>1
  <2> HIDE DEF m
  <2>4. \A j \in m..Len(s) : s[j] \in Int BY <2>3, <1>1
  <2>5. /\ r \in Seq(Int) /\ Len(r) = Len(s) - m + 1
        /\ \A j \in 1..(Len(s) - m + 1) : r[j] = s[m + j - 1]
    BY <2>3, <2>4, <1>1, SubSeqProperties
  <2> HIDE DEF r
  <2>6. DOMAIN r = 1..(Len(s) - m + 1) BY <2>5
  <2>10. m \in Nat /\ Len(s) \in Nat /\ 1 <= m /\ m <= Len(s) BY <2>3, <1>1
  <2>11. \A j \in DOMAIN r : j \in Nat /\ m + j - 1 \in 1..Len(s) /\ m <= m + j - 1
    BY ONLY <2>10, <2>6
  <2>7. \A i, j \in DOMAIN r : i < j => r[i] < r[j]
    <3> SUFFICES ASSUME NEW i \in DOMAIN r, NEW j \in DOMAIN r, i < j
                 PROVE  r[i] < r[j]
      OBVIOUS
    <3>1. m + i - 1 \in 1..Len(s) /\ m + j - 1 \in 1..Len(s) /\ m + i - 1 < m + j - 1
      BY <2>10, <2>11
    <3>2. s[m + i - 1] < s[m + j - 1] BY <3>1 DEF Rising
    <3> QED BY <3>2, <2>5, <2>6
  <2>8. \A x : x \in {r[j] : j \in DOMAIN r} <=> x \in dates
    <3>1. ASSUME NEW j \in DOMAIN r PROVE r[j] \in dates
      <4>1. m + j - 1 \in 1..Len(s) /\ m <= m + j - 1 /\ r[j] = s[m + j - 1]
        BY <2>11, <2>5, <2>6
      <4>2. s[m] <= s[m + j - 1] BY <4>1, <2>3, <1>1 DEF Rising
      <4>3. Past(s[m + j - 1], d, inc) BY <4>1, <4>2, <2>3, <1>1 DEF Past
      <4> QED BY <4>1, <4>3 DEF Elements
    <3>2. ASSUME NEW x \in dates PROVE \E j \in DOMAIN r : r[j] = x
      <4>1. PICK l \in 1..Len(s) : x = s[l] /\ Past(s[l], d, inc) BY DEF Elements
      <4>2. l \in started BY <4>1, <1>1
      <4>3. m <= l BY <4>2, <2>2
      <4>4. l - m + 1 \in DOMAIN r /\ r[l - m + 1] = s[m + (l - m + 1) - 1]
        <5>1. l \in Nat /\ l <= Len(s) BY <4>1, <1>1
        <5>2. l - m + 1 \in 1..(Len(s) - m + 1) BY ONLY <5>1, <4>3, <2>10
        <5> QED BY <5>2, <2>5, <2>6
      <4>5. m + (l - m + 1) - 1 = l BY <4>1, <2>10, <1>1
      <4> QED BY <4>1, <4>4, <4>5
    <3> QED BY <3>1, <3>2
  <2>9. IsListing(r, dates) BY <2>5, <2>7, <2>8 DEF IsListing
  <2> QED BY <2>9, <1>3 DEF r, m
<1> QED BY <1>2, <1>3

\* As many dates as indices.
LEMMA Counted ==
  ASSUME NEW s, Rising(s)
  PROVE  IsFiniteSet(Elements(s)) /\ Cardinality(Elements(s)) = Len(s)
<1>1. Len(s) \in Nat /\ \A j \in 1..Len(s) : s[j] \in Int BY DEF Rising
<1> DEFINE f == [j \in 1..Len(s) |-> s[j]]
<1>2. f \in [1..Len(s) -> Elements(s)] BY DEF Elements
<1>3. \A i, j \in 1..Len(s) : s[i] = s[j] => i = j BY <1>1 DEF Rising
<1>4. f \in Injection(1..Len(s), Elements(s)) BY <1>2, <1>3 DEF Injection, IsInjective
<1>5. f \in Surjection(1..Len(s), Elements(s)) BY <1>2 DEF Surjection, Elements
<1>6. IsFiniteSet(1..Len(s)) /\ Cardinality(1..Len(s)) = Len(s)
  BY <1>1, FS_Interval
<1> HIDE DEF f
<1>7. ExistsBijection(1..Len(s), Elements(s)) BY <1>4, <1>5 DEF ExistsBijection, Bijection
<1> QED BY <1>6, <1>7, FS_Bijection

LEMMA PrefixOf ==
  ASSUME NEW s, Rising(s), NEW m \in 0..Len(s)
  PROVE  LET r == SubSeq(s, 1, m)
         IN  /\ Rising(r) /\ Len(r) = m /\ DOMAIN r = 1..m
             /\ \A j \in 1..m : r[j] = s[j]
             /\ \A k \in 0..m : SubSeq(r, 1, k) = SubSeq(s, 1, k)
<1> DEFINE r == SubSeq(s, 1, m)
<1>1. s \in Seq(Int) /\ Len(s) \in Nat /\ \A j \in 1..Len(s) : s[j] \in Int
  BY DEF Rising
<1>2. \A k \in 0..Len(s) :
        /\ SubSeq(s, 1, k) \in Seq(Int) /\ Len(SubSeq(s, 1, k)) = k
        /\ \A j \in 1..k : SubSeq(s, 1, k)[j] = s[j]
  <2> TAKE k \in 0..Len(s)
  <2>1. k \in Nat /\ \A j \in 1..k : s[j] \in Int BY <1>1
  <2>2. /\ SubSeq(s, 1, k) \in Seq(Int)
        /\ Len(SubSeq(s, 1, k)) = IF 1 <= k THEN k - 1 + 1 ELSE 0
        /\ \A j \in 1..(k - 1 + 1) : SubSeq(s, 1, k)[j] = s[1 + j - 1]
    BY <2>1, SubSeqProperties
  <2>3. k - 1 + 1 = k /\ \A j \in 1..k : 1 + j - 1 = j BY <2>1
  <2> QED BY <2>1, <2>2, <2>3
<1>3. r \in Seq(Int) /\ Len(r) = m /\ \A j \in 1..m : r[j] = s[j] BY <1>2
<1> HIDE DEF r
<1>4. DOMAIN r = 1..m BY <1>3
<1>5. Rising(r)
  <2> SUFFICES ASSUME NEW i \in 1..m, NEW j \in 1..m, i < j PROVE r[i] < r[j]
    BY <1>3 DEF Rising
  <2>1. i \in 1..Len(s) /\ j \in 1..Len(s) BY <1>1
  <2>2. s[i] < s[j] BY <2>1 DEF Rising
  <2> QED BY <2>2, <1>3
<1>6. ASSUME NEW k \in 0..m PROVE SubSeq(r, 1, k) = SubSeq(s, 1, k)
  <2>1. k \in Nat /\ \A j \in 1..k : j \in 1..m /\ r[j] \in Int BY <1>1, <1>3
  <2>2. /\ SubSeq(r, 1, k) \in Seq(Int)
        /\ Len(SubSeq(r, 1, k)) = IF 1 <= k THEN k - 1 + 1 ELSE 0
        /\ \A j \in 1..(k - 1 + 1) : SubSeq(r, 1, k)[j] = r[1 + j - 1]
    BY <2>1, SubSeqProperties
  <2>3. k - 1 + 1 = k /\ \A j \in 1..k : 1 + j - 1 = j BY <2>1
  <2>4. Len(SubSeq(r, 1, k)) = k /\ \A j \in 1..k : SubSeq(r, 1, k)[j] = s[j]
    BY <2>1, <2>2, <2>3, <1>3
  <2>5. k \in 0..Len(s) BY <1>1
  <2>6. /\ SubSeq(s, 1, k) \in Seq(Int) /\ Len(SubSeq(s, 1, k)) = k
        /\ \A j \in 1..k : SubSeq(s, 1, k)[j] = s[j]
    BY <2>5, <1>2
  <2> QED BY <2>2, <2>4, <2>6
<1> QED BY <1>3, <1>4, <1>5, <1>6 DEF r

-----------------------------------------------------------------------------
(* Answers.                                                                 *)

\* What the queries rely on: the cache begins the set, in order.
Known ==
  /\ Rising(cache) /\ Members \subseteq Int
  /\ \A j \in 1..Len(cache) : cache[j] \in Members
  /\ \A x \in Members : \A j \in 1..Len(cache) :
       x <= cache[j] => \E l \in 1..j : x = cache[l]
  /\ over => \A x \in Members : \E l \in 1..Len(cache) : x = cache[l]

LEMMA KnownInv == Inv => Known
<1> SUFFICES ASSUME Inv PROVE Known OBVIOUS
<1>1. cache \in Seq(Int) /\ Len(cache) \in Nat /\ DOMAIN cache = 1..Len(cache)
      /\ \A j \in 1..Len(cache) : cache[j] \in Int
  BY DEF Inv, LockInv, Typing
<1>2. Rising(cache) BY <1>1 DEF Inv, Merge, Rising
<1>3. \A x : x \in Members <=> IsMember(x) BY InDates DEF Members, IsMember
<1>4. Members \subseteq Int
  <2> SUFFICES ASSUME NEW x \in Members PROVE x \in Int OBVIOUS
  <2>1. contents.include \in Seq(Seq(Int))
    BY CacheAssumption DEF Inv, LockInv, Typing
  <2>2. PICK k \in DOMAIN contents.include :
          \E j \in DOMAIN contents.include[k] : x = contents.include[k][j]
    BY <1>3 DEF IsMember, In
  <2>3. contents.include[k] \in Seq(Int) BY <2>1, <2>2
  <2> QED BY <2>2, <2>3
<1>5. \A j \in 1..Len(cache) : cache[j] \in Members BY <1>3 DEF Inv, Merge
<1>6. ASSUME NEW x \in Members, NEW j \in 1..Len(cache), x <= cache[j]
      PROVE  \E l \in 1..j : x = cache[l]
  <2>1. cache[j] <= cache[Len(cache)] /\ cache # <<>> /\ Len(cache) \in 1..Len(cache)
    BY <1>1, <1>2 DEF Rising
  <2>2. x <= cache[Len(cache)] BY <2>1, <1>1, <1>4, <1>6
  <2>3. x \in Results BY <2>1, <2>2, ExactInv DEF CacheExact
  <2>4. PICK l \in 1..Len(cache) : x = cache[l] BY <2>3, <1>1 DEF Results
  <2>5. ~ (j < l) BY <2>4, <1>1, <1>2, <1>6 DEF Rising
  <2>6. l \in 1..j BY <2>5, <1>1
  <2> QED BY <2>4, <2>6
<1>7. ASSUME over, NEW x \in Members PROVE \E l \in 1..Len(cache) : x = cache[l]
  <2>1. length = Len(cache) BY <1>7 DEF Inv, LockInv, Protocol
  <2>2. length # None BY <2>1, <1>1, NoneIsNew
  <2>3. x \in Results BY <2>2, ExactInv DEF CacheExact
  <2> QED BY <2>3, <1>1 DEF Results
<1> QED BY <1>2, <1>4, <1>5, <1>6, <1>7 DEF Known

\* The results seen are all that a query asks for, which was bounded by a date:
\* the next one is past it, or there is none.
LEMMA BeforeSeen ==
  ASSUME Known, NEW d \in Int, NEW inc \in BOOLEAN, NEW m \in 0..Len(cache),
         \A j \in 1..m : ~Past(cache[j], d, inc),
         \/ m + 1 \in 1..Len(cache) /\ Past(cache[m + 1], d, inc)
         \/ over /\ m = Len(cache)
  PROVE  {x \in Members : ~Past(x, d, inc)} = Elements(SubSeq(cache, 1, m))
<1>1. /\ Rising(cache) /\ Len(cache) \in Nat
      /\ \A j \in 1..Len(cache) : cache[j] \in Int /\ cache[j] \in Members
  BY DEF Known, Rising
<1>2. Len(SubSeq(cache, 1, m)) = m /\ \A j \in 1..m : SubSeq(cache, 1, m)[j] = cache[j]
  BY <1>1, PrefixOf
<1>3. \A x : x \in Elements(SubSeq(cache, 1, m)) <=> \E l \in 1..m : x = cache[l]
  BY <1>2 DEF Elements
<1>4. ASSUME NEW x \in Members, ~Past(x, d, inc) PROVE \E l \in 1..m : x = cache[l]
  <2>0. x \in Int BY DEF Known
  <2>1. CASE over /\ m = Len(cache) BY <2>1 DEF Known
  <2>2. CASE m + 1 \in 1..Len(cache) /\ Past(cache[m + 1], d, inc)
    <3>1. cache[m + 1] \in Int BY <2>2, <1>1
    <3>2. x < cache[m + 1] BY <3>1, <2>0, <2>2, <1>4 DEF Past
    <3>3. PICK l \in 1..(m + 1) : x = cache[l] BY <3>1, <3>2, <2>0, <2>2 DEF Known
    <3>4. l # m + 1 BY <3>1, <3>2, <3>3
    <3>5. l \in 1..m BY <3>4
    <3> QED BY <3>3, <3>5
  <2> QED BY <2>1, <2>2
<1>5. ASSUME NEW l \in 1..m PROVE cache[l] \in Members /\ ~Past(cache[l], d, inc)
  BY <1>1
<1> QED BY <1>3, <1>4, <1>5

LEMMA QuestionParts ==
  ASSUME NEW q \in Question
  PROVE  /\ q.from \in Int /\ q.to \in Int /\ q.inc \in BOOLEAN /\ (~q.inc) \in BOOLEAN
         /\ q.n \in Nat
         /\ q.op \in {"contains", "after", "before", "between", "getitem", "list"}
<1>1. q.from \in Int /\ q.to \in Int /\ q.inc \in BOOLEAN /\ q.n \in Nat
  BY DEF Question
<1>2. q.op \in {"contains", "after", "before", "between", "getitem", "list"}
  BY DEF Question
<1>3. (~q.inc) \in BOOLEAN OBVIOUS
<1> QED BY <1>1, <1>2, <1>3

\* A query that stopped at the i-th result.
LEMMA StopRight ==
  ASSUME Known, NEW q \in Question, NEW i \in 1..Len(cache),
         Stops(q, cache[i], i), \A j \in 1..(i - 1) : ~Stops(q, cache[j], j)
  PROVE  Right(q, Answer(q, SubSeq(cache, 1, i), TRUE))
<1> DEFINE seen == SubSeq(cache, 1, i)
           prior == SubSeq(cache, 1, i - 1)
<1>1. /\ Rising(cache) /\ cache \in Seq(Int) /\ Len(cache) \in Nat
      /\ i \in Nat /\ i \in 0..Len(cache) /\ i - 1 \in 0..Len(cache)
      /\ \A j \in 1..Len(cache) : cache[j] \in Int /\ cache[j] \in Members
  BY DEF Known, Rising
<1>2. /\ q.from \in Int /\ q.to \in Int /\ q.inc \in BOOLEAN /\ (~q.inc) \in BOOLEAN
      /\ q.n \in Nat
      /\ q.op \in {"contains", "after", "before", "between", "getitem", "list"}
  BY QuestionParts
<1>3. Len(seen) = i /\ seen[i] = cache[i] /\ SubSeq(seen, 1, i - 1) = prior
  <2>1. i \in 1..i /\ i - 1 \in 0..i BY <1>1
  <2> QED BY <2>1, <1>1, PrefixOf
<1>4. Rising(prior) /\ Len(prior) = i - 1 /\ DOMAIN prior = 1..(i - 1)
  BY <1>1, PrefixOf
<1>5. \A x \in Members : x <= cache[i] => \E l \in 1..i : x = cache[l] BY DEF Known
<1>6. \A j \in 1..(i - 1) : j \in 1..Len(cache) /\ cache[j] < cache[i]
  BY <1>1 DEF Rising
<1>7. \A x \in Members : x \in Int BY DEF Known
<1> HIDE DEF seen, prior
<1>8. CASE q.op = "contains"
  <2>1. cache[i] >= q.from /\ \A j \in 1..(i - 1) : ~(cache[j] >= q.from)
    BY <1>8 DEF Stops
  <2>2. q.from \in Members <=> cache[i] = q.from
    <3>1. ASSUME q.from \in Members PROVE cache[i] = q.from
      <4>1. q.from <= cache[i] BY <2>1, <1>1, <1>2
      <4>2. PICK l \in 1..i : q.from = cache[l] BY <3>1, <4>1, <1>5
      <4>3. ~ (l \in 1..(i - 1)) BY <4>2, <2>1, <1>2
      <4>4. l = i BY <4>3, <1>1
      <4> QED BY <4>2, <4>4
    <3> QED BY <3>1, <1>1
  <2>3. Answer(q, seen, TRUE) = (cache[i] = q.from) BY <1>3, <1>8 DEF Answer
  <2>4. Right(q, cache[i] = q.from) BY <2>2, <1>8 DEF Right
  <2> QED BY <2>3, <2>4 DEF seen
<1>9. CASE q.op = "after"
  <2>1. /\ Past(cache[i], q.from, q.inc)
        /\ \A j \in 1..(i - 1) : ~Past(cache[j], q.from, q.inc)
    BY <1>9 DEF Stops
  <2>2. ASSUME NEW x \in Members, Past(x, q.from, q.inc) PROVE cache[i] <= x
    <3>1. SUFFICES ASSUME x < cache[i] PROVE FALSE BY <1>1, <1>7
    <3>2. PICK l \in 1..i : x = cache[l] BY <3>1, <1>1, <1>5, <1>7
    <3>3. l # i BY <3>1, <3>2, <1>1
    <3>4. l \in 1..(i - 1) BY <3>3, <1>1
    <3> QED BY <3>2, <3>4, <2>1, <2>2
  <2>3. Answer(q, seen, TRUE) = cache[i] BY <1>3, <1>9 DEF Answer
  <2>4. IsFirst(cache[i], {x \in Members : Past(x, q.from, q.inc)})
    BY <2>1, <2>2, <1>1 DEF IsFirst
  <2>5. Right(q, cache[i]) BY <2>4, <1>9 DEF Right
  <2> QED BY <2>3, <2>5 DEF seen
<1>10. CASE q.op \in {"before", "between"}
  <2>1. /\ Past(cache[i], q.to, ~q.inc)
        /\ \A j \in 1..(i - 1) : ~Past(cache[j], q.to, ~q.inc)
    BY <1>10 DEF Stops
  <2>2. i - 1 + 1 = i BY <1>1
  <2>3. {x \in Members : ~Past(x, q.to, ~q.inc)} = Elements(prior)
    <3>1. (i - 1) + 1 \in 1..Len(cache) /\ Past(cache[(i - 1) + 1], q.to, ~q.inc)
      BY <2>1, <2>2
    <3> QED BY <3>1, <2>1, <1>1, <1>2, BeforeSeen DEF prior
  <2>4. CASE q.op = "before"
    <3>1. Answer(q, seen, TRUE) = IF prior = <<>> THEN None ELSE prior[Len(prior)]
      BY <2>4, <1>3 DEF Answer
    <3>2. IsLast(IF prior = <<>> THEN None ELSE prior[Len(prior)], Elements(prior))
      BY <1>4, LastOf
    <3>3. \A a : IsLast(a, Elements(prior)) => Right(q, a) BY <2>3, <2>4 DEF Right
    <3> QED BY <3>1, <3>2, <3>3 DEF seen
  <2>5. CASE q.op = "between"
    <3> DEFINE started == {j \in DOMAIN prior : Past(prior[j], q.from, q.inc)}
               r == IF started = {} THEN <<>> ELSE SubSeq(prior, Min(started), Len(prior))
    <3>1. Answer(q, seen, TRUE) = r BY <2>5, <1>3 DEF Answer
    <3>2. IsListing(r, {x \in Elements(prior) : Past(x, q.from, q.inc)})
      BY <1>2, <1>4, Suffix
    <3> HIDE DEF r
    <3>3. {x \in Elements(prior) : Past(x, q.from, q.inc)}
            = {x \in Members : Past(x, q.from, q.inc)} \cap {x \in Members : ~Past(x, q.to, ~q.inc)}
      BY <2>3
    <3>4. Right(q, r) BY <2>5, <3>2, <3>3 DEF Right
    <3> QED BY <3>1, <3>4 DEF seen
  <2> QED BY <2>4, <2>5, <1>10
<1>11. CASE q.op = "getitem"
  <2>1. i = q.n + 1 BY <1>11 DEF Stops
  <2>2. Answer(q, seen, TRUE) = cache[i] BY <1>3, <1>11 DEF Answer
  <2>3. \A j \in 1..(i - 1) : prior[j] = cache[j] BY <1>1, PrefixOf DEF prior
  <2>4. {x \in Members : x < cache[i]} = Elements(prior)
    <3>1. ASSUME NEW x \in Members, x < cache[i] PROVE x \in Elements(prior)
      <4>1. PICK l \in 1..i : x = cache[l] BY <3>1, <1>1, <1>5, <1>7
      <4>2. l # i BY <3>1, <4>1, <1>1
      <4>3. l \in 1..(i - 1) BY <4>2, <1>1
      <4> QED BY <4>1, <4>3, <2>3, <1>4 DEF Elements
    <3>2. ASSUME NEW x \in Elements(prior) PROVE x \in Members /\ x < cache[i]
      <4>1. PICK l \in 1..(i - 1) : x = prior[l] BY <1>4 DEF Elements
      <4> QED BY <4>1, <2>3, <1>6, <1>1
    <3> QED BY <3>1, <3>2
  <2>5. Cardinality({x \in Members : x < cache[i]}) = q.n
    <3>1. Cardinality(Elements(prior)) = i - 1 BY <1>4, Counted
    <3>2. i - 1 = q.n BY <2>1, <1>1, <1>2
    <3> QED BY <3>1, <3>2, <2>4
  <2>6. cache[i] \in Members BY <1>1
  <2>7. Right(q, cache[i]) BY <1>11, <2>5, <2>6 DEF Right
  <2> QED BY <2>2, <2>7 DEF seen
<1>12. CASE q.op = "list" BY <1>12 DEF Stops
<1> QED BY <1>2, <1>8, <1>9, <1>10, <1>11, <1>12

\* A query that went through all the results.
LEMMA EndRight ==
  ASSUME Known, over, NEW q \in Question,
         \A j \in 1..Len(cache) : ~Stops(q, cache[j], j)
  PROVE  Right(q, Answer(q, SubSeq(cache, 1, Len(cache)), FALSE))
<1> DEFINE seen == SubSeq(cache, 1, Len(cache))
<1>1. /\ Rising(cache) /\ cache \in Seq(Int) /\ Len(cache) \in Nat
      /\ Len(cache) \in 0..Len(cache)
      /\ \A j \in 1..Len(cache) : cache[j] \in Int /\ cache[j] \in Members
  BY DEF Known, Rising
<1>2. /\ q.from \in Int /\ q.to \in Int /\ q.inc \in BOOLEAN /\ (~q.inc) \in BOOLEAN
      /\ q.n \in Nat
      /\ q.op \in {"contains", "after", "before", "between", "getitem", "list"}
  BY QuestionParts
<1>3. /\ Rising(seen) /\ Len(seen) = Len(cache) /\ DOMAIN seen = 1..Len(cache)
      /\ \A j \in 1..Len(cache) : seen[j] = cache[j]
  BY <1>1, PrefixOf
<1> HIDE DEF seen
<1>4. \A x \in Members : \E l \in 1..Len(cache) : x = cache[l] BY DEF Known
<1>5. Members = Elements(seen) BY <1>1, <1>3, <1>4 DEF Elements
<1>6. CASE q.op = "contains"
  <2>1. \A j \in 1..Len(cache) : ~(cache[j] >= q.from) BY <1>6 DEF Stops
  <2>2. q.from \notin Members
    <3> SUFFICES ASSUME q.from \in Members PROVE FALSE OBVIOUS
    <3>1. PICK l \in 1..Len(cache) : q.from = cache[l] BY <1>4
    <3> QED BY <3>1, <2>1, <1>2
  <2>3. Answer(q, seen, FALSE) = FALSE BY <1>6 DEF Answer
  <2>4. Right(q, FALSE) BY <2>2, <1>6 DEF Right
  <2> QED BY <2>3, <2>4 DEF seen
<1>7. CASE q.op = "after"
  <2>1. \A j \in 1..Len(cache) : ~Past(cache[j], q.from, q.inc) BY <1>7 DEF Stops
  <2>2. {x \in Members : Past(x, q.from, q.inc)} = {} BY <2>1, <1>4
  <2>3. Answer(q, seen, FALSE) = None BY <1>7 DEF Answer
  <2>4. Right(q, None) BY <2>2, <1>7 DEF Right, IsFirst
  <2> QED BY <2>3, <2>4 DEF seen
<1>8. CASE q.op \in {"before", "between"}
  <2>1. \A j \in 1..Len(cache) : ~Past(cache[j], q.to, ~q.inc) BY <1>8 DEF Stops
  <2>2. {x \in Members : ~Past(x, q.to, ~q.inc)} = Elements(seen)
    BY <2>1, <1>1, <1>2, BeforeSeen DEF seen
  <2>3. CASE q.op = "before"
    <3>1. Answer(q, seen, FALSE) = IF seen = <<>> THEN None ELSE seen[Len(seen)]
      BY <2>3 DEF Answer
    <3>2. IsLast(IF seen = <<>> THEN None ELSE seen[Len(seen)], Elements(seen))
      BY <1>3, LastOf
    <3>3. \A a : IsLast(a, Elements(seen)) => Right(q, a) BY <2>2, <2>3 DEF Right
    <3> QED BY <3>1, <3>2, <3>3 DEF seen
  <2>4. CASE q.op = "between"
    <3> DEFINE started == {j \in DOMAIN seen : Past(seen[j], q.from, q.inc)}
               r == IF started = {} THEN <<>> ELSE SubSeq(seen, Min(started), Len(seen))
    <3>1. Answer(q, seen, FALSE) = r BY <2>4 DEF Answer
    <3>2. IsListing(r, {x \in Elements(seen) : Past(x, q.from, q.inc)})
      BY <1>2, <1>3, Suffix
    <3> HIDE DEF r
    <3>3. {x \in Elements(seen) : Past(x, q.from, q.inc)}
            = {x \in Members : Past(x, q.from, q.inc)} \cap {x \in Members : ~Past(x, q.to, ~q.inc)}
      BY <2>2
    <3>4. Right(q, r) BY <2>4, <3>2, <3>3 DEF Right
    <3> QED BY <3>1, <3>4 DEF seen
  <2> QED BY <2>3, <2>4, <1>8
<1>9. CASE q.op = "getitem"
  <2>1. Len(cache) <= q.n
    <3>1. \A j \in 1..Len(cache) : j # q.n + 1 BY <1>9 DEF Stops
    <3> QED BY <3>1, <1>1, <1>2
  <2>2. Cardinality(Members) <= q.n BY <2>1, <1>3, <1>5, Counted
  <2>3. Answer(q, seen, FALSE) = None BY <1>9 DEF Answer
  <2>4. Right(q, None) BY <2>2, <1>9 DEF Right
  <2> QED BY <2>3, <2>4 DEF seen
<1>10. CASE q.op = "list"
  <2>1. Answer(q, seen, FALSE) = seen BY <1>10 DEF Answer
  <2>2. IsListing(seen, Members) BY <1>3, <1>5 DEF IsListing, Rising, Elements
  <2>3. Right(q, seen) BY <2>2, <1>10 DEF Right
  <2> QED BY <2>1, <2>3 DEF seen
<1> QED BY <1>2, <1>6, <1>7, <1>8, <1>9, <1>10

-----------------------------------------------------------------------------
(* What an iteration has passed.                                            *)

Passing(t) ==
  /\ pc[t] # "idle" => query[t] \in Queries
  \* nothing seen so far made the query stop
  /\ pc[t] \notin {"idle", "answer"} => \A j \in 1..pos[t] : ~Stops(query[t], cache[j], j)
  \* all is seen when an iteration ends
  /\ pc[t] = "list" => over
  /\ pc[t] = "end" => over /\ pos[t] = Len(cache)
  /\ pc[t] = "answer" => Right(query[t], answer[t])

Asking ==
  /\ DOMAIN query = Thread /\ DOMAIN answer = Thread
  /\ \A t \in Thread : Passing(t)

\* The set is the same, and what the cache held it holds still.
Grown ==
  /\ contents' = contents
  /\ \A j \in 1..Len(cache) : cache'[j] = cache[j]
  /\ over => over' /\ cache' = cache

\* A thread that the step leaves alone.
LEMMA PassingStays ==
  ASSUME Typing, Grown, NEW t \in Thread, Passing(t),
         pc'[t] = pc[t], pos'[t] = pos[t], query'[t] = query[t], answer'[t] = answer[t]
  PROVE  Passing(t)'
<1>1. ASSUME pc[t] \notin {"idle", "answer"}, NEW j \in 1..pos[t]
      PROVE  ~Stops(query[t], cache'[j], j)
  <2>1. j \in 1..Len(cache) BY DEF Typing
  <2>2. cache'[j] = cache[j] BY <2>1 DEF Grown
  <2> QED BY <2>2, <1>1 DEF Passing
<1>2. pc[t] = "answer" => Right(query[t], answer[t])'
  <2> SUFFICES ASSUME pc[t] = "answer" PROVE Right(query[t], answer[t])' OBVIOUS
  <2>1. Right(query[t], answer[t]) BY DEF Passing
  <2>2. Members' = Members BY DEF Grown, Members
  <2> QED BY <2>1, <2>2 DEF Right
<1>3. pc[t] = "list" => over' BY DEF Passing, Grown
<1>4. pc[t] = "end" => over' /\ pos[t] = Len(cache') BY DEF Passing, Grown
<1>5. pc[t] # "idle" => query[t] \in Queries BY DEF Passing
<1> QED BY <1>1, <1>2, <1>3, <1>4, <1>5 DEF Passing

\* A thread that goes on to look, to wait, to produce or to take keeps what it
\* has passed.
LEMMA PassingOn ==
  ASSUME Typing, Grown, NEW t \in Thread, Passing(t), pc[t] \notin {"idle", "answer"},
         pc'[t] \in {"start", "look", "wait", "fill", "complete", "take"},
         pos'[t] = pos[t], query'[t] = query[t]
  PROVE  Passing(t)'
<1>1. ASSUME NEW j \in 1..pos[t] PROVE ~Stops(query[t], cache'[j], j)
  <2>1. j \in 1..Len(cache) BY DEF Typing
  <2>2. cache'[j] = cache[j] BY <2>1 DEF Grown
  <2> QED BY <2>2 DEF Passing
<1> QED BY <1>1 DEF Passing

LEMMA GrownStep ==
  ASSUME Inv, NEW t \in Thread, Ask(t) \/ Go(t)
  PROVE  Grown
<1>1. CASE Ask(t) \/ Start(t) \/ Look(t) \/ Take(t) \/ End(t) \/ Answered(t)
           \/ Acquire(t) \/ Release(t) \/ Finish(t) \/ Skip(t)
  <2>1. UNCHANGED <<contents, cache, over>>
    BY <1>1 DEF Ask, Start, Look, Take, End, Answered, Acquire, Release, Finish, Skip,
                setVars
  <2> QED BY <2>1 DEF Grown
<1>2. CASE Fill(t)
  <2>1. contents' = contents /\ ~over BY <1>2 DEF Fill, At, Inv, LockInv, Protocol
  <2>2. cache \in Seq(Int) BY DEF Inv, LockInv, Typing
  <2>3. cache' = cache \/ \E dt \in Int : cache' = Append(cache, dt)
    BY <1>2, MergeFill DEF Inv
  <2>4. \A j \in 1..Len(cache) : cache'[j] = cache[j] BY <2>2, <2>3
  <2> QED BY <2>1, <2>4 DEF Grown
<1>3. CASE Exhaust(t) BY <1>3 DEF Exhaust, Grown
<1> QED BY <1>1, <1>2, <1>3 DEF Go

\* What the step of a thread does to itself.
LEMMA PassingStep ==
  ASSUME Inv, Grown, Asking, NEW t \in Thread, Ask(t) \/ Go(t)
  PROVE  Passing(t)'
<1> USE DEF At, Goto
<1>1. Passing(t) /\ Typing /\ Protocol BY DEF Asking, Inv, LockInv
<1>2. pos[t] \in Nat /\ pos[t] <= Len(cache) /\ DOMAIN pc = Thread /\ DOMAIN pos = Thread
      /\ Len(cache) \in Nat /\ cache \in Seq(Int)
  BY <1>1 DEF Typing
<1>3. DOMAIN query = Thread /\ DOMAIN answer = Thread BY DEF Asking
<1>4. CASE Ask(t)
  <2>1. pos[t] = 0 BY <1>1, <1>4 DEF Ask, Protocol
  <2>2. pos' = pos /\ query'[t] \in Queries /\ pc'[t] \in {"start", "list"}
        /\ (pc'[t] = "list" => complete) /\ over' = over
    BY <1>2, <1>3, <1>4 DEF Ask, setVars
  <2>3. pc'[t] = "list" => over' BY <2>2, <1>1 DEF Protocol
  <2> QED BY <2>1, <2>2, <2>3 DEF Passing
<1>5. CASE Start(t) \/ Acquire(t) \/ Release(t) \/ Exhaust(t) \/ Finish(t) \/ Skip(t) \/ Fill(t)
  <2>1. pc[t] \notin {"idle", "answer"} /\ UNCHANGED <<pos, query>>
    BY <1>5 DEF Start, Acquire, Release, Exhaust, Finish, Skip, Fill, askVars, itVars
  <2>2. pc'[t] \in {"start", "look", "wait", "fill", "complete", "take"}
    BY <1>2, <1>5 DEF Start, Acquire, Release, Exhaust, Finish, Skip, Fill, itVars
  <2> QED BY <2>1, <2>2, <1>1, PassingOn
<1>6. CASE Look(t)
  <2>1. pc[t] = "look" /\ UNCHANGED <<pos, query>> BY <1>6 DEF Look, askVars
  <2>2. CASE pc'[t] # "end"
    <3>1. pc'[t] \in {"wait", "take"} BY <2>2, <1>2, <1>6 DEF Look
    <3> QED BY <3>1, <2>1, <1>1, PassingOn
  <2>3. CASE pc'[t] = "end"
    <3>1. ~live[t] /\ ~(pos[t] < length) BY <2>3, <1>2, <1>6 DEF Look
    <3>2. over /\ length = Len(cache) BY <3>1, <2>1, <1>1 DEF Protocol
    <3>3. over' /\ cache' = cache /\ pos[t] = Len(cache)
      BY <3>1, <3>2, <1>2, <1>6 DEF Look, setVars
    <3> QED BY <3>3, <2>1, <2>3, <1>1 DEF Passing
  <2> QED BY <2>2, <2>3
<1>7. CASE Take(t)
  <2> DEFINE i == pos[t] + 1
  <2>1. /\ pc[t] \in {"take", "list"} /\ query' = query
        /\ UNCHANGED <<contents, cache, over>>
    BY <1>7 DEF Take, setVars
  <2>2. pos[t] < Len(cache) BY <1>1, <1>7 DEF Take, Protocol
  <2>3. i \in 1..Len(cache) /\ \A j \in 1..(i - 1) : ~Stops(query[t], cache[j], j)
    BY <2>1, <2>2, <1>1, <1>2 DEF Passing
  <2>4. query[t] \in Question BY <2>1, <1>1, CacheAssumption DEF Passing
  <2>5. CASE Stops(query[t], cache[i], i)
    <3>1. /\ pc'[t] = "answer"
          /\ answer'[t] = Answer(query[t], SubSeq(cache, 1, i), TRUE)
      BY <2>5, <1>2, <1>3, <1>7 DEF Take, Return
    <3> HIDE DEF i
    <3>2. Right(query[t], answer'[t]) BY <3>1, <2>3, <2>4, <2>5, KnownInv, StopRight
    <3>3. Members' = Members BY <2>1 DEF Members
    <3>4. Right(query[t], answer[t])' BY <3>2, <3>3, <2>1 DEF Right
    <3> QED BY <3>1, <3>4, <2>1, <1>1 DEF Passing
  <2>6. CASE ~Stops(query[t], cache[i], i)
    <3>1. /\ pos'[t] = i /\ pc'[t] \in {"list", "look"}
          /\ pc'[t] = "list" => pc[t] = "list"
      BY <2>6, <1>2, <1>7 DEF Take
    <3>2. \A j \in 1..i : ~Stops(query[t], cache[j], j)
      <4>1. i \in Nat BY <1>2
      <4> HIDE DEF i
      <4>2. \A j \in 1..i : j \in 1..(i - 1) \/ j = i BY <4>1
      <4> QED BY <4>2, <2>3, <2>6
    <3> QED BY <3>1, <3>2, <2>1, <1>1 DEF Passing
  <2> QED BY <2>5, <2>6
<1>8. CASE End(t)
  <2>1. /\ pc[t] \in {"end", "list"} /\ query' = query /\ pc'[t] = "answer"
        /\ UNCHANGED <<contents, cache, over>>
        /\ answer'[t] = Answer(query[t], SubSeq(cache, 1, pos[t]), FALSE)
    BY <1>2, <1>3, <1>8 DEF End, Return, setVars
  <2>2. over /\ pos[t] = Len(cache) BY <1>1, <1>8 DEF End, Passing
  <2>3. \A j \in 1..Len(cache) : ~Stops(query[t], cache[j], j)
    BY <2>1, <2>2, <1>1 DEF Passing
  <2>4. query[t] \in Question BY <2>1, <1>1, CacheAssumption DEF Passing
  <2>5. Right(query[t], answer'[t]) BY <2>1, <2>2, <2>3, <2>4, KnownInv, EndRight
  <2>6. Members' = Members BY <2>1 DEF Members
  <2>7. Right(query[t], answer[t])' BY <2>5, <2>6, <2>1 DEF Right
  <2> QED BY <2>1, <2>7, <1>1 DEF Passing
<1>9. CASE Answered(t)
  <2>1. pc'[t] = "idle" BY <1>2, <1>9 DEF Answered
  <2> QED BY <2>1 DEF Passing
<1> QED BY <1>4, <1>5, <1>6, <1>7, <1>8, <1>9 DEF Go

LEMMA AskingStep == Inv /\ Asking /\ [Next]_vars => Asking'
<1> SUFFICES ASSUME Inv, Asking, [Next]_vars PROVE Asking' OBVIOUS
<1>1. CASE Change
  <2>1. UNCHANGED <<pc, query, answer>> /\ \A t \in Thread : pc[t] = "idle"
    BY <1>1 DEF Change, At, itVars, askVars
  <2> QED BY <2>1 DEF Asking, Passing
<1>2. ASSUME NEW t \in Thread, Ask(t) \/ Go(t) PROVE Asking'
  <2>1. Grown BY <1>2, GrownStep
  <2>2. Passing(t)' BY <1>2, <2>1, PassingStep
  <2>3. DOMAIN query' = Thread /\ DOMAIN answer' = Thread
    BY <1>2 DEF Asking, Go, Ask, Start, Look, Acquire, Skip, Fill, Release, Exhaust, Finish,
                Take, End, Answered, Return, askVars
  <2>4. ASSUME NEW u \in Thread, u # t PROVE Passing(u)'
    <3>1. Typing /\ Passing(u) BY DEF Inv, LockInv, Asking
    <3>2. pc'[u] = pc[u] /\ pos'[u] = pos[u]
      BY <1>2, <2>4, <3>1
         DEF Typing, Go, Ask, Start, Look, Acquire, Skip, Fill, Release, Exhaust, Finish,
             Take, End, Answered, Return, Goto, itVars
    <3>3. query'[u] = query[u] /\ answer'[u] = answer[u]
      BY <1>2, <2>4
         DEF Asking, Go, Ask, Start, Look, Acquire, Skip, Fill, Release, Exhaust, Finish,
             Take, End, Answered, Return, askVars
    <3> QED BY <3>1, <3>2, <3>3, <2>1, PassingStays
  <2> QED BY <2>2, <2>3, <2>4 DEF Asking
<1>3. CASE UNCHANGED vars
  <2>1. UNCHANGED <<contents, cache, over, pc, pos, query, answer>>
    BY <1>3 DEF vars, setVars, itVars, askVars
  <2>2. Grown BY <2>1 DEF Grown
  <2>3. Typing BY DEF Inv, LockInv
  <2>4. ASSUME NEW u \in Thread PROVE Passing(u)'
    <3>1. Passing(u) BY DEF Asking
    <3> QED BY <3>1, <2>1, <2>2, <2>3, PassingStays
  <2> QED BY <2>1, <2>4 DEF Asking
<1> QED BY <1>1, <1>2, <1>3 DEF Next

LEMMA AskingAlways == Spec => []Asking
<1>1. Init => Asking BY DEF Init, Asking, Passing
<1> QED BY <1>1, InvAlways, AskingStep, PTL DEF Spec

\* The variables keep their types (TypeOK), whatever the set holds and however
\* many threads ask for it.
THEOREM TypeCorrect == Spec => []TypeOK
<1>1. Inv => TypeOK
  <2> SUFFICES ASSUME Typing PROVE TypeOK BY DEF Inv, LockInv
  <2>1. pos \in [Thread -> 0..Len(cache)] BY DEF Typing
  <2> QED BY <2>1 DEF TypeOK, Typing
<1> QED BY <1>1, InvAlways, PTL

\* The lock keeps the generator to one thread at a time, and nobody enters it
\* once it ended (rrule.py:124-142).
THEOREM GeneratorGuarded == Spec => []GeneratorSafe
<1>1. Inv => GeneratorSafe BY DEF Inv, LockInv, Protocol, GeneratorSafe, At
<1> QED BY <1>1, InvAlways, PTL

\* No iteration reads past the end of the cache, for any batch.
THEOREM ReadsInBounds == Spec => []InBounds
<1>1. Inv => InBounds BY DEF Inv, LockInv, Protocol, InBounds, At
<1> QED BY <1>1, InvAlways, PTL

\* The cache is what the set holds, in order and each date once, for any dates,
\* any rules and any interleaving of threads (_iter_cached, rruleset._iter).
THEOREM CacheIsExact == Spec => []CacheExact
BY ExactInv, InvAlways, PTL

\* Every query gets the answer for the whole set, whatever it asks, however far
\* the cache was when it began, and whatever others did to it meanwhile
\* (rrule.py:148-303).
THEOREM AnswersAreRight == Spec => []AnswersRight
<1>1. Inv /\ Asking => AnswersRight BY DEF Asking, Passing, AnswersRight, At
<1> QED BY <1>1, InvAlways, AskingAlways, PTL
=============================================================================
