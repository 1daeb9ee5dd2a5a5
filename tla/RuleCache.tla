----------------------------- MODULE RuleCache -----------------------------
(***************************************************************************)
(* dateutil/rrule.py: a recurrence set made with cache=True that threads   *)
(* query at the same time.                                                 *)
(*                                                                         *)
(* The dates and rules of the set, and those it excludes, are ascending    *)
(* sequences of numbers that stand for the datetimes.  One generator merges*)
(* them; whoever needs a result that is not in the cache yet takes the lock*)
(* and has the generator produce the next ones.  Every query is a loop over*)
(* such an iteration that may stop early.                                  *)
(***************************************************************************)
EXTENDS Integers, Sequences, FiniteSetsExt

CONSTANTS
  Thread,    \* what iterates: threads, or iterators of one thread
  Contents,  \* what the set may hold: [include, exclude], tuples of sequences
  Queries,   \* what is asked
  Batch,     \* results produced under the lock at a time (10 in the code)
  None,
  MaxCalls,  \* bound on the queries of a behaviour
  MaxChanges \* bound on the changes of the set

Sorted(s) == \A i, j \in DOMAIN s : i < j => s[i] <= s[j]

\* A datetime or two, whether they are included, or an index from 0 on.
Question ==
  [op : {"contains", "after", "before", "between", "getitem", "list"},
   from : Int, to : Int, inc : BOOLEAN, n : Nat]

\* _rdate and _exdate are sorted, rules ascend by themselves.
ASSUME CacheAssumption ==
  /\ Batch \in Nat \ {0} /\ MaxCalls \in Nat /\ MaxChanges \in Nat
  /\ None \notin Int \cup Thread
  /\ Queries \subseteq Question
  /\ \A c \in Contents :
       /\ c \in [include : Seq(Seq(Int)), exclude : Seq(Seq(Int))]
       /\ \A k \in DOMAIN c.include : Sorted(c.include[k])
       /\ \A k \in DOMAIN c.exclude : Sorted(c.exclude[k])

VARIABLES
  contents,  \* _rdate and _rrule, _exdate and _exrule
  cache,     \* _cache
  complete,  \* _cache_complete
  gen,       \* what the merging generator has left
  over,      \* _cache_gen is None: the generator came to its end
  length,    \* _len
  lock,      \* the thread that took _cache_lock, None when it is free
  pc,        \* per thread: where it is
  pos,       \* per thread: i, how many results it took
  live,      \* per thread: gen, it goes by the generator and not by the count
  batch,     \* per thread: j, results produced since it has the lock
  query,     \* per thread: what it asks
  answer,    \* per thread: what was returned
  calls, changes

setVars == <<contents, cache, complete, gen, over, length, changes>>
askVars == <<query, answer, calls>>
itVars == <<pc, pos, live, batch>>
vars == <<setVars, lock, itVars, askVars>>

-----------------------------------------------------------------------------
(* The generator (rruleset._iter).                                          *)

\* What every source of the set still has, and the date that came last.
NewGenerator(c) == [include |-> c.include, exclude |-> c.exclude, last |-> None]

Open(sources) == {k \in DOMAIN sources : sources[k] # <<>>}

\* rlist[0]: a source whose next date is the first of all.
IsTop(g, k) ==
  /\ k \in Open(g.include)
  /\ \A j \in Open(g.include) : Head(g.include[k]) <= Head(g.include[j])

\* exlist[0] < ritem: the source of excluded dates to go on with.
Behind(g, e, dt) ==
  /\ e \in Open(g.exclude)
  /\ Head(g.exclude[e]) < dt
  /\ \A j \in Open(g.exclude) : Head(g.exclude[e]) <= Head(g.exclude[j])

\* A date is yielded unless it came before or is excluded.
Yields(g, dt) ==
  dt # g.last /\ \A e \in Open(g.exclude) : dt # Head(g.exclude[e])

\* Mutant: the last date is not noted.
TurnedForgetful(g, k) == [g EXCEPT !.include[k] = Tail(@)]

\* What is left after a turn of the loop.
Turned(g, k) ==
  [include |-> [g.include EXCEPT ![k] = Tail(@)], exclude |-> g.exclude,
   last |-> Head(g.include[k])]

-----------------------------------------------------------------------------
(* The queries: what they consume and what they return.                     *)

Past(x, dt, inc) == x > dt \/ (inc /\ x = dt)

\* The loop stops at x, the i-th result.
Stops(q, x, i) ==
  CASE q.op = "contains" -> x >= q.from
    [] q.op = "after" -> Past(x, q.from, q.inc)
    [] q.op \in {"before", "between"} -> Past(x, q.to, ~q.inc)
    [] q.op = "getitem" -> i = q.n + 1
    [] q.op = "list" -> FALSE

\* What it returns after the results seen, of which it stopped at the last or,
\* when there are no more, at none; None also stands for IndexError.
Answer(q, seen, stopped) ==
  LET n == Len(seen)
      before == IF stopped THEN SubSeq(seen, 1, n - 1) ELSE seen
  IN  CASE q.op = "contains" -> stopped /\ seen[n] = q.from
        [] q.op \in {"after", "getitem"} -> IF stopped THEN seen[n] ELSE None
        [] q.op = "before" -> IF before = <<>> THEN None ELSE before[Len(before)]
        [] q.op = "between" ->
             LET started == {j \in DOMAIN before : Past(before[j], q.from, q.inc)}
             IN  IF started = {} THEN <<>>
                 ELSE SubSeq(before, Min(started), Len(before))
        [] q.op = "list" -> seen

-----------------------------------------------------------------------------
Init ==
  /\ contents \in Contents
  /\ cache = <<>> /\ complete = FALSE /\ length = None /\ lock = None
  /\ gen = NewGenerator(contents) /\ over = FALSE
  /\ pc = [t \in Thread |-> "idle"] /\ pos = [t \in Thread |-> 0]
  /\ live = [t \in Thread |-> FALSE] /\ batch = [t \in Thread |-> 0]
  /\ query = [t \in Thread |-> None] /\ answer = [t \in Thread |-> None]
  /\ calls = 0 /\ changes = 0

At(t, s) == pc[t] = s
Goto(t, s) == pc' = [pc EXCEPT ![t] = s]


\* rrule, rdate, exrule and exdate, while nothing is iterated: the cache is
\* invalidated, and the lock released if it is taken.
Change ==
  /\ \A t \in Thread : At(t, "idle")
  /\ changes < MaxChanges /\ changes' = changes + 1
  /\ contents' \in Contents
  /\ cache' = <<>> /\ complete' = FALSE /\ length' = None
  /\ gen' = NewGenerator(contents') /\ over' = FALSE
  /\ lock' = None
  /\ UNCHANGED <<itVars, askVars>>

\* A query begins: over the list when the cache is complete, over an iteration
\* otherwise (__iter__).
Ask(t) ==
  /\ At(t, "idle")
  /\ calls < MaxCalls /\ calls' = calls + 1
  /\ \E q \in Queries : query' = [query EXCEPT ![t] = q]
  /\ Goto(t, IF complete THEN "list" ELSE "start")
  /\ UNCHANGED <<setVars, lock, pos, live, batch, answer>>

\* The beginning of _iter_cached: the generator may be at its end already.
Start(t) ==
  /\ At(t, "start")
  /\ Goto(t, "look")
  /\ live' = [live EXCEPT ![t] = ~over]
  /\ UNCHANGED <<setVars, lock, pos, batch, askVars>>

\* Mutant: one more than there are.
LookOneMore(t) ==
  /\ At(t, "look")
  /\ IF live[t]
     THEN Goto(t, IF pos[t] = Len(cache) THEN "wait" ELSE "take")
     ELSE Goto(t, IF pos[t] <= length THEN "take" ELSE "end")
  /\ UNCHANGED <<setVars, lock, pos, live, batch, askVars>>

\* while gen, or while i < self._len: is there a next result, and where?
Look(t) ==
  /\ At(t, "look")
  /\ IF live[t]
     THEN Goto(t, IF pos[t] = Len(cache) THEN "wait" ELSE "take")
     ELSE Goto(t, IF pos[t] < length THEN "take" ELSE "end")
  /\ UNCHANGED <<setVars, lock, pos, live, batch, askVars>>

\* Mutant: the lock does not exclude.
AcquireAlways(t) ==
  /\ At(t, "wait")
  /\ lock' = t
  /\ Goto(t, IF complete THEN "look" ELSE "fill")
  /\ live' = [live EXCEPT ![t] = ~complete]
  /\ batch' = [batch EXCEPT ![t] = 0]
  /\ UNCHANGED <<setVars, pos, askVars>>

\* acquire(); when the cache was completed meanwhile, the rest is in it.
Acquire(t) ==
  /\ At(t, "wait") /\ lock = None
  /\ lock' = t
  /\ Goto(t, IF complete THEN "look" ELSE "fill")
  /\ live' = [live EXCEPT ![t] = ~complete]
  /\ batch' = [batch EXCEPT ![t] = 0]
  /\ UNCHANGED <<setVars, pos, askVars>>

\* The generator drops an excluded date that is before the next one.
Skip(t) ==
  /\ At(t, "fill") /\ batch[t] < Batch
  /\ \E k \in DOMAIN gen.include, e \in DOMAIN gen.exclude :
       /\ IsTop(gen, k) /\ Head(gen.include[k]) # gen.last
       /\ Behind(gen, e, Head(gen.include[k]))
       /\ gen' = [include |-> gen.include, last |-> gen.last,
                  exclude |-> [gen.exclude EXCEPT ![e] = Tail(@)]]
  /\ UNCHANGED <<contents, cache, complete, over, length, lock, itVars, askVars,
                 changes>>

\* Mutant: a batch is one more than its limit.
FillOneMore(t) ==
  /\ At(t, "fill") /\ batch[t] <= Batch
  /\ \E k \in DOMAIN gen.include :
       LET dt == Head(gen.include[k])
       IN  /\ IsTop(gen, k)
           /\ dt # gen.last => \A e \in Open(gen.exclude) : dt <= Head(gen.exclude[e])
           /\ gen' = Turned(gen, k)
           /\ IF Yields(gen, dt)
              THEN /\ cache' = Append(cache, dt)
                   /\ batch' = [batch EXCEPT ![t] = @ + 1]
              ELSE UNCHANGED <<cache, batch>>
  /\ UNCHANGED <<contents, complete, over, length, lock, pc, pos, live, askVars,
                 changes>>

\* The generator goes on by a turn; what it yields is appended.
Fill(t) ==
  /\ At(t, "fill") /\ batch[t] < Batch
  /\ \E k \in DOMAIN gen.include :
       LET dt == Head(gen.include[k])
       IN  /\ IsTop(gen, k)
           /\ dt # gen.last => \A e \in Open(gen.exclude) : dt <= Head(gen.exclude[e])
           /\ gen' = Turned(gen, k)
           /\ IF Yields(gen, dt)
              THEN /\ cache' = Append(cache, dt)
                   /\ batch' = [batch EXCEPT ![t] = @ + 1]
              ELSE UNCHANGED <<cache, batch>>
  /\ UNCHANGED <<contents, complete, over, length, lock, pc, pos, live, askVars,
                 changes>>

\* release(): the batch is full.
Release(t) ==
  /\ At(t, "fill") /\ batch[t] = Batch
  /\ lock' = None
  /\ Goto(t, "take")
  /\ UNCHANGED <<setVars, pos, live, batch, askVars>>

\* Mutant: the count leaves out what the last batch added.
ExhaustShort(t) ==
  /\ At(t, "fill") /\ batch[t] < Batch
  /\ Open(gen.include) = {}
  /\ length' = pos[t] /\ over' = TRUE
  /\ Goto(t, "complete")
  /\ UNCHANGED <<contents, cache, complete, gen, lock, pos, live, batch, askVars,
                 changes>>

\* The generator ends: it notes the count, and _cache_gen is forgotten.
Exhaust(t) ==
  /\ At(t, "fill") /\ batch[t] < Batch
  /\ Open(gen.include) = {}
  /\ length' = Len(cache) /\ over' = TRUE
  /\ Goto(t, "complete")
  /\ UNCHANGED <<contents, cache, complete, gen, lock, pos, live, batch, askVars,
                 changes>>

\* _cache_complete is set, and the loop left by break: the lock is kept.
Finish(t) ==
  /\ At(t, "complete")
  /\ complete' = TRUE
  /\ Goto(t, "look")
  /\ live' = [live EXCEPT ![t] = FALSE]
  /\ UNCHANGED <<contents, cache, gen, over, length, lock, pos, batch, askVars,
                 changes>>

Return(t, seen, stopped) ==
  /\ answer' = [answer EXCEPT ![t] = Answer(query[t], seen, stopped)]
  /\ Goto(t, "answer")

\* yield cache[i], or the next of the list: the query takes it and stops, or
\* goes on.
Take(t) ==
  /\ \/ At(t, "take")
     \/ At(t, "list") /\ pos[t] < Len(cache)
  /\ LET i == pos[t] + 1
     IN  IF Stops(query[t], cache[i], i)
         THEN Return(t, SubSeq(cache, 1, i), TRUE) /\ UNCHANGED pos
         ELSE /\ pos' = [pos EXCEPT ![t] = i]
              /\ Goto(t, IF At(t, "list") THEN "list" ELSE "look")
              /\ UNCHANGED answer
  /\ UNCHANGED <<setVars, lock, live, batch, query, calls>>

\* There are no more results.
End(t) ==
  /\ \/ At(t, "end")
     \/ At(t, "list") /\ pos[t] = Len(cache)
  /\ Return(t, SubSeq(cache, 1, pos[t]), FALSE)
  /\ UNCHANGED <<setVars, lock, pos, live, batch, query, calls>>

\* The caller has its answer.
Answered(t) ==
  /\ At(t, "answer")
  /\ Goto(t, "idle")
  /\ pos' = [pos EXCEPT ![t] = 0]
  /\ live' = [live EXCEPT ![t] = FALSE] /\ batch' = [batch EXCEPT ![t] = 0]
  /\ query' = [query EXCEPT ![t] = None] /\ answer' = [answer EXCEPT ![t] = None]
  /\ UNCHANGED <<setVars, lock, calls>>

Go(t) ==
  \/ Start(t) \/ Look(t) \/ Acquire(t) \/ Skip(t) \/ Fill(t) \/ Release(t)
  \/ Exhaust(t) \/ Finish(t) \/ Take(t) \/ End(t) \/ Answered(t)

Next == Change \/ \E t \in Thread : Ask(t) \/ Go(t)

\* A thread that can go on does; nobody has to ask or to change anything.
Fairness == \A t \in Thread : WF_vars(Go(t))

Spec == Init /\ [][Next]_vars /\ Fairness

-----------------------------------------------------------------------------
(* Properties.                                                              *)

\* The dates of the set: what a source gives and none excludes.
Dates(sources) == UNION {{sources[k][j] : j \in DOMAIN sources[k]} : k \in DOMAIN sources}
Members == Dates(contents.include) \ Dates(contents.exclude)
Results == {cache[j] : j \in DOMAIN cache}

PC == {"idle", "start", "look", "wait", "fill", "complete", "take", "list", "end",
       "answer"}

TypeOK ==
  /\ contents \in Contents
  /\ cache \in Seq(Int) /\ complete \in BOOLEAN /\ over \in BOOLEAN
  /\ length \in Nat \cup {None}
  /\ lock \in Thread \cup {None}
  /\ pc \in [Thread -> PC] /\ pos \in [Thread -> 0..Len(cache)]
  /\ live \in [Thread -> BOOLEAN] /\ batch \in [Thread -> 0..Batch]

\* The generator is never entered by two threads at a time, which Python
\* refuses, nor once it came to its end; the lock is what keeps them out, and
\* nobody who waited for it takes it for free before the cache is complete
\* (rrule.py:124-142).
GeneratorSafe ==
  \A t \in Thread : At(t, "fill") =>
    ~over /\ \A u \in Thread \ {t} : ~At(u, "fill") /\ ~At(u, "complete")

\* An iteration never reads past the end of the cache, whether it found the
\* next result there, produced it, or goes by the count.
InBounds == \A t \in Thread : At(t, "take") => pos[t] < Len(cache)

\* The cache holds the dates of the set in order, each once and none left out,
\* whoever produced them; when it is complete it holds all, and the count is
\* theirs (rrulebase._iter_cached, rruleset._iter).
CacheExact ==
  /\ \A j \in 1..(Len(cache) - 1) : cache[j] < cache[j + 1]
  /\ \A x \in Members : cache # <<>> /\ x <= cache[Len(cache)] => x \in Results
  /\ length # None => length = Len(cache) /\ Results = Members

\* The dates in order, each once.
IsListing(s, dates) ==
  /\ s \in Seq(Int) /\ {s[j] : j \in DOMAIN s} = dates
  /\ \A i, j \in DOMAIN s : i < j => s[i] < s[j]

IsFirst(a, dates) ==
  IF dates = {} THEN a = None ELSE a \in dates /\ \A x \in dates : a <= x

IsLast(a, dates) ==
  IF dates = {} THEN a = None ELSE a \in dates /\ \A x \in dates : x <= a

\* What a query over all the dates returns.
Right(q, a) ==
  LET after == {x \in Members : Past(x, q.from, q.inc)}
      before == {x \in Members : ~Past(x, q.to, ~q.inc)}
  IN  CASE q.op = "contains" -> a = (q.from \in Members)
        [] q.op = "after" -> IsFirst(a, after)
        [] q.op = "before" -> IsLast(a, before)
        [] q.op = "between" -> IsListing(a, after \cap before)
        [] q.op = "getitem" ->
             \/ a \in Members /\ Cardinality({x \in Members : x < a}) = q.n
             \/ a = None /\ Cardinality(Members) <= q.n
        [] q.op = "list" -> IsListing(a, Members)

\* Every answer is the one for the whole set, however far the cache was when
\* the query began, and whoever went on with it meanwhile (rrule.py:148-303).
AnswersRight ==
  \A t \in Thread : At(t, "answer") => Right(query[t], answer[t])


\* Every query returns.
EveryQueryReturns == \A t \in Thread : ~At(t, "idle") ~> At(t, "idle")
=============================================================================
