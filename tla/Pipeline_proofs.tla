-------------------------- MODULE Pipeline_proofs --------------------------
(***************************************************************************)
(* Proofs about Pipeline and its stream readers, for every set of streams, *)
(* every list of prefixes, every page size and number of workers, and      *)
(* every set of faults.                                                    *)
(***************************************************************************)
EXTENDS Pipeline, SequenceTheorems, FiniteSetTheorems, TLAPS

-----------------------------------------------------------------------------
(* Runs of numbers. *)

LEMMA RunSeq ==
  ASSUME NEW a \in Nat, NEW b \in Nat, a <= b
  PROVE  /\ Run(a, b) \in Seq(Nat) /\ Len(Run(a, b)) = b - a
         /\ \A i \in 1..(b - a) : Run(a, b)[i] = a + i
<1> DEFINE n == b - a
<1>1. n \in Nat
  OBVIOUS
<1>2. \A i \in 1..n : a + i \in Nat
  BY <1>1
<1> HIDE DEF n
<1>3. [i \in 1..n |-> a + i] \in [1..n -> Nat]
  BY <1>2
<1>4. [i \in 1..n |-> a + i] \in Seq(Nat)
  BY <1>1, <1>2
<1>5. Len([i \in 1..n |-> a + i]) = n
  BY <1>1, <1>4
<1> QED
  BY <1>4, <1>5 DEF Run, n

LEMMA RunEmpty ==
  ASSUME NEW a \in Nat PROVE Run(a, a) = <<>>
<1>1. Run(a, a) \in Seq(Nat) /\ Len(Run(a, a)) = 0
  BY RunSeq
<1> QED
  BY <1>1, EmptySeq

LEMMA RunAppend ==
  ASSUME NEW a \in Nat, NEW b \in Nat, NEW c \in Nat, a <= b, b <= c
  PROVE  Run(a, b) \o Run(b, c) = Run(a, c)
<1>1. /\ Run(a, b) \in Seq(Nat) /\ Len(Run(a, b)) = b - a
      /\ \A i \in 1..(b - a) : Run(a, b)[i] = a + i
  BY RunSeq
<1>2. /\ Run(b, c) \in Seq(Nat) /\ Len(Run(b, c)) = c - b
      /\ \A i \in 1..(c - b) : Run(b, c)[i] = b + i
  BY RunSeq
<1>3. /\ Run(a, c) \in Seq(Nat) /\ Len(Run(a, c)) = c - a
      /\ \A i \in 1..(c - a) : Run(a, c)[i] = a + i
  BY RunSeq
<1> DEFINE x == Run(a, b)
           y == Run(b, c)
<1> HIDE DEF x, y
<1>4. /\ x \o y \in Seq(Nat) /\ Len(x \o y) = Len(x) + Len(y)
      /\ \A i \in 1..(Len(x) + Len(y)) :
           (x \o y)[i] = IF i <= Len(x) THEN x[i] ELSE y[i - Len(x)]
  BY <1>1, <1>2, ConcatProperties DEF x, y
<1>5. ASSUME NEW i \in 1..(c - a) PROVE (x \o y)[i] = Run(a, c)[i]
  <2>1. CASE i <= b - a
    BY <1>1, <1>2, <1>3, <1>4, <2>1 DEF x, y
  <2>2. CASE ~(i <= b - a)
    <3> DEFINE j == i - (b - a)
    <3>1. j \in 1..(c - b)
      BY <2>2
    <3>2. Len(x) = b - a /\ Len(y) = c - b
      BY <1>1, <1>2 DEF x, y
    <3>3. (x \o y)[i] = y[j]
      BY <1>4, <2>2, <3>2
    <3>4. y[j] = b + j
      BY <1>2, <3>1 DEF y
    <3>5. Run(a, c)[i] = a + i
      BY <1>3
    <3>6. b + j = a + i
      OBVIOUS
    <3> QED
      BY <3>3, <3>4, <3>5, <3>6
  <2> QED
    BY <2>1, <2>2
<1>6. Len(x \o y) = c - a
  BY <1>1, <1>2, <1>4 DEF x, y
<1>7. x \o y = Run(a, c)
  BY <1>3, <1>4, <1>5, <1>6, SeqEqual
<1> QED
  BY <1>7 DEF x, y

-----------------------------------------------------------------------------
(* One worker.  While it reads, what it yielded is the run of events from  *)
(* where it began up to its token; a worker without a token has yielded    *)
(* nothing.  Only the last answer may leave the token where it was, and    *)
(* such an answer has no events.                                           *)

ReaderOK(s) ==
  /\ step[s] \in {"none", "queued", "call", "save", "read"}
  /\ entry[s] \in TokenOrNone /\ param[s] \in TokenOrNone /\ next[s] \in TokenOrNone
  /\ began[s] \in Nat \cup {-1}
  /\ empties[s] \in 0..MaxEmpty /\ calls[s] \in 0..MaxIterations
  /\ yielded[s] \in Seq(Nat)
  /\ step[s] \in {"none", "queued"} => yielded[s] = <<>>
  /\ step[s] \notin {"call", "save"} => next[s] = NoToken /\ began[s] = -1
  /\ next[s] # NoToken =>
       /\ began[s] \in Nat /\ began[s] <= next[s].at
       /\ yielded[s] = Run(began[s], next[s].at)
       /\ param[s] = next[s]
  /\ next[s] = NoToken /\ step[s] \in {"call", "save"} => yielded[s] = <<>>
  /\ next[s] = NoToken /\ step[s] = "call" => began[s] = -1

ReaderInv ==
  /\ contents \in [Stream -> Seq(Nat)] /\ fromTime \in [Stream -> Nat]
  /\ entry \in [Stream -> TokenOrNone]
  /\ step \in [Stream -> {"none", "queued", "call", "save", "read"}]
  /\ param \in [Stream -> TokenOrNone] /\ next \in [Stream -> TokenOrNone]
  /\ yielded \in [Stream -> Seq(Nat)]
  /\ empties \in [Stream -> 0..MaxEmpty]
  /\ calls \in [Stream -> 0..MaxIterations]
  /\ began \in [Stream -> Nat \cup {-1}]
  /\ \A s \in Stream : ReaderOK(s)

\* An answer continues where the token was.
LEMMA AnswerType ==
  ASSUME ReaderInv, NEW s \in Stream, NEW answer \in Answers(s)
  PROVE  /\ answer.from \in Nat /\ answer.to \in Nat /\ answer.from <= answer.to
         /\ answer.token \in Token /\ answer.token.at = answer.to
         /\ param[s] # NoToken => answer.from = param[s].at
<1>1. Events(s) \in Nat /\ fromTime[s] \in Nat
  BY DEF ReaderInv, Events
<1>2. CASE param[s] = NoToken
  <2>1. PICK i \in fromTime[s]..Events(s) :
          answer = [from |-> i, to |-> Events(s), token |-> [at |-> Events(s), mark |-> 0]]
    BY <1>2 DEF Answers
  <2> QED
    BY <1>1, <1>2, <2>1 DEF Token
<1>3. CASE param[s] # NoToken
  <2>1. param[s].at \in Nat
    BY <1>3 DEF ReaderInv, TokenOrNone, Token
  <2>2. PICK i \in param[s].at..Events(s), m \in {0, 1} :
          answer = [from |-> param[s].at, to |-> i, token |-> [at |-> i, mark |-> m]]
    BY <1>3 DEF Answers
  <2> QED
    BY <1>1, <2>1, <2>2 DEF Token
<1> QED
  BY <1>2, <1>3

LEMMA CallStep ==
  ASSUME ReaderInv, NEW s \in Stream, Call(s)
  PROVE  ReaderInv'
<1>1. PICK answer \in Answers(s) :
        LET empty == IF answer.from = answer.to THEN empties[s] + 1 ELSE 0
            stops == Stops(s, answer, empty)
        IN  /\ yielded' = [yielded EXCEPT ![s] = @ \o Run(answer.from, answer.to)]
            /\ began' = [began EXCEPT ![s] = IF @ = -1 THEN answer.from ELSE @]
            /\ empties' = [empties EXCEPT ![s] = IF empty < MaxEmpty THEN empty
                                                                     ELSE MaxEmpty]
            /\ GoOn(s, answer, stops)
            /\ step' = [step EXCEPT ![s] = IF stops THEN "save" ELSE "call"]
  BY DEF Call
<1> DEFINE empty == IF answer.from = answer.to THEN empties[s] + 1 ELSE 0
           stops == Stops(s, answer, empty)
<1>2. /\ answer.from \in Nat /\ answer.to \in Nat /\ answer.from <= answer.to
      /\ answer.token \in Token /\ answer.token.at = answer.to
      /\ param[s] # NoToken => answer.from = param[s].at
  BY AnswerType
<1>3. ReaderOK(s) /\ step[s] = "call" /\ calls[s] < MaxIterations
  BY DEF ReaderInv, Call, MayCall
<1>4. UNCHANGED <<contents, fromTime, entry>> /\ calls' = [calls EXCEPT ![s] = @ + 1]
  BY DEF Call
<1>5. empty \in Nat /\ MaxEmpty \in Nat \ {0}
  BY <1>3, ReaderAssumption DEF ReaderOK
<1>6. NoToken \notin Token /\ answer.token # NoToken
  BY <1>2, ReaderAssumption DEF Token
<1>7. stops => answer.from = answer.to
  <2>1. CASE empty >= MaxEmpty
    BY <1>5, <2>1
  <2>2. CASE answer.token = param[s]
    BY <1>2, <1>6, <2>2
  <2> QED
    BY <2>1, <2>2 DEF Stops
<1>8. Run(answer.from, answer.to) \in Seq(Nat)
  BY <1>2, RunSeq
<1>9. yielded'[s] = yielded[s] \o Run(answer.from, answer.to)
      /\ yielded'[s] \in Seq(Nat)
  BY <1>1, <1>8 DEF ReaderInv
<1>10. began'[s] = (IF began[s] = -1 THEN answer.from ELSE began[s])
  BY <1>1 DEF ReaderInv
<1>11. yielded'[s] = Run(began'[s], answer.to) /\ began'[s] \in Nat
       /\ began'[s] <= answer.to
  <2>1. CASE next[s] = NoToken
    <3>1. began'[s] = answer.from /\ yielded[s] = <<>>
      BY <1>2, <1>3, <1>10, <2>1 DEF ReaderOK
    <3>2. <<>> \o Run(answer.from, answer.to) = Run(answer.from, answer.to)
      BY <1>8, ConcatEmptySeq
    <3> QED
      BY <1>2, <1>9, <3>1, <3>2
  <2>2. CASE next[s] # NoToken
    <3>1. /\ began[s] \in Nat /\ began[s] <= answer.from
          /\ yielded[s] = Run(began[s], answer.from)
      BY <1>2, <1>3, <2>2 DEF ReaderOK
    <3>2. began'[s] = began[s]
      BY <1>10, <3>1
    <3> QED
      <4>1. Run(began[s], answer.from) \o Run(answer.from, answer.to)
              = Run(began[s], answer.to)
        BY <1>2, <3>1, RunAppend
      <4>2. began[s] <= answer.to
        BY <1>2, <3>1
      <4> QED
        BY <1>9, <3>1, <3>2, <4>1, <4>2
  <2> QED
    BY <2>1, <2>2
<1> HIDE DEF stops, empty
<1>12. /\ empties' \in [Stream -> 0..MaxEmpty]
       /\ calls' \in [Stream -> 0..MaxIterations]
       /\ step' \in [Stream -> {"none", "queued", "call", "save", "read"}]
       /\ step'[s] = IF stops THEN "save" ELSE "call"
       /\ yielded' \in [Stream -> Seq(Nat)]
       /\ began' \in [Stream -> Nat \cup {-1}]
  <2>1. empties' \in [Stream -> 0..MaxEmpty]
    BY <1>1, <1>5 DEF ReaderInv, empty
  <2>2. calls' \in [Stream -> 0..MaxIterations]
    BY <1>3, <1>4, ReaderAssumption DEF ReaderInv
  <2>3. step' = [step EXCEPT ![s] = IF stops THEN "save" ELSE "call"]
    BY <1>1 DEF stops, empty
  <2>4. began' \in [Stream -> Nat \cup {-1}]
    BY <1>1, <1>2 DEF ReaderInv
  <2> QED
    BY <1>1, <1>9, <2>1, <2>2, <2>3, <2>4 DEF ReaderInv
<1>13. /\ next' \in [Stream -> TokenOrNone] /\ param' \in [Stream -> TokenOrNone]
       /\ stops => next' = next /\ param' = param
       /\ ~stops => next'[s] = answer.token /\ param'[s] = answer.token
       /\ \A u \in Stream : u # s => next'[u] = next[u] /\ param'[u] = param[u]
  BY <1>1, <1>2 DEF GoOn, ReaderInv, TokenOrNone, stops, empty
<1>14. ReaderOK(s)'
  <2>1. CASE stops
    <3>1. yielded'[s] = yielded[s]
      <4>1. Run(answer.from, answer.to) = <<>>
        BY <1>2, <1>7, <2>1, RunEmpty
      <4> QED
        BY <1>3, <1>9, <4>1 DEF ReaderOK
    <3>2. next[s] # NoToken => answer.to = next[s].at
      BY <1>2, <1>3, <1>7, <2>1 DEF ReaderOK
    <3> QED
      BY <1>3, <1>4, <1>9, <1>11, <1>12, <1>13, <2>1, <3>1, <3>2
         DEF ReaderOK, ReaderInv
  <2>2. CASE ~stops
    BY <1>2, <1>3, <1>4, <1>6, <1>9, <1>11, <1>12, <1>13, <2>2
       DEF ReaderOK, ReaderInv
  <2> QED
    BY <2>1, <2>2
<1>15. ASSUME NEW u \in Stream, u # s PROVE ReaderOK(u)'
  <2>1. /\ step'[u] = step[u] /\ entry'[u] = entry[u] /\ param'[u] = param[u]
        /\ next'[u] = next[u] /\ began'[u] = began[u] /\ empties'[u] = empties[u]
        /\ calls'[u] = calls[u] /\ yielded'[u] = yielded[u]
    BY <1>1, <1>4, <1>13, <1>15 DEF ReaderInv
  <2> QED
    BY <2>1 DEF ReaderOK, ReaderInv
<1> QED
  BY <1>4, <1>12, <1>13, <1>14, <1>15 DEF ReaderInv

LEMMA OpenStep ==
  ASSUME ReaderInv, NEW s \in Stream, Open(s)
  PROVE  ReaderInv'
<1>1. /\ step[s] = "queued" /\ step' = [step EXCEPT ![s] = "call"]
      /\ UNCHANGED <<contents, fromTime, entry, next, yielded, empties, calls, began>>
      /\ entry[s] \in TokenOrNone /\ NoToken \in TokenOrNone
  BY DEF Open, ReaderInv, TokenOrNone
<1>2. PICK token \in TokenOrNone : param' = [param EXCEPT ![s] = token]
  BY <1>1 DEF Open
<1>3. param' \in [Stream -> TokenOrNone]
  BY <1>2 DEF ReaderInv
<1>4. ReaderOK(s)
  BY DEF ReaderInv
<1>5. ReaderOK(s)'
  BY <1>1, <1>3, <1>4 DEF ReaderInv, ReaderOK
<1>6. ASSUME NEW u \in Stream, u # s PROVE ReaderOK(u)'
  BY <1>1, <1>2, <1>6 DEF ReaderInv, ReaderOK
<1> QED
  BY <1>1, <1>3, <1>5, <1>6 DEF ReaderInv

LEMMA LeaveLoopStep ==
  ASSUME ReaderInv, NEW s \in Stream, LeaveLoop(s)
  PROVE  ReaderInv'
<1>1. /\ step[s] = "call" /\ step' = [step EXCEPT ![s] = "save"]
      /\ UNCHANGED <<contents, fromTime, entry, param, next, yielded, empties,
                     calls, began>>
  BY DEF LeaveLoop
<1>2. ReaderOK(s)'
  BY <1>1 DEF ReaderInv, ReaderOK
<1>3. ASSUME NEW u \in Stream, u # s PROVE ReaderOK(u)'
  BY <1>1, <1>3 DEF ReaderInv, ReaderOK
<1> QED
  BY <1>1, <1>2, <1>3 DEF ReaderInv

LEMMA SaveEntryStep ==
  ASSUME ReaderInv, NEW s \in Stream, SaveEntry(s)
  PROVE  ReaderInv'
<1>1. /\ step[s] = "save" /\ step' = [step EXCEPT ![s] = "read"]
      /\ param' = [param EXCEPT ![s] = NoToken]
      /\ next' = [next EXCEPT ![s] = NoToken]
      /\ empties' = [empties EXCEPT ![s] = 0]
      /\ calls' = [calls EXCEPT ![s] = 0]
      /\ began' = [began EXCEPT ![s] = -1]
      /\ UNCHANGED <<contents, fromTime, yielded>>
  BY DEF SaveEntry
<1>2. entry' = [entry EXCEPT ![s] = next[s]] \/ entry' = entry
  BY DEF SaveEntry
<1>3. entry' \in [Stream -> TokenOrNone]
  BY <1>2 DEF ReaderInv
<1>4. NoToken \in TokenOrNone /\ MaxEmpty \in Nat /\ MaxIterations \in Nat
  BY ReaderAssumption DEF TokenOrNone
<1>5. /\ empties' \in [Stream -> 0..MaxEmpty]
      /\ calls' \in [Stream -> 0..MaxIterations]
      /\ param' \in [Stream -> TokenOrNone] /\ next' \in [Stream -> TokenOrNone]
      /\ began' \in [Stream -> Nat \cup {-1}]
      /\ step' \in [Stream -> {"none", "queued", "call", "save", "read"}]
  BY <1>1, <1>4 DEF ReaderInv
<1>6. ReaderOK(s)'
  BY <1>1, <1>3, <1>4, <1>5 DEF ReaderInv, ReaderOK
<1>7. ASSUME NEW u \in Stream, u # s PROVE ReaderOK(u)'
  BY <1>1, <1>3, <1>7 DEF ReaderInv, ReaderOK
<1> QED
  BY <1>1, <1>3, <1>5, <1>6, <1>7 DEF ReaderInv

-----------------------------------------------------------------------------
(* The log group.  Outside the block of the executor no worker is at work  *)
(* and every result was taken; inside it, those are at rest which were not *)
(* submitted or whose result was taken.                                    *)

AtRest(s) == step[s] \in {"none", "read"} /\ yielded[s] = <<>>

PcSet == {"list", "read", "join", "compress", "clean", "upload", "done", "failed"}

PipeOK ==
  /\ contents \in Contents /\ fromTime \in Before
  /\ pc \in PcSet
  /\ prefix \in 1..Last
  /\ streams \subseteq Stream /\ collected \subseteq streams
  /\ temp \subseteq {"json", "gz"}
  /\ uploaded \subseteq 1..Last
  /\ "remove" \notin Faults /\ pc \notin {"compress", "clean"} => temp = {}
  /\ pc = "read" => \A s \in (Stream \ streams) \cup collected : AtRest(s)
  /\ pc \notin {"read", "join", "failed"} => \A s \in Stream : AtRest(s)

PipeInv == ReaderInv /\ PipeOK

LEMMA LastType == Last \in Nat \ {0}
<1>1. Prefixes \in Seq([name : Seq(STRING), streams : SUBSET Stream]) /\ Prefixes # <<>>
  BY PipelineAssumption
<1> QED
  BY <1>1, EmptySeq DEF Last

LEMMA NextPrefixStep ==
  ASSUME prefix \in 1..Last, NextPrefix
  PROVE  prefix' \in 1..Last /\ pc' \in {"list", "done"}
BY LastType DEF NextPrefix

LEMMA InitOK == Init => PipeInv
<1> SUFFICES ASSUME Init PROVE PipeInv
  OBVIOUS
<1>1. contents \in [Stream -> Seq(Nat)] /\ fromTime \in [Stream -> Nat]
      /\ contents \in Contents /\ fromTime \in Before
  BY PipelineAssumption DEF Init, ReaderInit
<1>2. entry \in [Stream -> TokenOrNone]
  <2>1. {NoToken} \cup [at : 0..1, mark : {0}] \subseteq TokenOrNone
    BY DEF TokenOrNone, Token
  <2> QED
    BY <2>1 DEF Init, ReaderInit
<1>3. /\ step = [s \in Stream |-> "none"] /\ param = [s \in Stream |-> NoToken]
      /\ next = [s \in Stream |-> NoToken] /\ yielded = [s \in Stream |-> <<>>]
      /\ empties = [s \in Stream |-> 0] /\ calls = [s \in Stream |-> 0]
      /\ began = [s \in Stream |-> -1]
  BY DEF Init, ReaderInit
<1>4. NoToken \in TokenOrNone /\ MaxEmpty \in Nat /\ MaxIterations \in Nat
      /\ <<>> \in Seq(Nat)
  BY ReaderAssumption, EmptySeq DEF TokenOrNone
<1>5. \A s \in Stream : ReaderOK(s)
  BY <1>2, <1>3, <1>4 DEF ReaderOK
<1>6. ReaderInv
  BY <1>1, <1>2, <1>3, <1>4, <1>5 DEF ReaderInv
<1>7. PipeOK
  BY <1>1, <1>3, LastType DEF Init, PipeOK, AtRest, PcSet
<1> QED
  BY <1>6, <1>7 DEF PipeInv

\* The variables of the readers are left alone: their invariant remains.
LEMMA ReadersSame ==
  ASSUME ReaderInv, UNCHANGED readerVars
  PROVE  ReaderInv'
BY DEF ReaderInv, ReaderOK, readerVars, worker, Run

LEMMA ListStep ==
  ASSUME PipeInv, List
  PROVE  PipeInv'
<1>1. PICK Listed \in SUBSET Stream :
        /\ streams' = Listed
        /\ step' = [s \in Stream |-> IF s \in Listed THEN "queued" ELSE "none"]
        /\ IF Listed = {} THEN NextPrefix ELSE pc' = "read" /\ UNCHANGED prefix
  <2>1. Prefixes[prefix].streams \subseteq Stream
    <3>1. prefix \in 1..Len(Prefixes)
      BY DEF PipeInv, PipeOK, Last
    <3>2. Prefixes[prefix] \in [name : Seq(STRING), streams : SUBSET Stream]
      BY <3>1, PipelineAssumption, ElementOfSeq
    <3> QED
      BY <3>2
  <2> QED
    BY <2>1 DEF List
<1>2. /\ UNCHANGED <<contents, fromTime, entry, param, next, yielded, empties,
                     calls, began, temp, uploaded>>
      /\ collected' = {} /\ pc = "list"
  BY DEF List
<1>3. \A s \in Stream : AtRest(s) /\ ReaderOK(s)
  BY <1>2 DEF PipeInv, PipeOK, ReaderInv
<1>4. \A s \in Stream : yielded'[s] = <<>> /\ (s \notin streams' => step'[s] = "none")
  BY <1>1, <1>2, <1>3 DEF AtRest
<1>5. ReaderInv'
  <2>1. ASSUME NEW s \in Stream PROVE ReaderOK(s)'
    BY <1>1, <1>2, <1>3 DEF ReaderOK, AtRest
  <2>2. step' \in [Stream -> {"none", "queued", "call", "save", "read"}]
    BY <1>1
  <2> QED
    BY <1>2, <2>1, <2>2 DEF PipeInv, ReaderInv
<1>6. prefix' \in 1..Last /\ pc' \in {"list", "done", "read"}
      /\ (pc' # "read" => streams' = {})
  BY <1>1, NextPrefixStep DEF PipeInv, PipeOK
<1>7. \A s \in Stream \ streams' : AtRest(s)'
  BY <1>4 DEF AtRest
<1>8. PipeOK'
  BY <1>1, <1>2, <1>6, <1>7 DEF PipeInv, PipeOK, PcSet
<1> QED
  BY <1>5, <1>8 DEF PipeInv

LEMMA WorkStep ==
  ASSUME PipeInv, NEW s \in Stream, Work(s)
  PROVE  PipeInv'
<1>1. ReaderInv'
  BY CallStep, OpenStep, LeaveLoopStep, SaveEntryStep DEF Work, Read, PipeInv
<1>2. /\ pc \in {"read", "join"} /\ step[s] \in {"queued", "call", "save"}
      /\ UNCHANGED <<pc, prefix, streams, collected, temp, uploaded, contents, fromTime>>
      /\ \A u \in Stream : u # s => step'[u] = step[u] /\ yielded'[u] = yielded[u]
  BY DEF Work, Read, Open, Call, LeaveLoop, SaveEntry, PipeInv, ReaderInv
<1>3. PipeOK'
  BY <1>2 DEF PipeInv, PipeOK, AtRest
<1> QED
  BY <1>1, <1>3 DEF PipeInv

LEMMA CollectStep ==
  ASSUME PipeInv, NEW s \in Stream, Collect(s)
  PROVE  PipeInv'
<1>1. /\ pc = "read" /\ s \in streams /\ step[s] = "read"
      /\ collected' = collected \cup {s}
      /\ yielded' = [yielded EXCEPT ![s] = <<>>]
      /\ UNCHANGED <<contents, fromTime, entry, step, param, next, empties, calls,
                     began, pc, prefix, streams, temp, uploaded>>
  BY DEF Collect
<1>2. /\ yielded'[s] = <<>> /\ \A u \in Stream : u # s => yielded'[u] = yielded[u]
      /\ yielded' \in [Stream -> Seq(Nat)]
  BY <1>1, EmptySeq DEF PipeInv, ReaderInv
<1>3. ASSUME NEW u \in Stream PROVE ReaderOK(u)'
  BY <1>1, <1>2 DEF PipeInv, ReaderInv, ReaderOK
<1>4. ReaderInv'
  BY <1>1, <1>2, <1>3 DEF PipeInv, ReaderInv
<1>5. PipeOK'
  BY <1>1, <1>2 DEF PipeInv, PipeOK, AtRest, PcSet
<1> QED
  BY <1>4, <1>5 DEF PipeInv

\* When every result was taken, no worker is left with anything.
LEMMA AllAtRest ==
  ASSUME PipeInv, pc = "read", collected = streams
  PROVE  \A s \in Stream : AtRest(s)
BY DEF PipeInv, PipeOK

LEMMA OtherSteps ==
  ASSUME PipeInv,
         \/ ReadTimeout \/ Joined \/ AllCollected \/ WriteTemp \/ Compressed
         \/ CompressionFailed \/ Upload \/ UploadFails
  PROVE  PipeInv'
<1>1. UNCHANGED readerVars
  BY DEF ReadTimeout, Joined, AllCollected, WriteTemp, Compressed,
         CompressionFailed, Upload, UploadFails
<1>2. ReaderInv' /\ \A s \in Stream : AtRest(s)' <=> AtRest(s)
  BY <1>1, ReadersSame DEF PipeInv, readerVars, worker, AtRest
<1>3. contents' \in Contents /\ fromTime' \in Before
      /\ streams' \subseteq Stream /\ collected' \subseteq streams'
  BY <1>1 DEF ReadTimeout, Joined, AllCollected, WriteTemp, Compressed,
         CompressionFailed, Upload, UploadFails, PipeInv, PipeOK, readerVars
<1>4. prefix' \in 1..Last /\ pc' \in PcSet
  BY NextPrefixStep DEF ReadTimeout, Joined, AllCollected, WriteTemp, Compressed,
         CompressionFailed, Upload, UploadFails, PipeInv, PipeOK, PcSet
<1>5. uploaded' \subseteq 1..Last
  BY DEF ReadTimeout, Joined, AllCollected, WriteTemp, Compressed,
         CompressionFailed, Upload, UploadFails, PipeInv, PipeOK
<1>6. /\ temp' \subseteq {"json", "gz"}
      /\ "remove" \notin Faults /\ pc' \notin {"compress", "clean"} => temp' = {}
  <2>1. CASE WriteTemp
    <3>1. TempFile[Cardinality(temp) + 1] \in {"json", "gz"}
      <4>1. temp \subseteq {"json", "gz"}
        BY DEF PipeInv, PipeOK
      <4>2. IsFiniteSet(temp) /\ Cardinality(temp) \in Nat
        <5>1. IsFiniteSet({"json"}) /\ IsFiniteSet({"json"} \cup {"gz"})
          BY FS_Singleton, FS_AddElement
        <5>2. {"json", "gz"} = {"json"} \cup {"gz"}
          OBVIOUS
        <5> QED
          BY <4>1, <5>1, <5>2, FS_Subset, FS_CardinalityType
      <4>3. Cardinality(temp) < 2
        <5>1. Files \in {1, 2}
          BY DEF Files, TempFile
        <5> QED
          BY <2>1, <4>2, <5>1 DEF WriteTemp
      <4>4. Cardinality(temp) \in {0, 1}
        BY <4>2, <4>3
      <4>5. CASE Cardinality(temp) = 0
        BY <4>5 DEF TempFile
      <4>6. CASE Cardinality(temp) = 1
        BY <4>6 DEF TempFile
      <4> QED
        BY <4>4, <4>5, <4>6
    <3>2. temp' = temp \cup {TempFile[Cardinality(temp) + 1]}
          /\ pc' \in {"compress", "clean"}
      BY <2>1 DEF WriteTemp
    <3> QED
      BY <3>1, <3>2 DEF PipeInv, PipeOK
  <2>2. CASE Compressed \/ CompressionFailed
    BY <2>2 DEF Compressed, CompressionFailed, Removed, PipeInv, PipeOK
  <2>3. CASE ~(WriteTemp \/ Compressed \/ CompressionFailed)
    BY <2>3 DEF ReadTimeout, Joined, AllCollected, Upload, UploadFails, PipeInv, PipeOK
  <2> QED
    BY <2>1, <2>2, <2>3
<1>7. /\ pc' # "read"
      /\ pc' \notin {"read", "join", "failed"} => \A s \in Stream : AtRest(s)
  <2>1. CASE AllCollected
    BY <2>1, AllAtRest, NextPrefixStep DEF AllCollected, PipeInv, PipeOK
  <2>2. CASE ~AllCollected
    BY <2>2, NextPrefixStep DEF ReadTimeout, Joined, WriteTemp, Compressed,
         CompressionFailed, Upload, UploadFails, PipeInv, PipeOK
  <2> QED
    BY <2>1, <2>2
<1>8. PipeOK'
  BY <1>2, <1>3, <1>4, <1>5, <1>6, <1>7 DEF PipeOK
<1> QED
  BY <1>2, <1>8 DEF PipeInv

LEMMA Inductive == Spec => []PipeInv
<1>1. PipeInv /\ [Next]_vars => PipeInv'
  <2>1. CASE UNCHANGED vars
    <3>1. PipeInv /\ UNCHANGED vars => ReaderInv'
      BY ReadersSame DEF PipeInv, vars
    <3>2. PipeInv /\ UNCHANGED vars => PipeOK'
      BY DEF PipeInv, PipeOK, AtRest, vars, pipeVars, readerVars, worker
    <3> QED
      BY <2>1, <3>1, <3>2 DEF PipeInv
  <2>2. CASE Next
    BY <2>2, ListStep, WorkStep, CollectStep, OtherSteps DEF Next
  <2> QED
    BY <2>1, <2>2
<1> QED
  BY <1>1, InitOK, PTL DEF Spec

\* Every variable keeps its type: process_single_log_group from its list of
\* prefixes on, whatever the faults.
THEOREM TypeCorrect == Spec => []TypeOK
<1>1. PipeInv => TypeOK
  BY DEF PipeInv, PipeOK, ReaderInv, TypeOK, PcSet
<1> QED
  BY <1>1, Inductive, PTL

\* The token a worker is about to save is exactly the place up to which it
\* yielded the events (_get_log_events_internal), for every paging CloudWatch
\* may choose.
THEOREM TokensExact == Spec => []TokenExact
<1>1. PipeInv => TokenExact
  BY DEF PipeInv, ReaderInv, ReaderOK, TokenExact
<1> QED
  BY <1>1, Inductive, PTL

\* No temporary file is left by a compression (LogCompressor), unless its
\* removal fails.
THEOREM TempRemoved == Spec => []NoTempLeft
<1>1. PipeInv => NoTempLeft
  BY DEF PipeInv, PipeOK, NoTempLeft
<1> QED
  BY <1>1, Inductive, PTL

-----------------------------------------------------------------------------
(* Sorting.  The place of an entry is the number of entries not after it;   *)
(* entries of the same time are ordered as they were.                       *)

NotAfter(l, j, k) == l[j].time < l[k].time \/ (l[j].time = l[k].time /\ j <= k)

PlaceIn(l, k) == Cardinality({j \in DOMAIN l : NotAfter(l, j, k)})

Timed(l) == \A j \in 1..Len(l) : l[j].time \in Nat

LEMMA SortedDef ==
  ASSUME NEW l
  PROVE  Sorted(l) = [n \in DOMAIN l |-> l[CHOOSE k \in DOMAIN l : PlaceIn(l, k) = n]]
BY DEF Sorted, PlaceIn, NotAfter

\* Entries take different places, in their order, and every place is taken.
LEMMA Places ==
  ASSUME NEW S, NEW l \in Seq(S), Timed(l)
  PROVE  /\ \A k \in 1..Len(l) : PlaceIn(l, k) \in 1..Len(l)
         /\ \A j, k \in 1..Len(l) : NotAfter(l, j, k) /\ j # k => PlaceIn(l, j) < PlaceIn(l, k)
         /\ \A j, k \in 1..Len(l) : NotAfter(l, j, k) \/ NotAfter(l, k, j)
         /\ \A n \in 1..Len(l) : \E k \in 1..Len(l) : PlaceIn(l, k) = n
<1> DEFINE N == Len(l)
           Upto(k) == {j \in DOMAIN l : NotAfter(l, j, k)}
           p == [k \in 1..N |-> PlaceIn(l, k)]
<1>1. N \in Nat /\ DOMAIN l = 1..N
  OBVIOUS
<1>2. IsFiniteSet(1..N) /\ Cardinality(1..N) = N
  BY <1>1, FS_Interval
<1>3. \A k \in 1..N : Upto(k) \subseteq 1..N /\ k \in Upto(k)
  BY <1>1 DEF NotAfter, Timed
<1>4. \A k \in 1..N : IsFiniteSet(Upto(k)) /\ Cardinality(Upto(k)) \in Nat
                      /\ Cardinality(Upto(k)) <= N
  <2> TAKE k \in 1..N
  <2> HIDE DEF Upto, N
  <2> QED
    BY <1>2, <1>3, FS_Subset, FS_CardinalityType
<1>5. \A k \in 1..N : PlaceIn(l, k) = Cardinality(Upto(k))
  BY DEF PlaceIn
<1>6. ASSUME NEW k \in 1..N PROVE PlaceIn(l, k) \in 1..N
  <2>1. Cardinality(Upto(k)) # 0
    <3> HIDE DEF Upto, N
    <3> QED
      BY <1>3, <1>4, FS_EmptySet
  <2>2. Cardinality(Upto(k)) \in 1..N
    <3> HIDE DEF Upto, N
    <3> QED
      BY <1>1, <1>4, <2>1
  <2> QED
    BY <1>5, <2>2
<1>7. ASSUME NEW j \in 1..N, NEW k \in 1..N
      PROVE  NotAfter(l, j, k) \/ NotAfter(l, k, j)
  BY <1>1 DEF NotAfter, Timed
<1>8. ASSUME NEW j \in 1..N, NEW k \in 1..N, NotAfter(l, j, k), j # k
      PROVE  PlaceIn(l, j) < PlaceIn(l, k)
  <2>1. Upto(j) \subseteq Upto(k)
    BY <1>1, <1>8 DEF NotAfter, Timed
  <2>2. k \notin Upto(j)
    BY <1>1, <1>8 DEF NotAfter, Timed
  <2>3. k \in Upto(k)
    BY <1>3
  <2> HIDE DEF Upto, N
  <2>4. Cardinality(Upto(j)) <= Cardinality(Upto(k))
        /\ (Cardinality(Upto(j)) = Cardinality(Upto(k)) => Upto(j) = Upto(k))
    BY <1>4, <2>1, FS_Subset
  <2>5. Cardinality(Upto(j)) < Cardinality(Upto(k))
    BY <2>2, <2>3, <2>4, <1>4
  <2> QED
    BY <1>5, <2>5
<1>9. ASSUME NEW n \in 1..N PROVE \E k \in 1..N : PlaceIn(l, k) = n
  <2>1. p \in [1..N -> 1..N]
    BY <1>6
  <2>2. \A j, k \in 1..N : p[j] = p[k] => j = k
    <3> SUFFICES ASSUME NEW j \in 1..N, NEW k \in 1..N, j # k PROVE p[j] # p[k]
      OBVIOUS
    <3>1. PlaceIn(l, j) \in 1..N /\ PlaceIn(l, k) \in 1..N
      BY <1>6
    <3>2. PlaceIn(l, j) < PlaceIn(l, k) \/ PlaceIn(l, k) < PlaceIn(l, j)
      BY <1>7, <1>8
    <3> QED
      BY <3>1, <3>2
  <2>3. p \in Injection(1..N, 1..N)
    BY <2>1, <2>2 DEF Injection, IsInjective
  <2> HIDE DEF p, N
  <2>4. p \in Surjection(1..N, 1..N)
    BY <1>2, <2>3, FS_Injection
  <2>5. \E k \in 1..N : p[k] = n
    BY <2>4 DEF Surjection
  <2> QED
    BY <2>5 DEF p
<1> QED
  BY <1>6, <1>7, <1>8, <1>9

\* What list.sort does: the entries are the same, each at its place.
LEMMA SortedPlaces ==
  ASSUME NEW S, NEW l \in Seq(S), Timed(l)
  PROVE  /\ Sorted(l) \in Seq(S) /\ Len(Sorted(l)) = Len(l)
         /\ \A k \in 1..Len(l) : Sorted(l)[PlaceIn(l, k)] = l[k]
<1>1. Len(l) \in Nat /\ DOMAIN l = 1..Len(l) /\ \A k \in 1..Len(l) : l[k] \in S
  OBVIOUS
<1> DEFINE At(n) == CHOOSE k \in DOMAIN l : PlaceIn(l, k) = n
<1>2. \A n \in 1..Len(l) : At(n) \in 1..Len(l) /\ PlaceIn(l, At(n)) = n
  BY <1>1, Places
<1>3. \A k \in 1..Len(l) : At(PlaceIn(l, k)) = k
  <2> TAKE k \in 1..Len(l)
  <2> DEFINE j == At(PlaceIn(l, k))
  <2>1. PlaceIn(l, k) \in 1..Len(l)
    BY Places
  <2>2. j \in 1..Len(l) /\ PlaceIn(l, j) = PlaceIn(l, k)
    BY <1>2, <2>1
  <2> HIDE DEF j
  <2>3. j = k
    <3> SUFFICES ASSUME j # k PROVE FALSE
      OBVIOUS
    <3>1. PlaceIn(l, j) < PlaceIn(l, k) \/ PlaceIn(l, k) < PlaceIn(l, j)
      BY <2>2, Places
    <3> QED
      BY <3>1, <2>1, <2>2
  <2> QED
    BY <2>3 DEF j
<1>4. Sorted(l) = [n \in 1..Len(l) |-> l[At(n)]]
  BY <1>1, SortedDef
<1> HIDE DEF At
<1>5. \A n \in 1..Len(l) : l[At(n)] \in S
  BY <1>1, <1>2
<1>6. Sorted(l) \in Seq(S) /\ Len(Sorted(l)) = Len(l)
  BY <1>1, <1>4, <1>5
<1>7. ASSUME NEW k \in 1..Len(l) PROVE Sorted(l)[PlaceIn(l, k)] = l[k]
  <2>1. PlaceIn(l, k) \in 1..Len(l)
    BY Places
  <2> QED
    BY <1>3, <1>4, <2>1
<1> QED
  BY <1>6, <1>7

LEMMA SortedInTime ==
  ASSUME NEW S, NEW l \in Seq(S), Timed(l)
  PROVE  InTime(Sorted(l)) /\ Timed(Sorted(l))
<1>1. Len(l) \in Nat /\ Sorted(l) \in Seq(S) /\ Len(Sorted(l)) = Len(l)
      /\ DOMAIN Sorted(l) = 1..Len(l)
  BY SortedPlaces
<1>2. ASSUME NEW n \in 1..Len(l)
      PROVE  \E k \in 1..Len(l) : PlaceIn(l, k) = n /\ Sorted(l)[n] = l[k]
  <2>1. PICK k \in 1..Len(l) : PlaceIn(l, k) = n
    BY Places
  <2>2. Sorted(l)[PlaceIn(l, k)] = l[k]
    BY SortedPlaces
  <2> QED
    BY <2>1, <2>2
<1>3. ASSUME NEW m \in 1..Len(l), NEW n \in 1..Len(l), m < n
      PROVE  Sorted(l)[m].time <= Sorted(l)[n].time
  <2>1. PICK j \in 1..Len(l) : PlaceIn(l, j) = m /\ Sorted(l)[m] = l[j]
    BY <1>2
  <2>2. PICK k \in 1..Len(l) : PlaceIn(l, k) = n /\ Sorted(l)[n] = l[k]
    BY <1>2
  <2>3. ~NotAfter(l, k, j) /\ j # k
    <3>1. j # k
      BY <2>1, <2>2, <1>3
    <3>2. ASSUME NotAfter(l, k, j) PROVE FALSE
      <4>1. PlaceIn(l, k) < PlaceIn(l, j)
        BY <3>1, <3>2, Places
      <4> QED
        BY <4>1, <2>1, <2>2, <1>3
    <3> QED
      BY <3>1, <3>2
  <2>4. l[j].time \in Nat /\ l[k].time \in Nat
    BY DEF Timed
  <2>5. l[j].time <= l[k].time
    BY <2>3, <2>4 DEF NotAfter
  <2> QED
    BY <2>1, <2>2, <2>5
<1>4. InTime(Sorted(l))
  BY <1>1, <1>3 DEF InTime
<1>5. Timed(Sorted(l))
  BY <1>1, <1>2 DEF Timed
<1> QED
  BY <1>4, <1>5

\* The entries of stream s in o are all of those events, in that order.
HoldsAll(o, s, events) ==
  \E place \in [DOMAIN events -> DOMAIN o] :
    /\ \A j, k \in DOMAIN events : j < k => place[j] < place[k]
    /\ \A k \in DOMAIN events : o[place[k]].stream = s /\ o[place[k]].number = events[k]
    /\ \A n \in DOMAIN o : o[n].stream = s => \E k \in DOMAIN events : place[k] = n

\* Entries of a stream that are in the order of time stay in their order.
LEMMA SortedHolds ==
  ASSUME NEW S, NEW l \in Seq(S), Timed(l), NEW s, NEW events \in Seq(Nat),
         HoldsAll(l, s, events),
         \A j, k \in 1..Len(l) : j < k /\ l[j].stream = s /\ l[k].stream = s
                                 => l[j].time <= l[k].time
  PROVE  HoldsAll(Sorted(l), s, events)
<1>1. PICK place \in [DOMAIN events -> DOMAIN l] :
        /\ \A j, k \in DOMAIN events : j < k => place[j] < place[k]
        /\ \A k \in DOMAIN events : l[place[k]].stream = s /\ l[place[k]].number = events[k]
        /\ \A n \in DOMAIN l : l[n].stream = s => \E k \in DOMAIN events : place[k] = n
  BY DEF HoldsAll
<1>2. Len(l) \in Nat /\ DOMAIN l = 1..Len(l) /\ Sorted(l) \in Seq(S)
      /\ DOMAIN Sorted(l) = 1..Len(l)
  BY SortedPlaces
<1> DEFINE there == [k \in DOMAIN events |-> PlaceIn(l, place[k])]
<1>3. \A k \in DOMAIN events : place[k] \in 1..Len(l)
  BY <1>1, <1>2
<1>4. there \in [DOMAIN events -> DOMAIN Sorted(l)]
  BY <1>2, <1>3, Places
<1>5. ASSUME NEW j \in DOMAIN events, NEW k \in DOMAIN events, j < k
      PROVE  there[j] < there[k]
  <2>1. place[j] < place[k] /\ place[j] \in 1..Len(l) /\ place[k] \in 1..Len(l)
    BY <1>1, <1>3, <1>5
  <2>2. l[place[j]].time <= l[place[k]].time
    BY <1>1, <2>1
  <2>3. NotAfter(l, place[j], place[k]) /\ place[j] # place[k]
    BY <2>1, <2>2, <1>2 DEF NotAfter, Timed
  <2> QED
    BY <2>1, <2>3, Places
<1>6. ASSUME NEW k \in DOMAIN events
      PROVE  Sorted(l)[there[k]].stream = s /\ Sorted(l)[there[k]].number = events[k]
  <2>1. Sorted(l)[there[k]] = l[place[k]]
    BY <1>3, SortedPlaces
  <2> QED
    BY <1>1, <2>1
<1>7. ASSUME NEW n \in DOMAIN Sorted(l), Sorted(l)[n].stream = s
      PROVE  \E k \in DOMAIN events : there[k] = n
  <2>1. PICK i \in 1..Len(l) : PlaceIn(l, i) = n
    BY <1>2, Places
  <2>2. l[i].stream = s
    BY <1>7, <2>1, SortedPlaces
  <2>3. PICK k \in DOMAIN events : place[k] = i
    BY <1>1, <1>2, <2>1, <2>2
  <2> QED
    BY <2>1, <2>3
<1> HIDE DEF there
<1> QED
  BY <1>4, <1>5, <1>6, <1>7 DEF HoldsAll

LEMMA HoldsNothing ==
  ASSUME NEW l, NEW s
  PROVE  HoldsAll(l, s, <<>>) <=> \A n \in DOMAIN l : l[n].stream # s
<1>1. DOMAIN <<>> = {}
  OBVIOUS
<1>2. ASSUME \A n \in DOMAIN l : l[n].stream # s PROVE HoldsAll(l, s, <<>>)
  <2>1. [x \in {} |-> 0] \in [DOMAIN <<>> -> DOMAIN l]
    BY <1>1
  <2> QED
    BY <1>1, <1>2, <2>1 DEF HoldsAll
<1> QED
  BY <1>1, <1>2 DEF HoldsAll

LEMMA ConcatParts ==
  ASSUME NEW S, NEW l \in Seq(S), NEW m \in Seq(S)
  PROVE  /\ Len(l) \in Nat /\ DOMAIN l = 1..Len(l) /\ Len(m) \in Nat
         /\ l \o m \in Seq(S) /\ Len(l \o m) = Len(l) + Len(m)
         /\ DOMAIN (l \o m) = 1..(Len(l) + Len(m))
         /\ \A n \in 1..Len(l) : (l \o m)[n] = l[n]
         /\ \A n \in 1..(Len(l) + Len(m)) : n > Len(l) => (l \o m)[n] = m[n - Len(l)]
BY ConcatProperties

\* Entries of other streams behind.
LEMMA HoldsAppend ==
  ASSUME NEW S, NEW l \in Seq(S), NEW m \in Seq(S), NEW s, NEW events,
         HoldsAll(l, s, events), \A n \in 1..Len(m) : m[n].stream # s
  PROVE  HoldsAll(l \o m, s, events)
<1>1. PICK place \in [DOMAIN events -> DOMAIN l] :
        /\ \A j, k \in DOMAIN events : j < k => place[j] < place[k]
        /\ \A k \in DOMAIN events : l[place[k]].stream = s /\ l[place[k]].number = events[k]
        /\ \A n \in DOMAIN l : l[n].stream = s => \E k \in DOMAIN events : place[k] = n
  BY DEF HoldsAll
<1>2. /\ Len(l) \in Nat /\ DOMAIN l = 1..Len(l) /\ Len(m) \in Nat
      /\ DOMAIN (l \o m) = 1..(Len(l) + Len(m))
      /\ \A n \in 1..Len(l) : (l \o m)[n] = l[n]
      /\ \A n \in 1..(Len(l) + Len(m)) : n > Len(l) => (l \o m)[n] = m[n - Len(l)]
  BY ConcatParts
<1>3. place \in [DOMAIN events -> DOMAIN (l \o m)]
  BY <1>1, <1>2
<1>4. \A k \in DOMAIN events : (l \o m)[place[k]] = l[place[k]]
  BY <1>1, <1>2
<1>5. ASSUME NEW n \in DOMAIN (l \o m), (l \o m)[n].stream = s
      PROVE  \E k \in DOMAIN events : place[k] = n
  <2>1. n \in 1..Len(l)
    <3> SUFFICES ASSUME n \notin 1..Len(l) PROVE FALSE
      OBVIOUS
    <3>1. n > Len(l) /\ n - Len(l) \in 1..Len(m)
      BY <1>2
    <3> QED
      BY <3>1, <1>2, <1>5
  <2> QED
    BY <2>1, <1>1, <1>2, <1>5
<1>6. /\ \A j, k \in DOMAIN events : j < k => place[j] < place[k]
      /\ \A k \in DOMAIN events :
           (l \o m)[place[k]].stream = s /\ (l \o m)[place[k]].number = events[k]
  BY <1>1, <1>4
<1> QED
  BY <1>3, <1>5, <1>6 DEF HoldsAll

\* The entries of a stream that has none so far.
LEMMA HoldsNew ==
  ASSUME NEW S, NEW l \in Seq(S), NEW m \in Seq(S), NEW s, NEW events \in Seq(Nat),
         \A n \in 1..Len(l) : l[n].stream # s,
         Len(m) = Len(events),
         \A n \in 1..Len(m) : m[n].stream = s /\ m[n].number = events[n]
  PROVE  HoldsAll(l \o m, s, events)
<1>1. /\ Len(l) \in Nat /\ Len(m) \in Nat
      /\ DOMAIN (l \o m) = 1..(Len(l) + Len(m))
      /\ \A n \in 1..Len(l) : (l \o m)[n] = l[n]
      /\ \A n \in 1..(Len(l) + Len(m)) : n > Len(l) => (l \o m)[n] = m[n - Len(l)]
  BY ONLY ConcatParts, l \in Seq(S), m \in Seq(S)
<1>0. DOMAIN events = 1..Len(m)
  OBVIOUS
<1> DEFINE place == [k \in DOMAIN events |-> Len(l) + k]
<1>2. place \in [DOMAIN events -> DOMAIN (l \o m)]
  BY <1>0, <1>1
<1>3. \A j, k \in DOMAIN events : j < k => place[j] < place[k]
  BY <1>0, <1>1
<1>4. ASSUME NEW k \in DOMAIN events
      PROVE  (l \o m)[place[k]].stream = s /\ (l \o m)[place[k]].number = events[k]
  <2>1. Len(l) + k \in 1..(Len(l) + Len(m)) /\ Len(l) + k > Len(l)
        /\ Len(l) + k - Len(l) = k
    BY <1>0, <1>1
  <2>2. (l \o m)[Len(l) + k] = m[k]
    BY <1>0, <1>1, <2>1
  <2> QED
    BY <1>0, <1>1, <2>2
<1>5. ASSUME NEW n \in DOMAIN (l \o m), (l \o m)[n].stream = s
      PROVE  \E k \in DOMAIN events : place[k] = n
  <2>1. n > Len(l)
    BY <1>0, <1>1, <1>5
  <2>2. n - Len(l) \in DOMAIN events /\ Len(l) + (n - Len(l)) = n
    BY <1>0, <1>1, <2>1
  <2> QED
    BY <2>2
<1> HIDE DEF place
<1> QED
  BY <1>2, <1>3, <1>4, <1>5 DEF HoldsAll

-----------------------------------------------------------------------------
(* The lines that are written are the entries that can be, in their order.  *)

Lines(l) == {k \in DOMAIN l : Writable(l[k].stream, l[k].number)}

LineOf(l, k) == Cardinality({j \in Lines(l) : j <= k})

LEMMA KeptDef ==
  ASSUME NEW l
  PROVE  Kept(l) = [n \in 1..Cardinality(Lines(l)) |->
                      l[CHOOSE k \in Lines(l) : LineOf(l, k) = n]]
BY DEF Kept, Lines, LineOf

\* Entries that can be written have different lines, in their order, and every
\* line is one of them.
LEMMA LinesInOrder ==
  ASSUME NEW S, NEW l \in Seq(S)
  PROVE  /\ Lines(l) \subseteq 1..Len(l) /\ Cardinality(Lines(l)) \in Nat
         /\ \A k \in Lines(l) : LineOf(l, k) \in 1..Cardinality(Lines(l))
         /\ \A j, k \in Lines(l) : j < k => LineOf(l, j) < LineOf(l, k)
         /\ \A n \in 1..Cardinality(Lines(l)) : \E k \in Lines(l) : LineOf(l, k) = n
<1> DEFINE K == Lines(l)
           N == Cardinality(K)
           Upto(k) == {j \in K : j <= k}
           p == [k \in K |-> LineOf(l, k)]
<1>1. K \subseteq 1..Len(l) /\ Len(l) \in Nat
  BY DEF Lines
<1>2. IsFiniteSet(K) /\ N \in Nat
  <2>1. IsFiniteSet(1..Len(l))
    BY <1>1, FS_Interval
  <2> HIDE DEF K
  <2> QED
    BY <1>1, <2>1, FS_Subset, FS_CardinalityType
<1>3. \A k \in K : k \in Nat /\ Upto(k) \subseteq K /\ k \in Upto(k)
  BY <1>1
<1>4. \A k \in K : IsFiniteSet(Upto(k)) /\ Cardinality(Upto(k)) \in Nat
                  /\ Cardinality(Upto(k)) <= N
  <2> TAKE k \in K
  <2> HIDE DEF Upto, K
  <2> QED
    BY <1>2, <1>3, FS_Subset, FS_CardinalityType
<1>5. \A k \in K : LineOf(l, k) = Cardinality(Upto(k))
  BY DEF LineOf
<1>6. ASSUME NEW k \in K PROVE LineOf(l, k) \in 1..N
  <2>1. Cardinality(Upto(k)) # 0
    <3> HIDE DEF Upto, K, N
    <3> QED
      BY <1>3, <1>4, FS_EmptySet
  <2>2. Cardinality(Upto(k)) \in 1..N
    <3> HIDE DEF Upto, K, N
    <3> QED
      BY <1>2, <1>4, <2>1
  <2> QED
    BY <1>5, <2>2
<1>7. ASSUME NEW j \in K, NEW k \in K, j < k
      PROVE  LineOf(l, j) < LineOf(l, k)
  <2>1. Upto(j) \subseteq Upto(k) /\ k \notin Upto(j) /\ k \in Upto(k)
    BY <1>3, <1>7
  <2> HIDE DEF Upto, K, N
  <2>2. Cardinality(Upto(j)) <= Cardinality(Upto(k))
        /\ (Cardinality(Upto(j)) = Cardinality(Upto(k)) => Upto(j) = Upto(k))
    BY <1>4, <2>1, FS_Subset
  <2>3. Cardinality(Upto(j)) < Cardinality(Upto(k))
    BY <2>1, <2>2, <1>4
  <2> QED
    BY <1>5, <2>3
<1>8. ASSUME NEW n \in 1..N PROVE \E k \in K : LineOf(l, k) = n
  <2>1. p \in [K -> 1..N]
    BY <1>6
  <2>2. \A j, k \in K : p[j] = p[k] => j = k
    <3> SUFFICES ASSUME NEW j \in K, NEW k \in K, j # k PROVE p[j] # p[k]
      OBVIOUS
    <3>1. LineOf(l, j) \in 1..N /\ LineOf(l, k) \in 1..N
      BY <1>6
    <3>2. LineOf(l, j) < LineOf(l, k) \/ LineOf(l, k) < LineOf(l, j)
      BY <1>3, <1>7
    <3> QED
      BY <3>1, <3>2
  <2>3. p \in Injection(K, 1..N)
    BY <2>1, <2>2 DEF Injection, IsInjective
  <2>4. IsFiniteSet(1..N) /\ Cardinality(1..N) = N
    <3> HIDE DEF N
    <3> QED
      BY <1>2, FS_Interval
  <2>5. Cardinality(K) = N
    OBVIOUS
  <2> HIDE DEF p, N, K
  <2>6. p \in Surjection(K, 1..N)
    BY <1>2, <2>3, <2>4, <2>5, FS_Injection
  <2>7. \E k \in K : p[k] = n
    BY <2>6 DEF Surjection
  <2> QED
    BY <2>7 DEF p
<1> QED
  BY <1>1, <1>2, <1>6, <1>7, <1>8

LEMMA KeptLines ==
  ASSUME NEW S, NEW l \in Seq(S)
  PROVE  /\ DOMAIN Kept(l) = 1..Cardinality(Lines(l))
         /\ \A k \in Lines(l) : Kept(l)[LineOf(l, k)] = l[k]
<1> DEFINE At(n) == CHOOSE k \in Lines(l) : LineOf(l, k) = n
<1>1. Kept(l) = [n \in 1..Cardinality(Lines(l)) |-> l[At(n)]]
  BY KeptDef
<1>2. ASSUME NEW k \in Lines(l) PROVE At(LineOf(l, k)) = k
  <2> DEFINE j == At(LineOf(l, k))
  <2>1. j \in Lines(l) /\ LineOf(l, j) = LineOf(l, k)
    OBVIOUS
  <2> HIDE DEF j
  <2>2. \A i \in Lines(l) : i \in Nat /\ LineOf(l, i) \in Nat
    BY LinesInOrder
  <2>3. ~(j < k) /\ ~(k < j)
    BY <2>1, <2>2, LinesInOrder
  <2>4. j = k
    BY <2>1, <2>2, <2>3
  <2> QED
    BY <2>4 DEF j
<1> HIDE DEF At
<1> QED
  BY <1>1, <1>2, LinesInOrder

LEMMA KeptInTime ==
  ASSUME NEW S, NEW l \in Seq(S), InTime(l)
  PROVE  InTime(Kept(l))
<1>1. DOMAIN Kept(l) = 1..Cardinality(Lines(l)) /\ Lines(l) \subseteq DOMAIN l
  BY KeptLines DEF Lines
<1> SUFFICES ASSUME NEW m \in DOMAIN Kept(l), NEW n \in DOMAIN Kept(l), m < n
             PROVE  Kept(l)[m].time <= Kept(l)[n].time
  BY DEF InTime
<1>2. PICK j \in Lines(l) : LineOf(l, j) = m
  BY <1>1, LinesInOrder
<1>3. PICK k \in Lines(l) : LineOf(l, k) = n
  BY <1>1, LinesInOrder
<1>4. j \in Nat /\ k \in Nat /\ m \in Nat /\ n \in Nat
  BY <1>1, LinesInOrder
<1>5. j < k
  <2>1. ~(k < j)
    BY <1>2, <1>3, <1>4, LinesInOrder
  <2>2. j # k
    BY <1>2, <1>3, <1>4
  <2> QED
    BY <1>4, <2>1, <2>2
<1>6. Kept(l)[m] = l[j] /\ Kept(l)[n] = l[k]
  BY <1>2, <1>3, KeptLines
<1> QED
  BY <1>1, <1>5, <1>6 DEF InTime

\* Of all events of a stream, those that can be written are kept.
LEMMA KeptHolds ==
  ASSUME NEW S, NEW l \in Seq(S), NEW s, NEW events, HoldsAll(l, s, events)
  PROVE  Holds(Kept(l), s, events)
<1>1. PICK place \in [DOMAIN events -> DOMAIN l] :
        /\ \A j, k \in DOMAIN events : j < k => place[j] < place[k]
        /\ \A k \in DOMAIN events : l[place[k]].stream = s /\ l[place[k]].number = events[k]
        /\ \A n \in DOMAIN l : l[n].stream = s => \E k \in DOMAIN events : place[k] = n
  BY DEF HoldsAll
<1> DEFINE written == {k \in DOMAIN events : Writable(s, events[k])}
           line == [k \in written |-> LineOf(l, place[k])]
<1>2. \A k \in written : place[k] \in Lines(l)
  BY <1>1 DEF Lines
<1>3. line \in [written -> DOMAIN Kept(l)]
  BY <1>2, KeptLines, LinesInOrder
<1>4. \A j, k \in written : j < k => line[j] < line[k]
  BY <1>1, <1>2, LinesInOrder
<1>5. \A k \in written :
        Kept(l)[line[k]].stream = s /\ Kept(l)[line[k]].number = events[k]
  BY <1>1, <1>2, KeptLines
<1>6. ASSUME NEW n \in DOMAIN Kept(l), Kept(l)[n].stream = s
      PROVE  \E k \in written : line[k] = n
  <2>1. PICK i \in Lines(l) : LineOf(l, i) = n
    BY KeptLines, LinesInOrder
  <2>2. l[i].stream = s /\ i \in DOMAIN l /\ Writable(s, l[i].number)
    BY <1>6, <2>1, KeptLines DEF Lines
  <2>3. PICK k \in DOMAIN events : place[k] = i
    BY <1>1, <2>2
  <2>4. k \in written
    BY <1>1, <2>2, <2>3
  <2> QED
    BY <2>1, <2>3, <2>4
<1> HIDE DEF line
<1> QED
  BY <1>3, <1>4, <1>5, <1>6 DEF Holds

-----------------------------------------------------------------------------
(* What was read for a prefix is in its object.                             *)

\* The cleaned names of the prefixes differ.
KeysApart == \A i, j \in 1..Last : i # j => ObjectKey(i) # ObjectKey(j)

\* CloudWatch gives the events of a stream in the order of time.
TimesAscend ==
  \A c \in Contents : \A s \in Stream :
    \A i, j \in 1..Len(c[s]) : i <= j => c[s][i] <= c[s][j]

Entry == [stream : Stream, number : Nat, time : Nat]

IsRun(events, s) == \E a, b \in Nat : a <= b /\ b <= Events(s) /\ events = Run(a, b)

\* No token is beyond the end of the range, and a worker that ended leaves a run.
PlaceInv ==
  \A s \in Stream :
    /\ entry[s] # NoToken => entry[s].at <= Events(s)
    /\ param[s] # NoToken => param[s].at <= Events(s)
    /\ next[s] # NoToken => next[s].at <= Events(s)
    /\ step[s] = "read" => IsRun(yielded[s], s)

LEMMA EmptyIsRun ==
  ASSUME ReaderInv, NEW s \in Stream
  PROVE  IsRun(<<>>, s)
<1>1. Events(s) \in Nat /\ Run(0, 0) = <<>>
  BY RunEmpty DEF ReaderInv, Events
<1> QED
  BY <1>1 DEF IsRun

LEMMA PlaceInit == Init => PlaceInv
<1> SUFFICES ASSUME Init, NEW s \in Stream
             PROVE  /\ entry[s] # NoToken => entry[s].at <= Events(s)
                    /\ param[s] = NoToken /\ next[s] = NoToken /\ step[s] = "none"
  BY DEF PlaceInv
<1> QED
  BY DEF Init, ReaderInit

LEMMA PlaceWork ==
  ASSUME PipeInv, PlaceInv, NEW s \in Stream, Work(s)
  PROVE  PlaceInv'
<1>1. contents' = contents /\ \A u \in Stream : Events(u)' = Events(u)
  BY DEF Work, Read, Open, Call, LeaveLoop, SaveEntry, Events
<1>2. ASSUME NEW u \in Stream, u # s
      PROVE  /\ entry'[u] = entry[u] /\ param'[u] = param[u] /\ next'[u] = next[u]
             /\ step'[u] = step[u] /\ yielded'[u] = yielded[u]
  <2>1. PipeInv /\ ReaderInv
    BY DEF PipeInv
  <2>2. CASE Open(s)
    BY <1>2, <2>1, <2>2 DEF Open, ReaderInv
  <2>3. CASE Call(s)
    BY <1>2, <2>1, <2>3 DEF Call, GoOn, ReaderInv
  <2>4. CASE LeaveLoop(s)
    BY <1>2, <2>1, <2>4 DEF LeaveLoop, ReaderInv
  <2>5. CASE SaveEntry(s)
    BY <1>2, <2>1, <2>5 DEF SaveEntry, ReaderInv
  <2> QED
    BY <2>2, <2>3, <2>4, <2>5 DEF Work, Read
<1>3. ReaderInv /\ ReaderOK(s) /\ Events(s) \in Nat
  BY DEF PipeInv, ReaderInv, Events
<1>4. /\ entry'[s] # NoToken => entry'[s].at <= Events(s)
      /\ param'[s] # NoToken => param'[s].at <= Events(s)
      /\ next'[s] # NoToken => next'[s].at <= Events(s)
  <2>1. CASE Open(s)
    BY <1>3, <2>1 DEF Open, ReaderInv, PlaceInv
  <2>2. CASE Call(s)
    <3>1. PICK answer \in Answers(s) : \E stops \in BOOLEAN : GoOn(s, answer, stops)
      <4>1. PICK answer \in Answers(s) :
              LET empty == IF answer.from = answer.to THEN empties[s] + 1 ELSE 0
              IN  GoOn(s, answer, Stops(s, answer, empty))
        BY <2>2 DEF Call
      <4>2. \A x : Stops(s, answer, x) \in BOOLEAN
        BY DEF Stops
      <4> QED
        BY <4>1, <4>2
    <3>2. answer.token.at <= Events(s)
      <4>1. CASE param[s] = NoToken
        BY <1>3, <4>1 DEF Answers
      <4>2. CASE param[s] # NoToken
        <5>1. param[s].at \in Nat
          BY <1>3, <4>2 DEF ReaderOK, TokenOrNone, Token
        <5> QED
          BY <1>3, <4>2, <5>1 DEF Answers
      <4> QED
        BY <4>1, <4>2
    <3>3. \/ next' = next /\ param' = param
          \/ next' = [next EXCEPT ![s] = answer.token] /\ param' = [param EXCEPT ![s] = answer.token]
      BY <3>1 DEF GoOn
    <3>4. entry' = entry
      BY <2>2 DEF Call
    <3> QED
      BY <1>3, <3>2, <3>3, <3>4 DEF ReaderInv, PlaceInv
  <2>3. CASE LeaveLoop(s)
    BY <2>3 DEF LeaveLoop, PlaceInv
  <2>4. CASE SaveEntry(s)
    BY <1>3, <2>4 DEF SaveEntry, ReaderInv, PlaceInv
  <2> QED
    BY <2>1, <2>2, <2>3, <2>4 DEF Work, Read
<1>5. step'[s] = "read" => IsRun(yielded'[s], s)
  <2> SUFFICES ASSUME step'[s] = "read" PROVE IsRun(yielded'[s], s)
    OBVIOUS
  <2>1. SaveEntry(s)
    BY <1>3 DEF Work, Read, Open, Call, LeaveLoop, ReaderInv
  <2>2. yielded' = yielded /\ step[s] = "save"
    BY <2>1 DEF SaveEntry
  <2>3. CASE next[s] = NoToken
    <3>1. yielded[s] = <<>>
      BY <1>3, <2>2, <2>3 DEF ReaderOK
    <3> QED
      BY <1>3, <2>2, <3>1, EmptyIsRun
  <2>4. CASE next[s] # NoToken
    <3>1. /\ began[s] \in Nat /\ next[s].at \in Nat /\ began[s] <= next[s].at
          /\ yielded[s] = Run(began[s], next[s].at) /\ next[s].at <= Events(s)
      BY <1>3, <2>2, <2>4 DEF ReaderOK, TokenOrNone, Token, PlaceInv
    <3> QED
      BY <2>2, <3>1 DEF IsRun
  <2> QED
    BY <2>3, <2>4
<1>6. \A u \in Stream : IsRun(yielded[u], u)' <=> IsRun(yielded'[u], u)
  BY <1>1 DEF IsRun, Run
<1> QED
  BY <1>1, <1>2, <1>4, <1>5, <1>6 DEF PlaceInv, IsRun

LEMMA PlaceList ==
  ASSUME PipeInv, PlaceInv, List
  PROVE  PlaceInv'
<1>1. UNCHANGED <<contents, entry, param, next, yielded>> /\ \A s \in Stream : step'[s] # "read"
  BY DEF List
<1> QED
  BY <1>1 DEF PlaceInv, Events

LEMMA PlaceCollect ==
  ASSUME PipeInv, PlaceInv, NEW s \in Stream, Collect(s)
  PROVE  PlaceInv'
<1>1. UNCHANGED <<contents, entry, param, next, step>>
      /\ yielded' = [yielded EXCEPT ![s] = <<>>]
  BY DEF Collect
<1>2. ASSUME NEW u \in Stream, step[u] = "read" PROVE IsRun(yielded'[u], u)
  <2>1. CASE u = s
    BY <1>1, <2>1, EmptyIsRun DEF PipeInv, ReaderInv
  <2>2. CASE u # s
    BY <1>1, <1>2, <2>2 DEF PlaceInv, PipeInv, ReaderInv
  <2> QED
    BY <2>1, <2>2
<1>3. \A u \in Stream : IsRun(yielded[u], u)' <=> IsRun(yielded'[u], u)
  BY <1>1 DEF IsRun, Run, Events
<1> QED
  BY <1>1, <1>2, <1>3 DEF PlaceInv, Events

LEMMA PlaceSame ==
  ASSUME PlaceInv, UNCHANGED readerVars
  PROVE  PlaceInv'
BY DEF PlaceInv, readerVars, worker, Events, IsRun, Run

\* The collected logs hold what was taken of each stream, and so does an object.
Whole(o, read) == InTime(o) /\ \A s \in Stream : HoldsAll(o, s, read[s])

LogsInv ==
  /\ logs \in Seq(Entry)
  /\ \A j, k \in 1..Len(logs) :
       j < k /\ logs[j].stream = logs[k].stream => logs[j].time <= logs[k].time
  /\ pc = "read" =>
       \A s \in Stream : HoldsAll(logs, s, IF s \in collected THEN got[prefix][s] ELSE <<>>)
  /\ pc \in {"compress", "upload"} => Whole(logs, got[prefix])

GotInv ==
  /\ got \in [1..Last -> [Stream -> Seq(Nat)]]
  /\ \A i \in 1..Last : \A s \in Stream : i > prefix => got[i][s] = <<>>
  /\ pc = "list" => \A s \in Stream : got[prefix][s] = <<>>
  /\ pc = "read" => \A s \in Stream \ collected :
       got[prefix][s] = IF step[s] = "read" THEN yielded[s] ELSE <<>>

\* What an object holds of what was read.
Written(o, read) == InTime(o) /\ \A s \in Stream : Holds(o, s, read[s])

ObjectOK(i) == ObjectKey(i) \in DOMAIN objects /\ Written(objects[ObjectKey(i)], got[i])

ObjectInv == \A i \in uploaded : ObjectOK(i) /\ (i < prefix \/ pc = "done")

WholeInv == PipeInv /\ PlaceInv /\ LogsInv /\ GotInv /\ ObjectInv

LEMMA ObjectSame ==
  ASSUME NEW i, ObjectOK(i), objects' = objects, got'[i] = got[i]
  PROVE  ObjectOK(i)'
<1>1. ObjectKey(i) \in DOMAIN objects' /\ Written(objects'[ObjectKey(i)], got'[i])
  BY DEF ObjectOK
<1>2. (ObjectKey(i) \in DOMAIN objects)'
  BY <1>1 DEF ObjectKey
<1>3. Written(objects[ObjectKey(i)], got[i])'
  BY <1>1
<1> QED
  BY <1>2, <1>3 DEF ObjectOK

LEMMA WholeInit == Init => WholeInv
<1> SUFFICES ASSUME Init PROVE WholeInv
  OBVIOUS
<1>1. logs \in Seq(Entry) /\ Len(logs) = 0 /\ pc = "list" /\ uploaded = {}
      /\ got = [i \in 1..Last |-> [s \in Stream |-> <<>>]] /\ prefix = 1
  BY EmptySeq DEF Init
<1>2. LogsInv
  BY <1>1 DEF LogsInv
<1>3. GotInv
  <2>1. <<>> \in Seq(Nat) /\ 1 \in 1..Last
    BY EmptySeq, LastType
  <2> QED
    BY <1>1, <2>1 DEF GotInv
<1>4. ObjectInv
  BY <1>1 DEF ObjectInv
<1> QED
  BY <1>2, <1>3, <1>4, InitOK, PlaceInit DEF WholeInv

LEMMA WholeList ==
  ASSUME WholeInv, List
  PROVE  WholeInv'
<1>1. /\ pc = "list" /\ collected' = {} /\ logs' = <<>>
      /\ UNCHANGED <<contents, objects, uploaded, got, yielded>>
      /\ \A s \in Stream : step'[s] # "read"
  BY DEF List
<1>2. (pc' = "read" /\ prefix' = prefix) \/ NextPrefix
  BY DEF List
<1>3. prefix \in 1..Last /\ Last \in Nat
  BY LastType DEF WholeInv, PipeInv, PipeOK
<1>4. LogsInv'
  <2>1. logs' \in Seq(Entry) /\ Len(logs') = 0 /\ DOMAIN logs' = {}
    BY <1>1, EmptySeq
  <2>2. \A s : HoldsAll(logs', s, <<>>)
    BY <2>1, HoldsNothing
  <2>3. pc' \notin {"compress", "upload"}
    BY <1>2 DEF NextPrefix
  <2> QED
    BY <1>1, <2>1, <2>2, <2>3 DEF LogsInv
<1>5. GotInv'
  BY <1>1, <1>2, <1>3 DEF WholeInv, GotInv, NextPrefix
<1>6. ObjectInv'
  <2>1. ASSUME NEW i \in uploaded PROVE ObjectOK(i)'
    BY <1>1, ObjectSame DEF WholeInv, ObjectInv
  <2>2. ASSUME NEW i \in uploaded PROVE i < prefix' \/ pc' = "done"
    <3>1. i \in Nat /\ i < prefix
      BY <1>1, <1>3 DEF WholeInv, ObjectInv, PipeInv, PipeOK
    <3> QED
      BY <1>2, <1>3, <3>1 DEF NextPrefix
  <2> QED
    BY <1>1, <2>1, <2>2 DEF ObjectInv
<1> QED
  BY <1>4, <1>5, <1>6, ListStep, PlaceList DEF WholeInv

LEMMA WholeWork ==
  ASSUME WholeInv, NEW s \in Stream, Work(s)
  PROVE  WholeInv'
<1>1. /\ pc \in {"read", "join"}
      /\ UNCHANGED <<pc, prefix, streams, collected, logs, objects, uploaded>>
      /\ got' = IF step'[s] = "read" THEN [got EXCEPT ![prefix][s] = yielded[s]] ELSE got
      /\ step[s] \in {"queued", "call", "save"}
      /\ Read(s)
  BY DEF Work, Read, Open, Call, LeaveLoop, SaveEntry
<1>2. /\ PipeInv /\ ReaderInv /\ prefix \in 1..Last /\ Last \in Nat
      /\ yielded[s] \in Seq(Nat)
  BY LastType DEF WholeInv, PipeInv, PipeOK, ReaderInv
<1>3. \A u \in Stream : u # s => step'[u] = step[u] /\ yielded'[u] = yielded[u]
  BY <1>1, <1>2 DEF Read, Open, Call, LeaveLoop, SaveEntry, ReaderInv
<1>4. step'[s] = "read" => yielded' = yielded
  BY <1>1, <1>2 DEF Read, Open, Call, LeaveLoop, SaveEntry, ReaderInv
<1>5. pc = "read" => s \notin collected
  BY <1>1, <1>2 DEF PipeInv, PipeOK, AtRest
<1>6. /\ got' \in [1..Last -> [Stream -> Seq(Nat)]]
      /\ \A i \in 1..Last : i # prefix => got'[i] = got[i]
      /\ \A u \in Stream : u # s => got'[prefix][u] = got[prefix][u]
      /\ got'[prefix][s] = IF step'[s] = "read" THEN yielded[s] ELSE got[prefix][s]
  <2>0. got \in [1..Last -> [Stream -> Seq(Nat)]]
    BY DEF WholeInv, GotInv
  <2>1. CASE step'[s] = "read"
    <3>1. got' = [got EXCEPT ![prefix][s] = yielded[s]]
      BY <1>1, <2>1
    <3> QED
      BY <1>2, <2>0, <2>1, <3>1
  <2>2. CASE step'[s] # "read"
    BY <1>1, <2>0, <2>2
  <2> QED
    BY <2>1, <2>2
<1>7. LogsInv'
  <2>1. ASSUME pc = "read", NEW u \in Stream
        PROVE  (IF u \in collected THEN got'[prefix][u] ELSE <<>>)
               = (IF u \in collected THEN got[prefix][u] ELSE <<>>)
    <3>1. u \in collected => u # s
      BY <1>5, <2>1
    <3> QED
      BY <1>6, <3>1
  <2>2. pc = "read" =>
          \A u \in Stream : HoldsAll(logs, u, IF u \in collected THEN got'[prefix][u] ELSE <<>>)
    BY <2>1 DEF WholeInv, LogsInv
  <2>3. (pc = "read" =>
          \A u \in Stream : HoldsAll(logs, u, IF u \in collected THEN got[prefix][u] ELSE <<>>))'
    BY <1>1, <2>2 DEF HoldsAll
  <2> QED
    BY <1>1, <2>3 DEF WholeInv, LogsInv
<1>8. GotInv'
  <2>1. ASSUME pc' = "read", NEW u \in Stream \ collected
        PROVE  got'[prefix][u] = IF step'[u] = "read" THEN yielded'[u] ELSE <<>>
    <3>1. got[prefix][u] = IF step[u] = "read" THEN yielded[u] ELSE <<>>
      BY <1>1, <2>1 DEF WholeInv, GotInv
    <3>2. CASE u = s
      BY <1>1, <1>4, <1>6, <3>1, <3>2
    <3>3. CASE u # s
      BY <1>3, <1>6, <3>1, <3>3
    <3> QED
      BY <3>2, <3>3
  <2>2. ASSUME NEW i \in 1..Last, NEW u \in Stream, i > prefix PROVE got'[i][u] = <<>>
    <3>1. i # prefix /\ got[i][u] = <<>>
      BY <1>2, <2>2 DEF WholeInv, GotInv
    <3> QED
      BY <1>6, <3>1
  <2> QED
    BY <1>1, <1>6, <2>1, <2>2 DEF GotInv
<1>9. ObjectInv'
  <2>1. ASSUME NEW i \in uploaded PROVE i \in 1..Last /\ i < prefix /\ got'[i] = got[i]
    BY <1>1, <1>2, <1>6 DEF WholeInv, ObjectInv, PipeInv, PipeOK
  <2>2. ASSUME NEW i \in uploaded PROVE ObjectOK(i)'
    BY <1>1, <2>1, ObjectSame DEF WholeInv, ObjectInv
  <2> QED
    BY <1>1, <2>1, <2>2 DEF ObjectInv
<1> QED
  BY <1>2, <1>7, <1>8, <1>9, WorkStep, PlaceWork DEF WholeInv

\* The entries of a worker, in the order in which it yielded them.
LEMMA LogsOfType ==
  ASSUME WholeInv, TimesAscend, NEW s \in Stream, step[s] = "read"
  PROVE  /\ LogsOf(s) \in Seq(Entry) /\ Len(LogsOf(s)) = Len(yielded[s])
         /\ \A n \in 1..Len(LogsOf(s)) :
              LogsOf(s)[n].stream = s /\ LogsOf(s)[n].number = yielded[s][n]
         /\ \A j, k \in 1..Len(LogsOf(s)) :
              j < k => LogsOf(s)[j].time <= LogsOf(s)[k].time
<1>1. PICK a \in Nat, b \in Nat : a <= b /\ b <= Events(s) /\ yielded[s] = Run(a, b)
  BY DEF WholeInv, PlaceInv, IsRun
<1>2. /\ yielded[s] \in Seq(Nat) /\ Len(yielded[s]) = b - a
      /\ \A i \in 1..(b - a) : yielded[s][i] = a + i
  BY <1>1, RunSeq
<1>3. /\ contents[s] \in Seq(Nat) /\ contents \in Contents /\ Events(s) = Len(contents[s])
      /\ Len(contents[s]) \in Nat
  BY DEF WholeInv, PipeInv, PipeOK, ReaderInv, Events
<1> DEFINE N == b - a
           log(i) == [stream |-> s, number |-> yielded[s][i], time |-> contents[s][yielded[s][i]]]
<1>4. N \in Nat /\ DOMAIN yielded[s] = 1..N
  BY <1>1, <1>2
<1>5. \A i \in 1..N : a + i \in Nat /\ a + i \in 1..Len(contents[s])
  BY <1>1, <1>3
<1>6. \A i \in 1..N : yielded[s][i] \in 1..Len(contents[s]) /\ yielded[s][i] = a + i
  BY <1>2, <1>5
<1>7. \A i \in 1..N : yielded[s][i] \in Nat /\ contents[s][yielded[s][i]] \in Nat
  <2>1. \A n \in 1..Len(contents[s]) : n \in Nat /\ contents[s][n] \in Nat
    BY <1>3, ElementOfSeq
  <2> QED
    BY <1>6, <2>1
<1>8. LogsOf(s) = [i \in 1..N |-> log(i)]
  BY <1>4 DEF LogsOf
<1> HIDE DEF N
<1>9. \A i \in 1..N : log(i) \in Entry
  BY <1>7 DEF Entry
<1>10. ASSUME NEW j \in 1..N, NEW k \in 1..N, j < k
       PROVE  log(j).time <= log(k).time
  <2>1. yielded[s][j] <= yielded[s][k]
    BY <1>1, <1>4, <1>6, <1>10
  <2>2. contents[s][yielded[s][j]] <= contents[s][yielded[s][k]]
    BY <1>3, <1>6, <2>1 DEF TimesAscend
  <2> QED
    BY <2>2
<1>11. \A i \in 1..N : log(i).stream = s /\ log(i).number = yielded[s][i]
  OBVIOUS
<1> HIDE DEF log
<1>12. LogsOf(s) \in Seq(Entry) /\ Len(LogsOf(s)) = N
  BY <1>4, <1>8, <1>9
<1>13. \A i \in 1..N : LogsOf(s)[i] = log(i)
  BY <1>8
<1>14. Len(yielded[s]) = N
  BY <1>2 DEF N
<1> QED
  BY <1>10, <1>11, <1>12, <1>13, <1>14

LEMMA WholeCollect ==
  ASSUME WholeInv, TimesAscend, NEW s \in Stream, Collect(s)
  PROVE  WholeInv'
<1>1. /\ pc = "read" /\ s \in streams \ collected /\ step[s] = "read"
      /\ collected' = collected \cup {s} /\ logs' = logs \o LogsOf(s)
      /\ yielded' = [yielded EXCEPT ![s] = <<>>]
      /\ UNCHANGED <<step, pc, prefix, streams, objects, uploaded, got>>
  BY DEF Collect
<1> DEFINE m == LogsOf(s)
           held(u) == IF u \in collected THEN got[prefix][u] ELSE <<>>
<1>2. /\ logs \in Seq(Entry) /\ prefix \in 1..Last
      /\ \A j, k \in 1..Len(logs) :
           j < k /\ logs[j].stream = logs[k].stream => logs[j].time <= logs[k].time
      /\ \A u \in Stream : HoldsAll(logs, u, held(u))
  BY <1>1 DEF WholeInv, LogsInv, PipeInv, PipeOK
<1>3. /\ m \in Seq(Entry) /\ Len(m) = Len(yielded[s])
      /\ \A n \in 1..Len(m) : m[n].stream = s /\ m[n].number = yielded[s][n]
      /\ \A j, k \in 1..Len(m) : j < k => m[j].time <= m[k].time
  BY <1>1, LogsOfType
<1>4. got[prefix][s] = yielded[s] /\ yielded[s] \in Seq(Nat)
  BY <1>1 DEF WholeInv, GotInv, PipeInv, ReaderInv
<1>5. Len(logs) \in Nat /\ DOMAIN logs = 1..Len(logs)
  BY <1>2
<1>6. \A n \in 1..Len(logs) : logs[n].stream # s
  <2>1. HoldsAll(logs, s, <<>>)
    BY <1>1, <1>2
  <2> QED
    BY <1>5, <2>1, HoldsNothing
<1> HIDE DEF m
<1>7. /\ Len(m) \in Nat /\ logs \o m \in Seq(Entry) /\ Len(logs \o m) = Len(logs) + Len(m)
      /\ \A n \in 1..Len(logs) : (logs \o m)[n] = logs[n]
      /\ \A n \in 1..(Len(logs) + Len(m)) : n > Len(logs) => (logs \o m)[n] = m[n - Len(logs)]
  <2>1. logs \in Seq(Entry) /\ m \in Seq(Entry)
    BY <1>2, <1>3
  <2> QED
    BY ONLY <2>1, ConcatParts
<1>8. ASSUME NEW j \in 1..(Len(logs) + Len(m)), NEW k \in 1..(Len(logs) + Len(m)), j < k,
             (logs \o m)[j].stream = (logs \o m)[k].stream
      PROVE  (logs \o m)[j].time <= (logs \o m)[k].time
  <2>1. CASE k <= Len(logs)
    <3>1. j \in 1..Len(logs) /\ k \in 1..Len(logs)
      BY <1>5, <1>8, <2>1
    <3>2. (logs \o m)[j] = logs[j] /\ (logs \o m)[k] = logs[k]
      BY <1>7, <3>1
    <3> QED
      BY <1>2, <1>8, <3>1, <3>2
  <2>2. CASE k > Len(logs)
    <3>1. k - Len(logs) \in 1..Len(m) /\ (logs \o m)[k] = m[k - Len(logs)]
      BY <1>5, <1>7, <2>2
    <3>2. j > Len(logs)
      <4> SUFFICES ASSUME ~(j > Len(logs)) PROVE FALSE
        OBVIOUS
      <4>1. j \in 1..Len(logs)
        BY <1>5
      <4>2. (logs \o m)[j] = logs[j]
        BY <1>7, <4>1
      <4> QED
        BY <1>3, <1>6, <1>8, <3>1, <4>1, <4>2
    <3>3. j - Len(logs) \in 1..Len(m) /\ (logs \o m)[j] = m[j - Len(logs)]
          /\ j - Len(logs) < k - Len(logs)
      BY <1>5, <1>7, <1>8, <3>2
    <3> QED
      BY <1>3, <3>1, <3>3
  <2> QED
    BY <1>5, <2>1, <2>2
<1>9. ASSUME NEW u \in Stream
      PROVE  HoldsAll(logs \o m, u, IF u \in collected \cup {s} THEN got[prefix][u] ELSE <<>>)
  <2>1. CASE u = s
    <3>1. HoldsAll(logs \o m, s, yielded[s])
      BY <1>2, <1>3, <1>4, <1>6, HoldsNew
    <3> QED
      BY <1>4, <2>1, <3>1
  <2>2. CASE u # s
    <3>1. HoldsAll(logs, u, held(u)) /\ \A n \in 1..Len(m) : m[n].stream # u
      BY <1>2, <1>3, <2>2
    <3> HIDE DEF held
    <3>2. HoldsAll(logs \o m, u, held(u))
      BY <1>2, <1>3, <3>1, HoldsAppend
    <3> QED
      BY <2>2, <3>2 DEF held
  <2> QED
    BY <2>1, <2>2
<1>10. LogsInv'
  <2>1. \A u \in Stream : HoldsAll(logs', u, IF u \in collected' THEN got'[prefix'][u] ELSE <<>>)
    BY <1>1, <1>9 DEF m
  <2>2. logs' \in Seq(Entry) /\ Len(logs') = Len(logs) + Len(m)
    BY <1>1, <1>7 DEF m
  <2>3. \A j, k \in 1..Len(logs') :
          j < k /\ logs'[j].stream = logs'[k].stream => logs'[j].time <= logs'[k].time
    BY <1>1, <1>8, <2>2 DEF m
  <2> QED
    BY <1>1, <2>1, <2>2, <2>3 DEF LogsInv
<1>11. GotInv'
  <2>1. \A u \in Stream \ collected' : yielded'[u] = yielded[u]
    BY <1>1 DEF WholeInv, PipeInv, ReaderInv
  <2> QED
    BY <1>1, <2>1 DEF WholeInv, GotInv
<1>12. ObjectInv'
  <2>1. \A i \in uploaded : ObjectOK(i)'
    BY <1>1, ObjectSame DEF WholeInv, ObjectInv
  <2> QED
    BY <1>1, <2>1 DEF WholeInv, ObjectInv
<1> QED
  BY <1>10, <1>11, <1>12, CollectStep, PlaceCollect DEF WholeInv

\* The logs are sorted when all results are there.
LEMMA WholeAllCollected ==
  ASSUME WholeInv, AllCollected
  PROVE  WholeInv'
<1>1. /\ pc = "read" /\ collected = streams
      /\ UNCHANGED <<readerVars, streams, collected, objects, uploaded, got>>
      /\ \/ logs = <<>> /\ NextPrefix /\ logs' = logs
         \/ pc' = "compress" /\ logs' = Sorted(logs) /\ prefix' = prefix
  BY DEF AllCollected
<1>2. /\ logs \in Seq(Entry) /\ prefix \in 1..Last /\ Last \in Nat
      /\ \A j, k \in 1..Len(logs) :
           j < k /\ logs[j].stream = logs[k].stream => logs[j].time <= logs[k].time
      /\ got \in [1..Last -> [Stream -> Seq(Nat)]]
  BY LastType DEF WholeInv, LogsInv, GotInv, PipeInv, PipeOK
<1>3. ASSUME NEW s \in Stream PROVE HoldsAll(logs, s, got[prefix][s])
  <2>1. CASE s \in collected
    BY <1>1, <2>1 DEF WholeInv, LogsInv
  <2>2. CASE s \notin collected
    <3>1. yielded[s] = <<>>
      BY <1>1, <2>2 DEF WholeInv, PipeInv, PipeOK, AtRest
    <3>2. got[prefix][s] = <<>>
      BY <1>1, <2>2, <3>1 DEF WholeInv, GotInv
    <3> QED
      BY <1>1, <2>2, <3>2 DEF WholeInv, LogsInv
  <2> QED
    BY <2>1, <2>2
<1>4. Timed(logs)
  <2>1. ASSUME NEW j \in 1..Len(logs) PROVE logs[j].time \in Nat
    <3>1. logs[j] \in Entry
      BY <1>2, <2>1
    <3> QED
      BY <3>1 DEF Entry
  <2> QED
    BY <2>1 DEF Timed
<1>5. Sorted(logs) \in Seq(Entry) /\ Len(Sorted(logs)) = Len(logs) /\ InTime(Sorted(logs))
      /\ DOMAIN Sorted(logs) = 1..Len(Sorted(logs))
  BY <1>2, <1>4, SortedPlaces, SortedInTime
<1>6. ASSUME NEW s \in Stream PROVE HoldsAll(Sorted(logs), s, got[prefix][s])
  <2>1. got[prefix][s] \in Seq(Nat)
    BY <1>2
  <2> QED
    BY <1>2, <1>3, <1>4, <2>1, SortedHolds
<1>7. LogsInv'
  <2>1. CASE logs = <<>> /\ NextPrefix /\ logs' = logs
    BY <1>1, <1>2, <2>1 DEF LogsInv, NextPrefix
  <2>2. CASE pc' = "compress" /\ logs' = Sorted(logs) /\ prefix' = prefix
    <3>1. \A j, k \in 1..Len(logs') : j < k => logs'[j].time <= logs'[k].time
      BY <1>5, <2>2 DEF InTime
    <3>2. Whole(logs', got'[prefix'])
      BY <1>1, <1>5, <1>6, <2>2 DEF Whole
    <3> QED
      BY <1>5, <2>2, <3>1, <3>2 DEF LogsInv
  <2> QED
    BY <1>1, <2>1, <2>2
<1>8. GotInv'
  BY <1>1, <1>2 DEF WholeInv, GotInv, NextPrefix
<1>9. ObjectInv'
  <2>1. \A i \in uploaded : ObjectOK(i)'
    BY <1>1, ObjectSame DEF WholeInv, ObjectInv
  <2>2. \A i \in uploaded : i \in Nat /\ i < prefix
    BY <1>1 DEF WholeInv, ObjectInv, PipeInv, PipeOK
  <2> QED
    BY <1>1, <1>2, <2>1, <2>2 DEF ObjectInv, NextPrefix
<1> QED
  BY <1>1, <1>7, <1>8, <1>9, OtherSteps, PlaceSame DEF WholeInv

\* The object is replaced by one that is whole, and no other has its key.
LEMMA WholeUpload ==
  ASSUME WholeInv, KeysApart, Upload
  PROVE  WholeInv'
<1>1. /\ pc = "upload" /\ UNCHANGED <<readerVars, streams, collected, logs, got>>
      /\ objects' = [k \in DOMAIN objects \cup {ObjectKey(prefix)} |->
                       IF k = ObjectKey(prefix) THEN Kept(logs) ELSE objects[k]]
      /\ uploaded' = uploaded \cup {prefix}
      /\ NextPrefix
  BY DEF Upload
<1>2. prefix \in 1..Last /\ Last \in Nat /\ uploaded \subseteq 1..Last
  BY LastType DEF WholeInv, PipeInv, PipeOK
<1>3. \A i \in uploaded : i \in 1..Last /\ i < prefix
  BY <1>1, <1>2 DEF WholeInv, ObjectInv
<1>4. ASSUME NEW i \in uploaded PROVE ObjectOK(i)'
  <2>1. ObjectKey(i) # ObjectKey(prefix)
    BY <1>2, <1>3 DEF KeysApart
  <2>2. ObjectKey(i) \in DOMAIN objects /\ Written(objects[ObjectKey(i)], got[i])
    BY DEF WholeInv, ObjectInv, ObjectOK
  <2>3. ObjectKey(i) \in DOMAIN objects' /\ objects'[ObjectKey(i)] = objects[ObjectKey(i)]
    BY <1>1, <2>1, <2>2
  <2>4. ObjectKey(i) \in DOMAIN objects' /\ Written(objects'[ObjectKey(i)], got'[i])
    BY <1>1, <2>2, <2>3
  <2>5. (ObjectKey(i) \in DOMAIN objects)'
    BY <2>4 DEF ObjectKey
  <2>6. Written(objects[ObjectKey(i)], got[i])'
    BY <2>4
  <2> QED
    BY <2>5, <2>6 DEF ObjectOK
<1>5. ObjectKey(prefix) \in DOMAIN objects' /\ Written(objects'[ObjectKey(prefix)], got'[prefix])
  <2>1. Whole(logs, got[prefix]) /\ logs \in Seq(Entry)
    BY <1>1 DEF WholeInv, LogsInv
  <2>2. Written(Kept(logs), got[prefix])
    BY <2>1, KeptInTime, KeptHolds DEF Whole, Written
  <2>3. /\ ObjectKey(prefix) \in DOMAIN objects'
        /\ objects'[ObjectKey(prefix)] = Kept(logs)
    BY <1>1
  <2> QED
    BY <1>1, <2>2, <2>3
<1>6. ASSUME NEW i \in uploaded' PROVE ObjectOK(i)'
  <2>1. CASE i \in uploaded
    BY <1>4, <2>1
  <2>2. CASE i = prefix
    <3>1. ObjectKey(i) \in DOMAIN objects' /\ Written(objects'[ObjectKey(i)], got'[i])
      BY <1>5, <2>2
    <3>2. (ObjectKey(i) \in DOMAIN objects)'
      BY <3>1 DEF ObjectKey
    <3>3. Written(objects[ObjectKey(i)], got[i])'
      BY <3>1
    <3> QED
      BY <3>2, <3>3 DEF ObjectOK
  <2> QED
    BY <1>1, <2>1, <2>2
<1>7. ObjectInv'
  BY <1>1, <1>2, <1>3, <1>6 DEF ObjectInv, NextPrefix
<1>8. GotInv'
  BY <1>1, <1>2 DEF WholeInv, GotInv, NextPrefix
<1>9. LogsInv'
  BY <1>1 DEF WholeInv, LogsInv, NextPrefix
<1> QED
  BY <1>1, <1>7, <1>8, <1>9, OtherSteps, PlaceSame DEF WholeInv

LEMMA WholeOther ==
  ASSUME WholeInv,
         \/ ReadTimeout \/ Joined \/ WriteTemp \/ Compressed \/ CompressionFailed
         \/ UploadFails
  PROVE  WholeInv'
<1>1. /\ UNCHANGED <<readerVars, streams, collected, logs, objects, uploaded, got>>
      /\ pc # "done"
      /\ \/ prefix' = prefix /\ pc' \notin {"list", "read"}
            /\ (pc' \in {"compress", "upload"} => pc \in {"compress", "upload"})
         \/ NextPrefix
  BY DEF ReadTimeout, Joined, WriteTemp, Compressed, CompressionFailed, UploadFails
<1>2. prefix \in 1..Last /\ Last \in Nat /\ uploaded \subseteq 1..Last
  BY LastType DEF WholeInv, PipeInv, PipeOK
<1>3. \A i \in uploaded : ObjectOK(i)' /\ i \in Nat /\ i < prefix
  BY <1>1, <1>2, ObjectSame DEF WholeInv, ObjectInv
<1>4. ObjectInv'
  BY <1>1, <1>2, <1>3 DEF ObjectInv, NextPrefix
<1>5. GotInv'
  BY <1>1, <1>2 DEF WholeInv, GotInv, NextPrefix
<1>6. LogsInv'
  BY <1>1 DEF WholeInv, LogsInv, NextPrefix
<1> QED
  BY <1>1, <1>4, <1>5, <1>6, OtherSteps, PlaceSame DEF WholeInv

LEMMA WholeStutter ==
  ASSUME WholeInv, UNCHANGED vars
  PROVE  WholeInv'
<1>1. UNCHANGED <<readerVars, pc, prefix, streams, collected, logs, objects, uploaded, got, temp>>
  BY DEF vars, pipeVars
<1>2. PipeInv'
  <2>1. ReaderInv'
    BY <1>1, ReadersSame DEF WholeInv, PipeInv
  <2>2. PipeOK'
    BY <1>1 DEF WholeInv, PipeInv, PipeOK, AtRest, readerVars, worker
  <2> QED
    BY <2>1, <2>2 DEF PipeInv
<1>3. ObjectInv'
  BY <1>1, ObjectSame DEF WholeInv, ObjectInv
<1>4. GotInv'
  BY <1>1 DEF WholeInv, GotInv, readerVars, worker
<1>5. LogsInv'
  BY <1>1 DEF WholeInv, LogsInv
<1> QED
  BY <1>1, <1>2, <1>3, <1>4, <1>5, PlaceSame DEF WholeInv

\* An object holds every event that the workers of its prefix yielded and that
\* can be written as JSON (the others are passed over), sorted by
\* time with those of a stream in their order (batch_processor.py:200-285), for
\* every interleaving of the workers and every fault, provided that CloudWatch
\* gives the events of a stream in the order of time and that the keys of two
\* prefixes differ, as an object of the same key is replaced.
THEOREM ObjectsAreWhole ==
  ASSUME KeysApart, TimesAscend
  PROVE  Spec => []ObjectsWhole
<1>1. WholeInv /\ [Next]_vars => WholeInv'
  <2> SUFFICES ASSUME WholeInv, [Next]_vars PROVE WholeInv'
    OBVIOUS
  <2>1. CASE UNCHANGED vars
    BY <2>1, WholeStutter
  <2>2. CASE Next
    BY <2>2, WholeList, WholeWork, WholeCollect, WholeAllCollected, WholeUpload, WholeOther
       DEF Next
  <2> QED
    BY <2>1, <2>2
<1>2. WholeInv => ObjectsWhole
  BY DEF WholeInv, ObjectInv, ObjectOK, Written, ObjectsWhole
<1> QED
  BY <1>1, <1>2, WholeInit, PTL DEF Spec
=============================================================================
