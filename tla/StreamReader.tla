---------------------------- MODULE StreamReader ----------------------------
(***************************************************************************)
(* The worker that reads one log stream: _get_log_events_internal          *)
(* (src/modules/cloudwatch_log_reader.py), call by call.                   *)
(*                                                                         *)
(* A stream is the sequence of the times of its events up to the end of    *)
(* the range.  A token stands for a place in it: the number of events      *)
(* before it, and a mark, since CloudWatch may give a new token for the    *)
(* same place.  Pipeline says when a worker begins and what becomes of     *)
(* what it read.                                                           *)
(***************************************************************************)
EXTENDS Integers, Sequences, FiniteSets

CONSTANTS
  Stream,         \* log streams
  PageSize,       \* events of one answer of get_log_events
  MaxIterations,  \* max_iterations
  MaxEmpty,       \* max_consecutive_empty
  ReadFaults,     \* which of "api", "save" may happen
  NoToken         \* next_token = None

ASSUME ReaderAssumption ==
  /\ PageSize \in Nat \ {0} /\ MaxIterations \in Nat \ {0} /\ MaxEmpty \in Nat \ {0}
  /\ ReadFaults \subseteq {"api", "save"}
  /\ NoToken \notin [at : Nat, mark : {0, 1}]

VARIABLES
  contents,  \* times of the events of each stream
  fromTime,  \* how many of them are before the start of the range
  entry,     \* next_token of the saved entry of each stream
  step,      \* what the worker of a stream does next
  param,     \* params['nextToken']
  next,      \* next_token
  yielded,   \* the events it yielded, by their numbers
  empties,   \* consecutive_empty_responses
  calls,     \* iteration_count
  began      \* ghost: events before the first one it could yield, or -1

worker == <<step, param, next, yielded, empties, calls, began>>
readerVars == <<contents, fromTime, entry, worker>>

Token == [at : Nat, mark : {0, 1}]
TokenOrNone == Token \cup {NoToken}

Events(s) == Len(contents[s])

\* The numbers of the events after the first a, up to the b-th.
Run(a, b) == [i \in 1..(b - a) |-> a + i]

-----------------------------------------------------------------------------
ReaderInit(Contents, From) ==
  /\ contents \in Contents
  /\ fromTime \in From
  /\ \A s \in Stream : fromTime[s] <= Events(s)
  /\ entry \in [Stream -> {NoToken} \cup [at : 0..1, mark : {0}]]
  /\ \A s \in Stream : entry[s] # NoToken => entry[s].at <= Events(s)
  /\ step = [s \in Stream |-> "none"]
  /\ param = [s \in Stream |-> NoToken]
  /\ next = [s \in Stream |-> NoToken]
  /\ yielded = [s \in Stream |-> <<>>]
  /\ empties = [s \in Stream |-> 0]
  /\ calls = [s \in Stream |-> 0]
  /\ began = [s \in Stream |-> -1]

\* The saved token is used, unless the range starts on another day than the
\* last event (LogGroup says when that is).
Open(s) ==
  /\ step[s] = "queued"
  /\ step' = [step EXCEPT ![s] = "call"]
  /\ \E token \in {entry[s], NoToken} : param' = [param EXCEPT ![s] = token]
  /\ UNCHANGED <<contents, fromTime, entry, next, yielded, empties, calls, began>>

\* What CloudWatch may answer: the events after the token, perhaps fewer than
\* fit, with the token of the place reached; an answer without events may give
\* a new token, and one at the end gives the same token again.  Without a
\* token it is the last events of the range (startFromHead is not given).
Answers(s) ==
  IF param[s] = NoToken
  THEN {[from |-> i, to |-> Events(s), token |-> [at |-> Events(s), mark |-> 0]] :
          i \in {j \in fromTime[s]..Events(s) : Events(s) - j <= PageSize}}
  ELSE {[from |-> param[s].at, to |-> i, token |-> [at |-> i, mark |-> m]] :
          i \in {j \in param[s].at..Events(s) : j - param[s].at <= PageSize},
          m \in {0, 1}}

\* After an answer: three in a row without events, or the same token again.
Stops(s, answer, empty) == empty >= MaxEmpty \/ answer.token = param[s]

\* Mutant: the place is counted in full pages.
GoOnByPage(s, answer, stops) ==
  IF stops THEN UNCHANGED <<next, param>>
  ELSE /\ next' = [next EXCEPT ![s] = [answer.token EXCEPT !.at = answer.from + PageSize]]
       /\ param' = [param EXCEPT ![s] = answer.token]

\* next_token moves with the loop; the token of its last answer is not kept.
GoOn(s, answer, stops) ==
  IF stops THEN UNCHANGED <<next, param>>
  ELSE /\ next' = [next EXCEPT ![s] = answer.token]
       /\ param' = [param EXCEPT ![s] = answer.token]

\* Mutant: one call too many.
MayCallOneMore(s) == calls[s] <= MaxIterations

MayCall(s) == calls[s] < MaxIterations

\* get_log_events answers, and its events are yielded one by one.
Call(s) ==
  /\ step[s] = "call" /\ MayCall(s)
  /\ \E answer \in Answers(s) :
       LET empty == IF answer.from = answer.to THEN empties[s] + 1 ELSE 0
           stops == Stops(s, answer, empty)
       IN  /\ yielded' = [yielded EXCEPT ![s] = @ \o Run(answer.from, answer.to)]
           /\ began' = [began EXCEPT ![s] = IF @ = -1 THEN answer.from ELSE @]
           /\ empties' = [empties EXCEPT ![s] = IF empty < MaxEmpty THEN empty
                                                                    ELSE MaxEmpty]
           /\ GoOn(s, answer, stops)
           /\ step' = [step EXCEPT ![s] = IF stops THEN "save" ELSE "call"]
  /\ calls' = [calls EXCEPT ![s] = @ + 1]
  /\ UNCHANGED <<contents, fromTime, entry>>

\* max_iterations is reached, or the call is an error: the loop ends.
LeaveLoop(s) ==
  /\ step[s] = "call"
  /\ ~MayCall(s) \/ "api" \in ReadFaults
  /\ step' = [step EXCEPT ![s] = "save"]
  /\ UNCHANGED <<contents, fromTime, entry, param, next, yielded, empties, calls,
                 began>>

\* The entry is saved when there is a token or an event; the variables of the
\* worker are gone with it.
SaveEntry(s) ==
  /\ step[s] = "save"
  /\ step' = [step EXCEPT ![s] = "read"]
  /\ \/ (next[s] # NoToken \/ yielded[s] # <<>>)
        /\ entry' = [entry EXCEPT ![s] = next[s]]
     \/ (next[s] = NoToken /\ yielded[s] = <<>>) /\ UNCHANGED entry
     \/ "save" \in ReadFaults /\ UNCHANGED entry
  /\ param' = [param EXCEPT ![s] = NoToken]
  /\ next' = [next EXCEPT ![s] = NoToken]
  /\ empties' = [empties EXCEPT ![s] = 0]
  /\ calls' = [calls EXCEPT ![s] = 0]
  /\ began' = [began EXCEPT ![s] = -1]
  /\ UNCHANGED <<contents, fromTime, yielded>>

Read(s) == Open(s) \/ Call(s) \/ LeaveLoop(s) \/ SaveEntry(s)
=============================================================================
