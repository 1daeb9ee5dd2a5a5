----------------------------- MODULE StateStore -----------------------------
(***************************************************************************)
(* What the users of S3StateManager rely on: state.json as a store of      *)
(* fields.  An update is issued, may or may not reach the document, and is *)
(* acknowledged (the method returns True) only once it has.  The document  *)
(* never goes back: a field is overwritten by a later update, or it is an  *)
(* old stream's entry and is purged; nothing else happens to it.           *)
(* There is no cache, no lock and no thread here.                          *)
(***************************************************************************)
EXTENDS Naturals

CONSTANTS
  Field,       \* the entries of the document
  Old          \* the stream entries that cleanup_old_streams may purge

VARIABLES
  doc,         \* the version of each entry in state.json; 0 is no entry
  issued,      \* versions given out
  acked        \* the last version whose update returned True

store == <<doc, issued, acked>>

Init ==
  /\ doc \in [Field -> {0, 1}]
  /\ issued = [f \in Field |-> 1]
  /\ acked = [f \in Field |-> 0]

\* A caller asks for an update of f: it gets the next version.
Issue(f) ==
  /\ issued' = [issued EXCEPT ![f] = issued[f] + 1]
  /\ UNCHANGED <<doc, acked>>

\* What may become of entry f when the document is saved.
Advances(f) == doc'[f] > doc[f] /\ doc'[f] <= issued[f]
IsPurged(f) == f \in Old /\ doc[f] = 1 /\ doc'[f] = 0

\* A save carries any number of issued updates and purges at once.
Persist ==
  /\ doc' \in [Field -> Nat]
  /\ \A f \in Field : doc'[f] = doc[f] \/ Advances(f) \/ IsPurged(f)
  /\ UNCHANGED <<issued, acked>>

\* An update of f is reported done: it, or a later one, is in the document.
\* What was there before the first update is nobody's to report.
Acknowledge(f) ==
  /\ acked'[f] \in 2..doc[f]
  /\ acked'[f] > acked[f]
  /\ acked' = [acked EXCEPT ![f] = acked'[f]]
  /\ UNCHANGED <<doc, issued>>

Next ==
  \/ \E f \in Field : Issue(f)
  \/ Persist
  \/ \E f \in Field : Acknowledge(f)

Spec == Init /\ [][Next]_store

-----------------------------------------------------------------------------
\* The store's own promise: what was acknowledged is in the document, and
\* the document holds nothing that was not issued.
Durable ==
  \A f \in Field : acked[f] <= doc[f] /\ doc[f] <= issued[f]
=============================================================================
