---------------------------- MODULE MC_Pipeline ----------------------------
(***************************************************************************)
(* An instance of Pipeline for TLC.                                        *)
(***************************************************************************)
EXTENDS Pipeline

CONSTANTS st1, st2

\* api/v1 matches one stream, api both.
TwoPrefixes ==
  <<[name |-> <<"api", "/", "v1">>, streams |-> {st1}],
    [name |-> <<"api">>, streams |-> {st1, st2}]>>

\* Two events of the same time in one stream, and an earlier one in the other.
SomeContents == {[s \in Stream |-> IF s = st1 THEN <<2, 2>> ELSE <<1>>]}
SomeBefore == {[s \in Stream |-> 0], [s \in Stream |-> IF s = st1 THEN 1 ELSE 0]}

\* The second event of the first stream cannot be written.
NotWritten == {[stream |-> st1, number |-> 2]}
=============================================================================
