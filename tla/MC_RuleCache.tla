---------------------------- MODULE MC_RuleCache ----------------------------
(***************************************************************************)
(* Instances of RuleCache for TLC.                                         *)
(***************************************************************************)
EXTENDS RuleCache

CONSTANTS t1, t2

\* A date twice in a row, a date that is excluded, excluded dates before and
\* between the included ones, and a set without dates.
SomeContents ==
  {[include |-> <<<<2, 4>>, <<1, 2, 5>>>>, exclude |-> <<<<0, 1, 3>>, <<4>>>>],
   [include |-> <<<<1, 2, 3, 4>>>>, exclude |-> <<>>],
   [include |-> <<<<>>, <<3>>>>, exclude |-> <<<<3>>>>]}

Query(op) == [op |-> op, from |-> 2, to |-> 5, inc |-> FALSE, n |-> 0]
SomeQueries ==
  {Query("list"), Query("contains"), Query("after"),
   [Query("before") EXCEPT !.to = 4], [Query("between") EXCEPT !.inc = TRUE],
   [Query("getitem") EXCEPT !.n = 2]}

Listing == {Query("list")}
Plain == {[include |-> <<<<1, 2, 3>>>>, exclude |-> <<>>]}
=============================================================================
