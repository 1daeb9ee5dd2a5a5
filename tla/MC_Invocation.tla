--------------------------- MODULE MC_Invocation ---------------------------
(***************************************************************************)
(* An instance of Invocation for TLC.                                      *)
(***************************************************************************)
EXTENDS Invocation

\* /aws/a, /aws_b and a group that only the common file knows.
GroupA == <<"/", "aws", "/", "a">>
GroupB == <<"/", "aws_b">>
GroupC == <<"/", "old", "/", "a">>

Groups == {GroupA, GroupB, GroupC}

Deployed(groups) ==
  [groups |-> groups, useS3State |-> TRUE, bucketNamed |-> TRUE, denied |-> {}]

\* Two log groups, without and with the operations the role needs, then with a
\* setting that skips the access check; one group named twice; no group; no
\* bucket.
TwoGroups == <<GroupA, GroupB>>
Deployments ==
  {[Deployed(TwoGroups) EXCEPT !.denied = d] : d \in SUBSET {"put", "delete"}}
    \cup {[Deployed(TwoGroups) EXCEPT !.useS3State = FALSE],
          Deployed(<<GroupA, GroupB, GroupA>>),
          Deployed(<<>>),
          [Deployed(TwoGroups) EXCEPT !.bucketNamed = FALSE]}
=============================================================================
