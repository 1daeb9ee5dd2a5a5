---------------------------- MODULE MC_LogGroup ----------------------------
(***************************************************************************)
(* Instances of LogGroup for TLC.                                          *)
(***************************************************************************)
EXTENDS LogGroup

CONSTANTS st1, st2

\* One prefix; two prefixes of which st1 matches both, as a stream
\* "kube-apiserver-audit-x" matches kube-apiserver-audit and kube-apiserver.
OnePrefix == <<Stream>>
TwoPrefixes == <<{st1}, Stream>>

Retention(r, cw, min, max) ==
  [retentionDay |-> r, fullBackup |-> FALSE, cloudwatchDays |-> cw,
   minGap |-> min, maxGap |-> max]
Default(gap) == Retention(0, 0, gap, gap)
FullBackup(gap) ==
  [retentionDay |-> 0, fullBackup |-> TRUE, cloudwatchDays |-> 0,
   minGap |-> gap, maxGap |-> gap]

\* Set-ups that are run in time: two or three runs per MINUTES_BACK with a
\* finite retention (read one day before the deletion, or right away), and a
\* run every MINUTES_BACK in the modes that move by that much.
InTime == {Retention(1, 2, 1, 2), Retention(3, 2, 1, 2), Default(MinutesBack),
           FullBackup(MinutesBack)}
\* Runs that are late by any time, in three modes and in two of them.
AnyTime ==
  {Retention(1, 2, 1, MaxTime), [Default(1) EXCEPT !.maxGap = MaxTime],
   [FullBackup(1) EXCEPT !.maxGap = MaxTime]}
BackAndForth == {c \in AnyTime : c.retentionDay > 0 \/ c.fullBackup}

\* A run every tick.
EveryTick == {Retention(1, 1, 1, 1)}

\* What the streams logged before the clock starts.
NoHistory == {[s \in Stream |-> {}]}
AnyHistory == [Stream -> SUBSET (0..(StartTime - 1))]
SomeHistory == AnyHistory \ NoHistory
=============================================================================
