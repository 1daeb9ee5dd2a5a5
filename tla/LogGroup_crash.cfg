\* An invocation dies between two steps.
SPECIFICATION Spec
CONSTANTS
  st1 = st1
  st2 = st2
  NoTime = NoTime
  Stream = {st1}
  Prefixes <- OnePrefix
  MinutesBack = 2
  Day = 3
  Setups <- EveryTick
  PageSize = 5
  MaxIterations = 2
  Faults = {"crash"}
  StartTime = 0
  Histories <- NoHistory
  MaxTime = 5
  MaxEvents = 1
CHECK_DEADLOCK FALSE
INVARIANTS
  NoLoss
