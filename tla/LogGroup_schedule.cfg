\* Every set-up run in time, no fault.
SPECIFICATION Spec
CONSTANTS
  st1 = st1
  st2 = st2
  NoTime = NoTime
  Stream = {st1}
  Prefixes <- OnePrefix
  MinutesBack = 3
  Day = 5
  Setups <- InTime
  PageSize = 5
  MaxIterations = 2
  Faults = {}
  StartTime = 5
  Histories <- SomeHistory
  MaxTime = 11
  MaxEvents = 2
CHECK_DEADLOCK FALSE
INVARIANTS
  TypeOK
  Complete
  NoDuplicate
  NotAhead
  FromOldest
