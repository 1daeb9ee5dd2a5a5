\* Late runs, every fault and changes of the set-up.  The read time depends on
\* the events only by the search for the oldest one: one old event is enough.
SPECIFICATION Spec
CONSTANTS
  st1 = st1
  st2 = st2
  NoTime = NoTime
  Stream = {st1}
  Prefixes <- OnePrefix
  MinutesBack = 2
  Day = 1
  Setups <- AnyTime
  PageSize = 5
  MaxIterations = 2
  Faults = {"save", "load", "crash", "list", "read", "upload", "lookup", "search", "reconfigure"}
  StartTime = 1
  Histories <- SomeHistory
  MaxTime = 4
  MaxEvents = 1
CHECK_DEADLOCK FALSE
PROPERTIES
  ReadTimeForward
