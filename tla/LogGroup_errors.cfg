\* Every invocation runs to its end and loads and saves the state file: no
\* crash, no lost save, no failing load, and every other fault.
SPECIFICATION Spec
CONSTANTS
  st1 = st1
  st2 = st2
  NoTime = NoTime
  Stream = {st1, st2}
  Prefixes <- TwoPrefixes
  MinutesBack = 2
  Day = 1
  Setups <- BackAndForth
  PageSize = 5
  MaxIterations = 2
  Faults = {"list", "read", "upload", "lookup", "search", "reconfigure"}
  StartTime = 1
  Histories <- SomeHistory
  MaxTime = 3
  MaxEvents = 1
CHECK_DEADLOCK FALSE
INVARIANTS
  EntriesNotAhead
