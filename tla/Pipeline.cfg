\* Two streams, two workers, two prefixes, an event that cannot be written; every
\* fault but a failing removal.
SPECIFICATION Spec
CONSTANTS
  st1 = st1
  st2 = st2
  NoToken = NoToken
  Stream = {st1, st2}
  PageSize = 1
  MaxIterations = 3
  MaxEmpty = 2
  ReadFaults = {"api", "save"}
  Prefixes <- TwoPrefixes
  Contents <- SomeContents
  Before <- SomeBefore
  Unwritable <- NotWritten
  MaxWorkers = 2
  Faults = {"list", "timeout", "disk", "upload"}
CHECK_DEADLOCK FALSE
INVARIANTS
  TypeOK
  TokenExact
  ObjectsWhole
  NoTempLeft
PROPERTIES
  EveryGroupEnds
