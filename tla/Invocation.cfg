\* Two workers, three log groups, eight deployments, every call of S3 failing
\* now and then.
SPECIFICATION Spec
CONSTANTS
  NoFile = NoFile
  Group <- Groups
  Setups <- Deployments
  MaxWorkers = 2
  MaxSaves = 2
  Faults = {"head", "get", "delete", "put", "load"}
CHECK_DEADLOCK FALSE
INVARIANTS
  TypeOK
  NothingForgotten
  NoWorkerLeft
PROPERTIES
  GoesOn
  EveryInvocationEnds
