\* Two iterations to the end.
SPECIFICATION Spec
CONSTANTS
  t1 = t1
  t2 = t2
  None = None
  Thread = {t1, t2}
  Contents <- Plain
  Queries <- Listing
  Batch = 2
  MaxCalls = 2
  MaxChanges = 0
CHECK_DEADLOCK FALSE
PROPERTIES
  EveryQueryReturns
