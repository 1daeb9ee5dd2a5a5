\* Only the methods that take the lock; entries expire and puts fail.
SPECIFICATION FairSpec
CONSTANTS
  w1 = w1
  w2 = w2
  main = main
  m1 = m1
  st1 = st1
  st2 = st2
  NoThread = NoThread
  NoObj = NoObj
  NoDoc = NoDoc
  NoField = NoField
  Thread = {w1, w2, main}
  Manager = {m1}
  ManagerOf <- TeamManagerOf
  Stream = {st1, st2}
  OldStream = {st2}
  Obj = {o1, o2, o3, o4}
  Calls <- WriterCalls
  MaxCalls = 1
  StartFrom = {"absent", "cold"}
  Faults = {"expire", "put_error"}
CHECK_DEADLOCK FALSE
INVARIANTS
  NoLostUpdate
  WritersDoNotShare
PROPERTIES
  AckedIsDurable
  EveryCallReturns
