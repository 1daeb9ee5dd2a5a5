\* One cache lifetime: the document is cached before the threads start.
SPECIFICATION Spec
CONSTANTS
  w1 = w1
  w2 = w2
  main = main
  m1 = m1
  st1 = st1
  st2 = st2
  NoThread = NoThread
  NoObj = NoObj
  NoDoc = NoDoc
  NoField = NoField
  Thread = {w1, main}
  Manager = {m1}
  ManagerOf <- DuoManagerOf
  Stream = {st1}
  OldStream = {st1}
  Obj = {o1, o2, o3}
  Calls <- DuoCalls
  MaxCalls = 3
  StartFrom = {"warm"}
  Faults = {"put_error"}
SYMMETRY ObjSymmetry
CHECK_DEADLOCK FALSE
INVARIANTS
  TypeOK
  WritersStartFresh
  ReadersSeeAcked
PROPERTIES
  ImplementsStore
