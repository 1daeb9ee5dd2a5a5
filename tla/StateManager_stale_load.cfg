\* Two workers, no fault: a load outside the lock is late.
SPECIFICATION Spec
CONSTANTS
  w1 = w1
  w2 = w2
  main = main
  m1 = m1
  st1 = st1
  st2 = st2
  NoThread = NoThread
  NoObj = NoObj
  NoDoc = NoDoc
  NoField = NoField
  Thread = {w1, w2}
  Manager = {m1}
  ManagerOf <- PairManagerOf
  Stream = {st1, st2}
  OldStream = {}
  Obj = {o1, o2, o3}
  Calls <- PairCalls
  MaxCalls = 2
  StartFrom = {"absent"}
  Faults = {}
SYMMETRY ObjSymmetry
CHECK_DEADLOCK FALSE
INVARIANTS
  NoLostUpdate
