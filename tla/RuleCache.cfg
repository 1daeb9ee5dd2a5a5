\* Queries of every kind at once, changes of the set in between.
SPECIFICATION Spec
CONSTANTS
  t1 = t1
  t2 = t2
  None = None
  Thread = {t1, t2}
  Contents <- SomeContents
  Queries <- SomeQueries
  Batch = 2
  MaxCalls = 3
  MaxChanges = 1
CHECK_DEADLOCK FALSE
INVARIANTS
  TypeOK
  GeneratorSafe
  InBounds
  CacheExact
  AnswersRight

  
