\* Rules from every frequency, and one computation of every kind per behaviour.
SPECIFICATION DSpec
CONSTANTS
  None = None
  FloatExact = 128
  MaxYear = 2026
  Rules <- SomeRules
  Moments <- SomeMoments
  Deltas <- SomeDeltas
  Zones <- SomeZones
  Near <- SomeNear
  Years <- SomeYears
CHECK_DEADLOCK FALSE
INVARIANTS
  RuleExact
  DiffExact
  PartsReached
  DeltasExact
  ZoneRoundTrip
  WallTimes
  ImaginaryResolved
  EastersAgree
PROPERTIES
  TurnsAdvance
