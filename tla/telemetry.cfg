SPECIFICATION Spec
CONSTANTS
  Radius = 150
  AccuracyLimit = 100
  DebounceSamples = 2
  Fixes <- ThreeFixes
  Start = 1
  End = 2
  MaxSpeed = 18000
  MaxSkew = 2
  MaxAge = 3
  MaxSampleAge = 3
  BatchSize = 2
  ReanchorAfter = 2
  Moments <- ThreeMoments
  MaxReadings = 4
  MaxPending = 2
  MaxEngines = 2
CHECK_DEADLOCK FALSE
INVARIANTS
  TelemetryInv
  AlarmsAreGrounded
PROPERTIES
  NothingIsForgotten
