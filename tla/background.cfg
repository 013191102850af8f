SPECIFICATION BackgroundSpec
CONSTANTS
  Callers = {"c1", "c2", "c3"}
  Threshold = 2
  OpenFor = 3
  Timeout = 1
  Writers = {"w1", "w2"}
  Verifiers = {"v1", "v2"}
  BatchSize = 2
  MaxId = 2
  MaxCrashes = 1
  MaxAltered = 1
  NoWriter = NoWriter
  Jobs = {"j1"}
  Recipient <- ForTheFirstUser
  Users = {"u1"}
  Devices = {"d1"}
  Processes = {p1, p2}
  p1 = p1
  p2 = p2
  MaxAttempts = 2
  MaxDevices = 1
  MaxMishaps = 1
  MaxRetries = 1
  NoOwner = NoOwner
  NoWork = NoWork
  MaxDetours = 2
  NoKey = NoKey
  Photos = {"before", "after"}
  MaxSlips = 3
  NoPhoto = NoPhoto
CHECK_DEADLOCK FALSE
INVARIANTS
  BreakerInv
  EvidenceInv
PROPERTIES
  RecoversForGood
  VerificationAdvances
  EveryJobSettles
  CommandsActInTurn
  VisitEnds
  PhotoGetsThrough
