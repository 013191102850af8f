SPECIFICATION FairSpec
CONSTANTS
  provider = provider
  customer = customer
  e1 = e1
  e2 = e2
  Participants <- BothParticipants
  Evaluators <- TwoEvaluators
  Situations <- TwoSituations
  OperatorLevels <- ThreeLevels
  MaxEpisodes = 2
CHECK_DEADLOCK FALSE
INVARIANTS
  SafetyInv
PROPERTIES
  ImplementsAlarm
  RiskCatchesUp
