SPECIFICATION Spec
CONSTANTS
  provider = provider
  customer = customer
  e1 = e1
  e2 = e2
  Participants <- BothParticipants
  Evaluators <- OneEvaluator
  Situations <- TwoSituations
  OperatorLevels <- ThreeLevels
  MaxEpisodes = 1
CHECK_DEADLOCK FALSE
INVARIANTS
  EmergencyHasACause
