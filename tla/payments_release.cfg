SPECIFICATION CastSpec
CONSTANTS
  op1 = op1
  op2 = op2
  worker = worker
  refunder1 = refunder1
  refunder2 = refunder2
  reauthorizer = reauthorizer
  Operators <- TwoOperators
  Workers <- OneWorker
  Refunders <- OneRefunder
  Reauthorizers <- None
  Amount = 2
  MaxReauthorizations = 0
  WebhookTypes <- AllWebhooks
  Casts = {"release", "refund"}
  MaxAttempts = 2
  MaxDisputes = 1
CHECK_DEADLOCK FALSE
INVARIANTS
  CaptureAtMostOnce
  OpenDisputeFreezes
PROPERTIES
  OutcomeIsFinal
  SettledIsFinal
  ImplementsEscrow
