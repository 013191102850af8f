SPECIFICATION FairCastSpec
CONSTANTS
  op1 = op1
  op2 = op2
  worker = worker
  refunder1 = refunder1
  refunder2 = refunder2
  reauthorizer = reauthorizer
  Operators <- OneOperator
  Workers <- OneWorker
  Refunders <- None
  Reauthorizers <- OneReauthorizer
  Amount = 1
  MaxReauthorizations = 1
  WebhookTypes <- CaptureWebhook
  Casts = {"reauthorize", "pay"}
  MaxAttempts = 2
  MaxDisputes = 1
CHECK_DEADLOCK FALSE
INVARIANTS
  ReleasedMeansCaptured
PROPERTIES
  WorkerPays
