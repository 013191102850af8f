SPECIFICATION FairSpec
CONSTANTS
  pub1 = pub1
  pub2 = pub2
  h1 = h1
  h2 = h2
  m1 = m1
  Publishers <- TwoPublishers
  Handlers <- TwoHandlers
  Matched = 2
  Copies <- OneCopy
  MaxAttempts = 2
CHECK_DEADLOCK FALSE
INVARIANTS
  DeliveryInv
PROPERTIES
  Delivered
