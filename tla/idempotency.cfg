SPECIFICATION FairSpec
CONSTANTS
  alice = alice
  bob = bob
  carol = carol
  b1 = b1
  b2 = b2
  Clients <- ThreeClients
  Bodies <- TwoBodies
  body <- body3
  Purges = TRUE
INVARIANTS
  IdempotencyInv
PROPERTIES
  KeyIsFreed
