CONSTANTS
  c1 = c1
  c2 = c2
  u1 = u1
  u2 = u2
  u3 = u3
  Consumers <- MCOverlap
  Updates <- MCTwoUpdates
  BATCH_SIZE = 2
  MAX_ATTEMPTS = 2
  MaxDeliveries = 1
  MaxFaults = 0
  MaxReplays = 1
SPECIFICATION FairSpec
INVARIANTS ExclusiveProcessing
\* Every update may be settled or lost: the system then rests.
CHECK_DEADLOCK FALSE
