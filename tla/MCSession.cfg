SPECIFICATION Spec
CONSTANTS
  Kinds <- MCKinds
  BATCH_SIZE = 2
  RPM = 2
  WINDOW = 2
  BUDGET = 3
  MaxTime = 2
  MaxPayments = 1
  MaxFaults = 1
INVARIANTS
  TypeOK
  RateLimited
  ConversationInOrder
  WarnedAgain
CHECK_DEADLOCK FALSE
