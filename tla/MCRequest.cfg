CONSTANTS
  Updates <- MCUpdates
  IntentsUsed <- MCIntents
  SizesUsed <- MCSizes
  MaxFaults = 1
SPECIFICATION Spec
INVARIANTS TypeOK AnswerIsPaid NothingBilledTwice BlockedNeverDelivered
INVARIANTS GroundingKept NoSilentEnd
