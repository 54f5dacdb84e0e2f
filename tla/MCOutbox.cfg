CONSTANTS
  m1 = m1
  d1 = d1
  d2 = d2
  Messages <- MCOneMessage
  BadMarkdown <- MCBadMarkdown
  Drains <- MCDrains
  BATCH_SIZE = 1
  MAX_RETRIES = 1
  MaxFaults = 2
  MaxCalls = 1
SPECIFICATION FairSpec
INVARIANTS TypeOK ExclusiveSending CopiesBounded
PROPERTIES EventuallyOut ImplementsAbs
