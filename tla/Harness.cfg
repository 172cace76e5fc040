SPECIFICATION FairSpec
CONSTANTS
  Modes <- OneAtATime
  Overlapping = FALSE
  MaxRuns = 2
  MaxMessages = 3
  MaxWrites = 1
  MaxTools = 1
  MaxOps = 1
  MaxCalls = 5
  MaxRaises = 2
INVARIANTS
  SessionIsTrue
  WaitEndsAfterRuns
PROPERTIES
  WaitReturns
  ImplementsDelivery
CHECK_DEADLOCK FALSE
