SPECIFICATION Spec
CONSTANTS
  Modes <- OneAtATime
  Overlapping = TRUE
  MaxRuns = 2
  MaxMessages = 2
  MaxWrites = 0
  MaxTools = 0
  MaxOps = 0
  MaxCalls = 5
  MaxRaises = 0
INVARIANTS
  WaitEndsAfterRuns
CHECK_DEADLOCK FALSE
