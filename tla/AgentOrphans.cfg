SPECIFICATION Spec
CONSTANTS
  Modes <- ParallelOnly
  SteeringMode = "one-at-a-time"
  FollowUpMode = "one-at-a-time"
  ClientCalls = {}
  MaxMessages = 1
  MaxCalls = 2
  MaxBatch = 2
  MaxRuns = 1
  MaxRaises = 1
INVARIANT
  ListenersRunInsideRun
CHECK_DEADLOCK FALSE
