SPECIFICATION Spec
CONSTANTS
  Modes <- SequentialOnly
  SteeringMode = "one-at-a-time"
  FollowUpMode = "all"
  ClientCalls = {"steer", "followUp", "clear", "abort", "reset"}
  MaxMessages = 3
  MaxCalls = 1
  MaxBatch = 1
  MaxRuns = 2
  MaxRaises = 1
INVARIANTS
  NoMessageLost
PROPERTIES
  ImplementsDelivery
CONSTRAINT OneDisturbance
CHECK_DEADLOCK FALSE
