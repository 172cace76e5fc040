SPECIFICATION AllSpec
CONSTANTS
  Modes = {"sequential", "parallel"}
  SteeringMode = "all"
  FollowUpMode = "one-at-a-time"
  ClientCalls = {"abort","steer"}
  MaxMessages = 2
  MaxCalls = 3
  MaxBatch = 2
  MaxRuns = 2
  MaxRaises = 1
  Commands = {1}
  Callers = {"env", "session", "tool"}
  Limit = 1
  MaxChunks = 4
  MaxFails = 1
  RpcModes = {"embedded", "piped"}
  LineKinds = {"await", "prompt", "command"}
  MaxLines = 2
INVARIANTS
  ContextMirrorsTranscript
  ResultsFollowCalls
  CallsAnsweredBeforeRequest
  SettledStateIsClean
  LogIsWhole
PROPERTIES
  RunSettles
  StoppedCommandsEnd
  CommandsAnswered
  EventsToldOnce
CHECK_DEADLOCK FALSE
