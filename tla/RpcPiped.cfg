SPECIFICATION Spec
CONSTANTS
  Modes = {"piped"}
  Kinds = {"sync", "prompt"}
  MaxLines = 2
PROPERTIES CommandsAnswered
CHECK_DEADLOCK FALSE
