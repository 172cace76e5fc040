SPECIFICATION FairSpec
CONSTANTS
  Texts = {"a"}
  MaxRetries = 1
  MaxPrompts = 2
  MaxQueued = 2
  MaxTools = 1
  MaxOps = 2
  MaxCalls = 2
INVARIANTS
  ConversationKept
  ShownIsPending
PROPERTIES
  PromptReturns
CHECK_DEADLOCK FALSE
