SPECIFICATION FairSpec
CONSTANTS
  Apis = {"anthropic", "bedrock", "completions", "responses", "azure", "codex", "google", "vertex",
          "mistral", "cursor", "faux", "proxy"}
  Keys = {1, 2}
  MaxWire = 4
  ShortWires = {"google", "vertex", "mistral"}
INVARIANTS EventsTellOneStory ArgumentsGrow
PROPERTIES ResultArrives
CHECK_DEADLOCK FALSE
