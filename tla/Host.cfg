SPECIFICATION HostSpec
CONSTANTS
  Managers = {p1, p2}
  SettingsScopes = {"global", "project"}
  Fields = {"theme", "retry"}
  MaxSets = 2
  MaxOther = 1
  LoginProviders = {"anthropic", "openai-codex", "github-copilot", "cursor", "api-key"}
  MaxLogins = 3
  MaxTypedLines = 4
  ToolCalls = {1, 2, 3}
  Texts <- SomeTexts
  Edits <- SomeEdits
  MaxChanges = 2
  Scripts = {"s"}
  Builtin = {"read"}
  Tools = {"read"}
  ExtensionProviders = {"p"}
  MaxCalls = 3
  Npm = {"n"}
  Git = {"g"}
  Local = {"l"}
  Refs = {"v1", "v2"}
  PackageScopes = {"user", "project"}
  MaxCommands = 3
INVARIANTS LoginEnds ExtensionsReached ListIsTrue
PROPERTIES SettingsKept NoEditLost ModelsKept
CHECK_DEADLOCK FALSE
