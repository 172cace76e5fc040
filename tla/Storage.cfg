SPECIFICATION AllSpec
CONSTANTS
  Procs = {p1, p2}
  Paths = {a}
  Kinds = {"meta", "assistant", "summary"}
  MaxLog = 3
  MaxSessions = 2
  MaxTorn = 1
  TreeProcs = {q}
  TreePaths = {b, c}
  TreeKinds = {"assistant", "compaction", "summary", "label", "unlabel"}
  MaxTree = 4
  Clients = {p1, p2}
  Sessions = {b, c}
  MaxEntries = 3
  MaxFaults = 1
  Apis = {"anthropic", "completions", "responses"}
  KeepRecent = 2
  MaxBranch = 6
  MaxCalls = 2
  MaxCompactions = 2
  MaxMoves = 1
SYMMETRY Symmetry
INVARIANTS LogIsKept TreeIsKept MemoryIsFile RequestIsWhole
PROPERTIES HistoryKept
CHECK_DEADLOCK FALSE
