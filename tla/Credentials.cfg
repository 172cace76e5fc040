SPECIFICATION FairSpec
CONSTANTS
  Procs = {p1, p2}
  Providers = {openai, anthropic}
  NoProc = NoProc
  NoProvider = NoProvider
  MaxVersion = 3
  MaxJobs = 3
  MaxFaults = 1
INVARIANTS CommittedKept TokenSpentOnce
PROPERTIES OperationsEnd
CHECK_DEADLOCK FALSE
