SPECIFICATION LiveSpec
CONSTANTS
  Procs = {p1}
  Tests = {1, 2}
  Reports = {"passed", "silent"}
  Silent = "silent"
  None = None
  MaxFaults = 1
  Candidates = {1, 2, 3}
  Unbuildable = {2}
  MaxRuns = 2
INVARIANTS OneOutcomeEach PassedIsEarned DetailsFollow NoOrphans
PROPERTIES JobsEnd ResumingCompletes IsDirectory
CHECK_DEADLOCK FALSE
