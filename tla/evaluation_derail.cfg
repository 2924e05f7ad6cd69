SPECIFICATION Spec
CONSTANTS
  Procs = {p1}
  Tests = {1}
  Reports = {"passed", "silent"}
  Silent = "silent"
  None = None
  MaxFaults = 0
  Candidates = {1, 2}
  Unbuildable = {}
  MaxRuns = 2
INVARIANT CrashesAreResults
CHECK_DEADLOCK FALSE
