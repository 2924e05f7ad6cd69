SPECIFICATION LiveSpec
CONSTANTS
  N = 3
  Requires <- ForkRequires
  Deterministic = {1}
  Swallows = {2}
  Off = "off"
  Plans <- LeafOff
  Versions = {1, 2}
  NoKey = NoKey
  Procs = {p1}
  MaxExps = 2
  MaxRuns = 4
  MaxFaults = 2
  DirtyStops = TRUE
  Forcing = FALSE
  MayOverlap = FALSE
INVARIANTS CompletedIsCoherent
PROPERTIES ResumingCompletes
CHECK_DEADLOCK FALSE
