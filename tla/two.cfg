SPECIFICATION Spec
CONSTANTS
  N = 3
  Requires <- ForkRequires
  Deterministic = {1}
  Swallows = {}
  Off = "off"
  Plans <- ParentOff
  Versions = {1}
  NoKey = NoKey
  Procs = {p1, p2}
  MaxExps = 2
  MaxRuns = 3
  MaxFaults = 1
  DirtyStops = FALSE
  Forcing = TRUE
  MayOverlap = FALSE
SYMMETRY Symm
INVARIANTS TypeOK Provenance CompletedIsCoherent StoppedShape InputsAreOnDisk ForceIsHonoured
PROPERTIES CompletedIsFrozen
CHECK_DEADLOCK FALSE
