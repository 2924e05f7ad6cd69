SPECIFICATION LiveSpec
CONSTANTS
  M = 4
  Graphs <- Loopless
INVARIANTS RequiredFirst CycleIffCyclic ForceIsCascade
PROPERTIES Terminates
CHECK_DEADLOCK FALSE
