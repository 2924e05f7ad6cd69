SPECIFICATION LiveSpec
CONSTANTS
  Slots = {1, 2, 3}
  ProblemOf <- ThreeSlots
  Codes = {c1, c2}
  MaxAttempts = 2
  Broken = Broken
  MaxRuns = 3
  MaxFaults = 2
INVARIANTS NeverTwice LinksToEarliest CompletedIsValid
PROPERTIES ResumingCompletes IsDirectory
CHECK_DEADLOCK FALSE
