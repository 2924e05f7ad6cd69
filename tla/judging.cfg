SPECIFICATION ResumingSpec
CONSTANTS
  x = x
  y = y
  z = z
  Gone = Gone
  Stale = Stale
  NoFile = NoFile
  TrainPercent = 40
  ValidationPercent = 40
  Shuffle <- Seed42
  Scenarios <- All
  Requests <- SomeRequests
INVARIANTS RanksAgree RecordedOnce PairsAreSound NothingDropped CapKeepsTheWidest CompletedIsSplit ValidatorsAgree
PROPERTIES ResumingSettles
CHECK_DEADLOCK FALSE
