SPECIFICATION Spec
CONSTANTS
  x = x
  y = y
  z = z
  Gone = Gone
  Stale = Stale
  NoFile = NoFile
  TrainPercent = 80
  ValidationPercent = 10
  Shuffle <- Seed42
  Scenarios <- TwoFaults
  Requests <- Strictly
CHECK_DEADLOCK FALSE
INVARIANT TestIsHeldOut
