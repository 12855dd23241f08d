SPECIFICATION Spec
CONSTANTS
  Values = 2
  Capacity = 2
  MaxInput = 2
  Lead = 1
  Targets = {1}
  Predicting = TRUE
  MaxSteps = 0
  MayRewind = FALSE
  MaxFrame = 4
  MaxPackets = 1
  MaxUpdates = 1
INVARIANTS OverwrittenDecodesExactly
CHECK_DEADLOCK FALSE
