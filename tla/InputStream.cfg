SPECIFICATION Spec
CONSTANTS
  Values = 2
  Capacity = 2
  MaxInput = 2
  Lead = 1
  Targets = {1}
  Predicting = TRUE
  MaxSteps = 0
  MayRewind = FALSE
  MaxFrame = 4
  MaxPackets = 2
  MaxUpdates = 2
INVARIANTS InputsDecodeExactly BaselinesAgree
PROPERTIES DueInputApplied
CHECK_DEADLOCK FALSE
