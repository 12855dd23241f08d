SPECIFICATION Spec
CONSTANTS
  MaxEntity = 2
  Archetypes = {"a", "b"}
  Components <- TwoArchetypes
  Values = {"v"}
  WriteInterval = 2
  FullInterval = 3
  RingSize = 2
  PrerollFrames = 0
  TailFrames = 1
  MaxFrame = 4
  MaxEffects = 2
  MaxCues = 1
INVARIANTS ReplayIsRecorded 
CHECK_DEADLOCK FALSE
