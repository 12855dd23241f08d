SPECIFICATION MCSpec
CONSTANTS
  Clients = {c1, c2}
  View <- OwnView
  Slots = {s1, s2}
  MaxPending = 2
  MaxEntity = 2
  MaxFrame = 2
  MaxPool = 2
  DrawnValues = {0, 2}
  DrawnCapacity = 4
  DrawnEntities = {"e"}
  DrawnFrames = 4
  DrawnWrites = 5
  PlayedComponents = {"a", "b"}
  PlayedInterpolated = {"a"}
  PlayedShapes = {{"a"}, {"a", "b"}}
  PlayedValues = {0, 2}
  PlayedCapacity = 2
  PlayedFrames = 3
SYMMETRY ClientAndSlotSymmetry
INVARIANTS CountsAreExact FramesAreOwn CorrectionFades  CuesHeardOnce
PROPERTIES LookIsContinuous
CHECK_DEADLOCK FALSE
