SPECIFICATION MCSpec
CONSTANTS
  Clients = {c1}
  Host = host
  Entities = {e1}
  Relevances = {0, 1}
  MaxPending = 2
  MaxFrame = 3
  MaxCues = 2
  Predicted = {p1, p2}
  Policies = {"All", "OnlyAffected"}
  Offsets = {0, 1}
  RingCapacity = 4
  MayDestroy = TRUE
  MaxPredicted = 4
  Sub = 4
  Configs <- SmallConfigs
  Skews = {0, 20}
  Steps = {4, 12}
  Delays = {0, 8}
  MaxTime = 16
  MaxPings = 1
  MaxPacketId = 7
  LossWindow = 64
  Reorder = 2
  MaxSkip = 3
  MaxSent = 9
SYMMETRY PredictedSymmetry
INVARIANTS CueIsKept  CuesFollowPrediction  WithinRings MissingIsExact
CHECK_DEADLOCK FALSE
