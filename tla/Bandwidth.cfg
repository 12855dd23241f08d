SPECIFICATION FairSpec
CONSTANTS
  Participants = {p1, p2}
  Weight <- Weights
  Urgency <- Urgencies
  Entities = {1, 2}
  Size <- Sizes
  Priority <- Priorities
  Overhead = 1
  Mtu = 2
  Burst = 6
  Refills = {6}
  MaxRefusals = 2
  MaxTracked = 2
  MaxPacketId = 2
  MaxPriority = 4
  MaxOrphaned = 2
INVARIANTS RoundUsesBudget InFlightAccounted
PROPERTIES NobodyStarves
CHECK_DEADLOCK FALSE
