SPECIFICATION Spec
CONSTANTS
  Peers = {p1, p2}
  Local = local
  MaxId = 2
  HandlerIds = {2}
  MayReject = FALSE
  ResendInterval = 1
  IdleTimeout = 1
  MaxInFlight = 1
  AppCalls = {"remove_client"}
INVARIANTS TableConsistent SweepIsComplete ReadyWasTaken
PROPERTIES ImplementsSessionTable
SYMMETRY PeerSymmetry
