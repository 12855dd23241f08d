SPECIFICATION FairSpec
CONSTANTS
  Peers = {p1}
  Local = local
  MaxId = 2
  HandlerIds = {}
  MayReject = FALSE
  ResendInterval = 2
  IdleTimeout = 0
  MaxInFlight = 9
  AppCalls = {"add_client", "add_local_client"}
INVARIANTS HostsAgree
 
