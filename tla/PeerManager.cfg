SPECIFICATION PeersFairSpec
CONSTANTS
  Remote = {p1, p2}
  Dialer = {d1, d2}
  Cap = 1
  MaxClients = 2
CHECK_DEADLOCK FALSE
INVARIANTS
  CapRespected
  EntriesAreLive
  NoStreamLeaks
  DestroyLeavesNobody
PROPERTIES
  DestroyReturns
