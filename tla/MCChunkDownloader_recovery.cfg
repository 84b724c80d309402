SPECIFICATION Spec
CONSTANTS
  p1 = p1
  p2 = p2
  Peer = {p1, p2}
  Slot = {1, 2}
  SumOf <- Distinct
  FileOf <- OneFile
  Answers = {"data", "busy", "dead"}
  Faults = {"full", "alloc"}
  Stops = {"disabled", "destroyed"}
  MaxSkips = 1
  MaxCorrupt = 1
  MaxRealloc = 1
  MaxRetries = 1
  MaxDeletions = 1
  MaxEnables = 1
  MaxGains = 0
  NoPeer = NoPeer
  NoSlot = 0
SYMMETRY PeerSymmetry
INVARIANT RecoveryHolds
