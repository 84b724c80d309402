SPECIFICATION Spec
CONSTANTS
  p1 = p1
  p2 = p2
  Peer = {p1, p2}
  Slot = {1, 2, 3}
  SumOf <- Shared
  FileOf <- SharedFiles
  Answers = {"data", "garbage", "absent", "dead"}
  Faults = {"other"}
  Stops = {"destroyed"}
  MaxSkips = 1
  MaxCorrupt = 1
  MaxRealloc = 1
  MaxRetries = 1
  MaxDeletions = 0
  MaxEnables = 0
  MaxGains = 1
  NoPeer = NoPeer
  NoSlot = 0
SYMMETRY PeerSymmetry
INVARIANT ChunksHold
PROPERTY LeavingIsRight
