CONSTANTS
  s1 = s1
  s2 = s2
  s3 = s3
  Clients = {s1, s2, s3}
  PeerOf <- mcPeerOf
  Wanted = {l1}
  Cap = 1
  MaxRequests = 3
  IoThreshold = 2
  MaxExchanges = 3
  Viewers = {v1}
  MaxBytes = 2
  Responders = {r1, r2}
  Topics = {t1, t2}
  Workers = 1
  MaxMoves = 1
  Addrs = {a1, a2}
  Dialers = {d1, d2}
  StatusPeers = {p1}
  MaxDiscovered = 1
  MaxStarts = 5
  Nets = {n1}
  Sources = {p1, p2}
  Burst = 2
  MaxSources = 1
  MaxRaw = 3
  EvictAt = 1
  MaxUpkeep = 4
SPECIFICATION mcSpec
INVARIANTS ServingHolds AnswersBelong StatusHolds UpkeepHolds
PROPERTIES EndingHolds
CHECK_DEADLOCK FALSE
