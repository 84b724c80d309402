CONSTANTS
  Net = {n1, n2}
  Home = {n1}
  User = {u1}
  Attempt = {a1}
  Rejoin = rejoin
  Restore = restore
  MaxAttempts = 2
  MaxDownloads = 2
  MaxEvents = 3
SPECIFICATION FairSpec
CHECK_DEADLOCK FALSE
INVARIANTS
  PausedIsQuiet
PROPERTIES
  NobodyIsDropped
  PauseReturns
