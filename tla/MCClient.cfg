SPECIFICATION mcSpec
CONSTANTS
  MaxWire = 2
  MaxDownloadEvents = 4
  Socket = {1, 2, 3}
  Request = {r1}
  MaxConnectionEvents = 3
  MaxDepth = 1
  MaxFlights = 2
  MaxBrowserEvents = 2
  Columns = 2
  Rows = 3
  MaxItems = 3
  PageSize = 1
  MaxRows = 2
  MaxDetailEvents = 4
  MaxSearches = 2
  MaxSocket = 3
  MaxInputEvents = 4
  Depth = 2
  MaxMoves = 6
  Lishnet = {n1, n2}
  MaxPeers = 1
  MaxWatchEvents = 4
  MaxPushes = 2
INVARIANTS
  RowFollows
  PlaceHolds
  RowsBelong
  WatchHolds
PROPERTIES
  ConnectionGoesOn
  UpNeedsDown
CHECK_DEADLOCK FALSE
