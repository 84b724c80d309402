CONSTANTS
  Lish = {l1}
  Piece = {p1}
  Op = {1}
  MaxRuns = 5
  MaxEvents = 4
  Calls = {"import", "download", "move", "delete"}
  Mine = {"away"}
SPECIFICATION StoreSpec
PROPERTY MineIsKept
CHECK_DEADLOCK FALSE
