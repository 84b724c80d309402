CONSTANTS
  Lish = {l1, l2}
  Piece = {p1, p2}
  Op = {1, 2}
  MaxRuns = 4
  MaxEvents = 3
  Calls = {"verify", "verifyAll", "stopVerify", "stopVerifyAll", "create", "import", "delete", "move", "download", "upload", "reset"}
  Mine = {"away"}
  Trees <- mcTrees
  Threads = 2
  Layouts <- mcLayouts
  MaxAdds = 2
SPECIFICATION mcSpec
INVARIANTS VerificationHolds ManifestHolds
PROPERTIES StoreGoesOn
CHECK_DEADLOCK FALSE
