SPECIFICATION Spec
CONSTANTS
  f1 = f1
  f2 = f2
  p1 = p1
  s1 = s1
  h1 = h1
  File = {f1}
  Peer = {p1}
  Cap = 1
  Seeker = {s1}
  Hearer = {h1}
  MaxDeletes = 1
  MaxPauses = 1
CHECK_DEADLOCK FALSE
INVARIANT EndsAreWhole
INVARIANT StaysAwake
PROPERTY KeepsContract
