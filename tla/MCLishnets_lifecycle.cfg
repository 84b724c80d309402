SPECIFICATION Spec
CONSTANTS
  n1 = n1
  n2 = n2
  a1 = a1
  a2 = a2
  w1 = w1
  w2 = w2
  c1 = c1
  c2 = c2
  Net <- TwoNets
  Addr <- NoAddr
  Writer <- OneWriter
  Controller <- TwoControllers
  Calls <- Both
  MaxDials = 1
  Faults <- AllFaults
SYMMETRY NetSymmetry
INVARIANTS
  ObserversAgree
  StopFindsNobody
  JoinedIsSubscribed
