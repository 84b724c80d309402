SPECIFICATION FairSpec
CONSTANTS
  n1 = n1
  n2 = n2
  a1 = a1
  a2 = a2
  w1 = w1
  w2 = w2
  c1 = c1
  c2 = c2
  Net <- OneNet
  Addr <- TwoAddrs
  Writer <- OneWriter
  Controller <- OneController
  Calls <- Both
  MaxDials = 1
  Faults <- AllFaults
INVARIANTS
  EntryIffJoined
  NoResurrectedAddress
PROPERTIES
  EverybodyReturns
