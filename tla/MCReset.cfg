CONSTANTS
  w1 = w1
  w2 = w2
  w3 = w3
  m1 = m1
  m2 = m2
  Writer = {w1, w2, w3}
  Maintainer = {m1, m2}
  Selections = {{}, {"downloads", "settings"}, {"networks", "identity"}}
  MaxSize = 2
  MaxSettingsEvents = 3
  MaxPending = 2
  MaxLevel = 1
  MaxVolumeEvents = 3
  MaxSaving = 1
  MaxTold = 1
SPECIFICATION mcSpec
INVARIANTS TypeOK Exclusion ResetIsWhole HostHolds
PROPERTIES NothingEntersClosedGate EverybodyGetsOn
