SPECIFICATION Spec
CONSTANTS
  s1 = s1
  s2 = s2
  Subscriber = {s1, s2}
  Reattach = {s1}
  Call = {1, 2, 3}
  None = None
  MaxReloads = 2
INVARIANTS
  AttachedHasTunnel
  TunnelIsLatest
PROPERTIES
  ReloadEnds
  CandidatesAttached
CHECK_DEADLOCK FALSE
