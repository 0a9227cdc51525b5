SPECIFICATION Spec
CONSTANTS
  ClientCid = {d1, d2}
  ServerCid = {s1, s2, s3, s4}
  NoCid = NoCid
  PreferredAddr = TRUE
  CidLimit = 3
SYMMETRY IdSymmetry
INVARIANTS
  RoutesExact
PROPERTIES
  RoutesFaithfully
CHECK_DEADLOCK FALSE
