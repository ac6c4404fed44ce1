SPECIFICATION Spec
CONSTANTS
  Unused = Unused
  u1 = u1
  u2 = u2
  c1 = c1
  c2 = c2
  c3 = c3
  g1 = g1
  g2 = g2
  g3 = g3
SYMMETRY Symmetry
INVARIANTS ClaimableIsAccounted ReadyMeansLoaded ClosedLast
PROPERTIES SessionIsDurable LookupsAreBounded NoWorkOnClosedDb VersionIsTrue
CHECK_DEADLOCK FALSE
