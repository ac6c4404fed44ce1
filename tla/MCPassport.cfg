SPECIFICATION Spec
CONSTANTS
  Unused = Unused
  u1 = u1
  u2 = u2
SYMMETRY Symmetry
INVARIANTS StampCountsOnce CountedIsGenuine
PROPERTIES RefreshesAreLimited StakeIsCurrent BoostIsProven
CHECK_DEADLOCK FALSE
