SPECIFICATION Spec
CONSTANTS
  Unused = Unused
  u1 = u1
  u2 = u2
  v1 = v1
  v2 = v2
SYMMETRY Symmetry
INVARIANTS OneWorker StartIsVerified RewardFollowsRules SnapshotIsAState
PROPERTIES LoginIsUsedOnce InvalidatedIsNotServed
CHECK_DEADLOCK FALSE
