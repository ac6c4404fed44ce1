SPECIFICATION Spec
CONSTANTS
  Unused = Unused
  s1 = s1
  s2 = s2
  s3 = s3
  u1 = u1
  u2 = u2
SYMMETRY Symmetry
INVARIANTS ClaimsAreCovered BalanceIsExact RateIsConserved GrantsAreLimited PaysOnce
PROPERTIES ReadyIsCurrent
CHECK_DEADLOCK FALSE
