SPECIFICATION Spec
CONSTANTS
  Unused = Unused
  s0 = s0
  s1 = s1
  s2 = s2
  s3 = s3
  r1 = r1
  r2 = r2
SYMMETRY Symmetry
INVARIANTS ClaimsAreSettled
