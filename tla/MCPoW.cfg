CONSTANTS
  Unused = Unused
  sa = sa
  sb = sb
  pa = pa
  pb = pb
  y1 = y1
  y2 = y2
  y3 = y3
  y4 = y4
SPECIFICATION Spec
SYMMETRY Symmetry
INVARIANTS ValidatorIsFair MinerIsExact
PROPERTIES SharesAreJudged SessionsArePlaced ConnectionKeepsOrder
CHECK_DEADLOCK FALSE
