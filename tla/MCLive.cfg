SPECIFICATION FairSpec
CONSTANTS
  Unused = Unused
  la = la
  lb = lb
PROPERTIES SessionsEnd RequestsAreAnswered TransitionsEnd
CHECK_DEADLOCK FALSE
