CONSTANTS
  MaxShares = 2
  MaxVerify = 0
  MaxDrops = 1
  DropsInFlight = TRUE
SPECIFICATION FairSpec
PROPERTY SharesResume
CHECK_DEADLOCK FALSE
