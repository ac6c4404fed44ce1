\* A passport is uploaded while the scorer is being asked.
SPECIFICATION Spec
CONSTANTS
  Addr = {a}
  Lookup = {k, l}
  Trust = {t}
  Newest = {1, 2}
  CacheTime = 2
  DedupTime = 2
  AutoLimit = 1
  MaxTime = 1
  MaxLookups = 2
  MaxReloads = 0
  MaxFaults = 0
  HasFile = TRUE
  None = None
PROPERTY FileNeverOlder
CHECK_DEADLOCK FALSE
