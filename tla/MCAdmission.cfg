\* Three sessions on two IPs and two addresses: two at a time may use an IP or an address, and two per
\* address and period.
SPECIFICATION Spec
CONSTANTS
  s1 = s1
  s2 = s2
  s3 = s3
  i1 = i1
  i2 = i2
  a1 = a1
  a2 = a2
  None = None
  Sessions = {s1, s2, s3}
  Ips = {i1, i2}
  Addrs = {a1, a2}
  Subjects = {i1, i2, a1, a2}
  ConcurrencyLimit = 2
  LimitCount = 2
  MaxBindings = 6
SYMMETRY Symmetry
INVARIANTS
  IndexMatchesBindings
  ConcurrencyBound
  RecurringBound
CHECK_DEADLOCK FALSE
