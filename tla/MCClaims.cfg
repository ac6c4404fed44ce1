\* One SQLite worker: replies in order.  Two payouts in flight, one crash or
\* shutdown, one database error.
SPECIFICATION Spec
CONSTANTS
  s1 = s1
  s2 = s2
  s3 = s3
  r1 = r1
  NoSession = NoSession
  Sessions = {s1, s2, s3}
  Legacy = {s3}
  Requests = {r1}
  EthMaxPending = 2
  EthQueueNoFunds = FALSE
  OrderedReplies = TRUE
  RpcLag = 0
  MaxIdx = 3
  MaxSigned = 2
  MaxRestarts = 1
  MaxDbErrors = 1
SYMMETRY Symmetry
INVARIANTS DurableBeforeBroadcast AtMostOnePayout NoncesAreExclusive
PROPERTIES LedgerSpec
