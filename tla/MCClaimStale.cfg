SPECIFICATION FairSpec
CONSTANTS
  s1 = s1
  r1 = r1
  NoSession = NoSession
  Sessions = {s1}
  Legacy = {}
  Requests = {r1}
  EthMaxPending = 1
  EthQueueNoFunds = FALSE
  OrderedReplies = FALSE
  RpcLag = 0
  MaxIdx = 2
  MaxSigned = 2
  MaxRestarts = 0
  MaxDbErrors = 0
PROPERTY ConfirmedIsPublished
