CONSTANTS
  p1 = p1
  p2 = p2
  csum = csum
  NoContext = NoContext
  Senders <- TwoSenders
  Quota <- Quotas
  DescCnt = 5
  MaxFrags = 2
  CleanThresh = 1
  MarkThresh = 2
  Contexts <- Offload
  DevTypes <- BothTypes
  MaxMishaps = 2
SPECIFICATION TxFairSpec
INVARIANT FreedAfterSent
INVARIANT SentAsAsked
INVARIANT RingInOrder
PROPERTY SendersRestarted
CHECK_DEADLOCK FALSE
