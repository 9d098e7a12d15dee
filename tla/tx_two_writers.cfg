CONSTANTS
  w1 = w1
  w2 = w2
  NoMsg = NoMsg
  Writers <- TwoWriters
  MaxWrites = 2
  RingCap = 2
  Disturbances <- AbortOnly
  IllegalLen <- NoIllegal
  PromptIrq = FALSE
SPECIFICATION FairSpec
INVARIANT TypeOK
INVARIANT NoStrandedMessage
PROPERTY Delivered
PROPERTY SelectReturns
CHECK_DEADLOCK FALSE
