CONSTANTS
  w1 = w1
  w2 = w2
  NoMsg = NoMsg
  Writers <- OneWriter
  MaxWrites = 4
  RingCap = 2
  Disturbances <- EveryDisturbance
  IllegalLen <- NoIllegal
  PromptIrq = TRUE
SPECIFICATION Spec
INVARIANT ExactlyOnce
INVARIANT WokenWriterHasSpace
PROPERTY ImplementsLossyFifo
CHECK_DEADLOCK FALSE
