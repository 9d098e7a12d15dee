CONSTANTS
  r1 = r1
  r2 = r2
  NoFrame = NoFrame
  Readers <- TwoReaders
  MaxFrames = 5
  FifoCap = 2
  RingCap = 2
  Commands <- AllButGetAndBusOff
SPECIFICATION Spec
INVARIANT TypeOK
INVARIANT SleepsOnEmptyRing
INVARIANT NoFrameUnseen
PROPERTY ImplementsLossyFifo
CHECK_DEADLOCK FALSE
