CONSTANTS
  r1 = r1
  r2 = r2
  NoFrame = NoFrame
  Readers <- OneReader
  MaxFrames = 3
  FifoCap = 2
  RingCap = 2
  Commands <- Undisturbing
SPECIFICATION FairSpec
PROPERTY FramesServed
CHECK_DEADLOCK FALSE
