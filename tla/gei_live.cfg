SPECIFICATION FairSpec
CONSTANTS
  DescCnt = 3
  MaxRx = 1
  Hardware <- ChipsUsed
  MaxFrames = 3
  MaxStarts = 1
  MaxFlaps = 1
  MaxMishaps = 1
PROPERTY RingAndLinkServed
CHECK_DEADLOCK FALSE
