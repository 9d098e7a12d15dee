SPECIFICATION Spec
CONSTANTS
  DescCnt = 3
  MaxRx = 1
  Hardware <- ChipsUsed
  MaxFrames = 4
  MaxStarts = 2
  MaxFlaps = 1
  MaxMishaps = 1
INVARIANTS AllAgree NoFault BuffersAccounted DeliveredInOrder
CHECK_DEADLOCK FALSE
