SPECIFICATION SystemSpec
CONSTANTS
  FifoSize = 2
  Options <- OptionsUsed
  MaxOut = 2
  MaxCts = 1
  MaxCalls = 3
  PlbUnits = 2
  PciBoards <- BoardsUsed
  Followed = {"PR6120"}
INVARIANTS WorkIsPending NoOverrun ChannelsFound
PROPERTIES Drained InputRead
CHECK_DEADLOCK FALSE
