SPECIFICATION Spec
CONSTANTS
  Programs <- MCPrograms
  RxIds <- MCIds
  RxMasks <- MCMasks
INVARIANTS FilterAsAsked CommandsRestore FrameAsAsked
PROPERTIES CommandsEnd
CHECK_DEADLOCK FALSE
