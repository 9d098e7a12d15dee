SPECIFICATION Spec
CONSTANTS
  Configs <- MCConfigs
  MaxLinks = 2
  RingCap = 1
  Failures = {"open", "config", "thread", "read"}
INVARIANTS ChannelsHandled SoleWriterLosesNothing OneMessageAfterStop
PROPERTIES StopEnds
CHECK_DEADLOCK FALSE
