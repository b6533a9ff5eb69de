SPECIFICATION FairStackSpec
CONSTANTS
  NBlocks = 2
  FifoSize = 1
  MaxSends = 1
  Routes <- StackRoutes
  External <- StackEnds
  InitPushes <- LinkUp
  CriticalErrors = FALSE
  SharesUp = {}
PROPERTIES
  StopTerminates
CHECK_DEADLOCK FALSE
