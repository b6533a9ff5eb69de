SPECIFICATION FairStackSpec
CONSTANTS
  NBlocks = 2
  FifoSize = 1
  MaxSends = 1
  Routes <- StackRoutes
  External <- NetworkEnd
  InitPushes <- LinkUp
  CriticalErrors = TRUE
  SharesUp = {}
INVARIANTS
  StackTypeOK
  WaitCycleNeedsUpShare
PROPERTIES
  StopEndsOrOrphans
  PushCompletes
  CriticalErrorStops
CHECK_DEADLOCK FALSE
