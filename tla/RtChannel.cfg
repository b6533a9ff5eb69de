SPECIFICATION FairSpec
CONSTANTS
  MaxFd = 5
  MaxEvents = 4
  MaxOthers = 1
  CallsMayFail = TRUE
INVARIANTS
  TypeOK
  BatchEventsExist
  DescriptorsOwned
  WatchesItsEvents
PROPERTIES
  RaisedIsHandled
  StopEndsThread
CHECK_DEADLOCK FALSE
