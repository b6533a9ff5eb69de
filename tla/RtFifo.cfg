SPECIFICATION FairSpec
CONSTANTS
  Producers = {p1, p2}
  Messages = {m1, m2}
  MaxSize = 3
  CallsMayFail = TRUE
  NoMsg = NoMsg
  Free = Free
  Reader = Reader
INVARIANTS
  TypeOK
  Accounted
  WedgedOnlyByLostSignals
PROPERTIES
  PushReturns
  QueuedIsHandled
  ImplementsBoundedQueue
