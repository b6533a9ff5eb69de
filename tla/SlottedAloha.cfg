SPECIFICATION FairSpec
CONSTANTS
  Terminals = {t1}
  Simulated = {x1}
  Slots = 2
  NbReplicas = 1
  NbMaxPackets = 2
  MaxRetransmissions = 1
  TimeoutSaf = 1
  FifoSize = 2
  CwMax = 2
  Multiple = 2
  BurstSizes = {1, 2}
  MaxBursts = 2
  MaxRestarts = 1
  MayLose = TRUE
INVARIANTS
  PacketInOnePlace
  AckedWasTaken
  HandedUpWhole
  CrdsaIsComplete
PROPERTIES
  Settles
CHECK_DEADLOCK FALSE
