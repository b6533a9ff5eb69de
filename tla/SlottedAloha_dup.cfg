SPECIFICATION Spec
CONSTANTS
  Terminals = {t1}
  Simulated = {x1}
  Slots = 3
  NbReplicas = 2
  NbMaxPackets = 1
  MaxRetransmissions = 1
  TimeoutSaf = 1
  FifoSize = 2
  CwMax = 2
  Multiple = 2
  BurstSizes = {2}
  MaxBursts = 1
  MaxRestarts = 1
  MayLose = TRUE
INVARIANTS
  PropagatedOnceComplete
CHECK_DEADLOCK FALSE
