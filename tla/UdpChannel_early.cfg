SPECIFICATION Spec
CONSTANTS
  Sources = {s1}
  Modulus = 8
  MaxStack = 3
  MaxSent = 4
  Overtakes = 1
  Window = 4
  Losses = 0
  Duplicates = 0
  FirstMayLag = FALSE
  NoSource = NoSource
INVARIANTS
  NothingEarlyStaysStacked
CHECK_DEADLOCK FALSE
