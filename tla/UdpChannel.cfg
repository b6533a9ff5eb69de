SPECIFICATION Spec
CONSTANTS
  Sources = {s1}
  Modulus = 12
  MaxStack = 2
  MaxSent = 15
  Overtakes = 2
  Window = 4
  Losses = 2
  Duplicates = 1
  FirstMayLag = FALSE
  NoSource = NoSource
INVARIANTS
  TypeOK
  CounterIsStackSize
  StackStaysBounded
  NothingForgotten
PROPERTIES
  DeliveredInOrder
CHECK_DEADLOCK FALSE
