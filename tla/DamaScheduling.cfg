SPECIFICATION Spec
CONSTANTS
  Terminals = {t1, t2}
  Capacity = 3
  PacketBits = 3000
  FrameDuration = 1000
  CodingNum = 1
  CodingDen = 2
  RbdcTimeout = 3
  PepTimeout = 4
  FcaKbps = 1
  RbdcRequests = {0, 3}
  VbdcRequests = {1}
  CreditScale = 840
  CreditCap = 4
  Contracts <- MCContracts
  PepCommands <- MCPepCommands
SYMMETRY Symmetry
INVARIANTS
  SlotsWithinCapacity
  RbdcWithinRequest
  EqualRequestsEqualShares
  LeftMeansServed
  AssignmentCoversSlots
CHECK_DEADLOCK FALSE
