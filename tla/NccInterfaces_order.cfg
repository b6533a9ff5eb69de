SPECIFICATION Spec
CONSTANTS
  Conns = {c1, c2}
  Interfaces = {"pep", "svno", "conf"}
  Spots = {1, 2}
  RequestSpots = {1, 3}
  MaxCommands = 2
  Regenerative = FALSE
  MayFail = TRUE
  OneAtATime = FALSE
  None = None
SYMMETRY Symmetry
INVARIANTS
  AppliedInOrder
  ClosedWasRead
CHECK_DEADLOCK FALSE
