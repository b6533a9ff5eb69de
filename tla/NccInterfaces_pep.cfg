SPECIFICATION FairSpec
CONSTANTS
  Conns = {c1, c2}
  Interfaces = {"pep"}
  Spots = {1, 2}
  RequestSpots = {1, 2}
  MaxCommands = 2
  Regenerative = FALSE
  MayFail = FALSE
  OneAtATime = TRUE
  None = None
PROPERTIES
  SentIsServed
CHECK_DEADLOCK FALSE
