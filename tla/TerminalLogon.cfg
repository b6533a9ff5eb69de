SPECIFICATION FairSpec
CONSTANTS
  Modulus = 3
  Volumes = {1}
  MaxLives = 2
  MaxTalLives = 2
  MaxAir = 2
  MaxRequests = 1
  MaxShared = 1
INVARIANTS
  TypeOK
  RunningIsKnown
PROPERTIES
  
  NoFalseAlarm
  LogsOnAgain
