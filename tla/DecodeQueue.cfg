SPECIFICATION FairSpec
CONSTANTS
  Fps = 30
  Hardware = TRUE
  StartupLimit = 2
  StallLimit = 3
  PoolLimit = 8
  MaxUnits = 3
INVARIANTS
  TypeOK
  ArrivalOrder
  DropsAccounted
  GapGuarded
PROPERTIES
  QueueDrains
  RecoveryRequested
