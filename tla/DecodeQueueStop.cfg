SPECIFICATION FairSpec
CONSTANTS
  Fps = 30
  Hardware = FALSE
  StartupLimit = 1
  StallLimit = 2
  PoolLimit = 8
  MaxUnits = 2
PROPERTY
  StopTerminates
