SPECIFICATION FairSpec
CONSTANTS
  MaxLaunches = 2
  MaxMessages = 3
INVARIANTS
  OneConfirmation
  ViewsAlive
PROPERTIES
  OneStream
  RelaunchStarts
  EveryWaitEnds
