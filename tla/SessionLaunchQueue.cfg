SPECIFICATION FairSpec
CONSTANTS
  MaxLaunches = 1
  MaxMessages = 1
PROPERTIES
  QueuedWaitEnds
