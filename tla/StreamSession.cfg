SPECIFICATION FairSpec
CONSTANTS
  r1 = r1
  Remote = {r1}
  TableSize = 1
  MaxLocal = 2
  MaxFrames = 2
INVARIANTS
  LocalCandidatesDelivered
  OneNegotiation
  TeardownAfterJoin
PROPERTIES
  FallbackStarts
  StopEnds
