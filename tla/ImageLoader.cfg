SPECIFICATION FairSpec
CONSTANTS
  small = small
  medium = medium
  big = big
  w1 = w1
  w2 = w2
  Urls = {small, medium, big}
  Workers = {w1, w2}
  Size <- MCSize
  CacheLimit = 3
  MaxRequests = 3
INVARIANTS
  NoLostRequest
  CompletionsOnce
  CacheBounded
PROPERTIES
  UrgentFirst
  EveryCompletionCalled
  StopEnds
