SPECIFICATION FairSpec
CONSTANTS
  Modulus = 20
  MaxEarly = 1
  Limits = {2, 3}
  MaxLead = 4
  FrameTime = 2
  Start = 17
  MaxTime = 22
  MaxPictures = 4
  MaxStreams = 2
INVARIANTS
  TypeOK
  GenerationsMatch
  PicturesInOrder
  PicturesAccounted
PROPERTIES
  DropsForANewer
  WrapNeverMisleads
  QueueDrains
