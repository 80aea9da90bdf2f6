SPECIFICATION Spec
CONSTANTS
  Modulus = 8
  Start = 5
  MaxPackets = 3
  Prime = 2
  OutputLimit = 2
  MaxJump = 2
  MaxSent = 5
INVARIANTS
  BufferOrdered
  ClockExact
PROPERTIES
  LateIsPast
