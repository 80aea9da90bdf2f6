SPECIFICATION Spec
CONSTANTS
  s1 = s1  s2 = s2  s3 = s3  s4 = s4  s5 = s5
  Surfaces <- MCSurfaces
  None = None
  RingSize = 2
  QueueLimit = 1
  Framebuffers = 3
  Retained = 3
  Slices = 3
  Slots = 3
  Target = 3
  HardLimit = 4
  SafeAge = 1
  MaxGeneration = 7
  MaxStreams = 2
SYMMETRY SurfaceSymmetry
INVARIANTS InFlightIntact ScreenShowsRendered
PROPERTY FallbackAfterCrash
CHECK_DEADLOCK FALSE
