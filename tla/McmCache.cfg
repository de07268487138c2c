SPECIFICATION Spec
CONSTANTS
  s1 = s1
  s2 = s2
  d1 = d1
  Statics <- MCStatics
  Dynamics <- MCDynamics
  StaticSize = 1
  Sizes = {3}
  Chunk = 3
  MaxChunks = 2
  Split = 1
  SwapSize = 4
  NumEntries = 5
  MaxLocks = 2
  FreeAbsent = FALSE
INVARIANTS TypeOK CacheStructure ContentsKept AllocComplete
PROPERTIES LockedStay
