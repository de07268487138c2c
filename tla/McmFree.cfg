SPECIFICATION Spec
CONSTANTS
  s1 = s1
  s2 = s2
  d1 = d1
  Statics <- MCStatics
  Dynamics <- MCDynamics
  StaticSize = 1
  Sizes = {1, 2}
  Chunk = 3
  MaxChunks = 1
  Split = 1
  SwapSize = 6
  NumEntries = 7
  MaxLocks = 1
  FreeAbsent = TRUE
INVARIANTS FreeBlocksUnused
