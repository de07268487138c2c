SPECIFICATION Spec
CONSTANTS
  BufSize = 6
  short = short
  long = long
  fuse = fuse
  Objects = {o1, o2}
  Originals = {o1}
  Dynamic = {o2}
  Vals <- Values
  DataSize <- Lengths
  Fuses <- OneFuse
  People = {me}
  MaxTime = 1
  None = None
INVARIANTS TypeOK BufferTiled SavedStatesRecoverable
PROPERTIES OnlyAsNecessary UndoHistorySpec
