SPECIFICATION Spec
CONSTANTS
  RingSize = 5
  MaxSavepts = 2
  o1 = o1
  o2 = o2
  o3 = o3
  p1 = p1
  p2 = p2
  v1 = v1
  v2 = v2
  ImageObjects = {o1}
  DynamicObjects = {}
  TransientObjects = {}
  Props = {p1, p2}
  Vals = {v1, v2}
  ImageProps <- OneImageProp
  ImageVal = v1
  Absent = Absent
  EmptyNew = EmptyNew
  EmptyMod = EmptyMod
  Int1 = Int1
  InvalidProp = InvalidProp
INVARIANTS TypeOK UndoStructure SavedStatesRecoverable UndoAssertions
PROPERTIES SavepointsKept UndoTerminates UndoHistorySpec
