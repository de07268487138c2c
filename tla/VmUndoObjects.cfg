SPECIFICATION Spec
CONSTANTS
  RingSize = 6
  MaxSavepts = 2
  o1 = o1
  o2 = o2
  o3 = o3
  p1 = p1
  p2 = p2
  v1 = v1
  v2 = v2
  ImageObjects = {o1}
  DynamicObjects = {o2, o3}
  TransientObjects = {o3}
  Props = {p1}
  Vals = {v1}
  ImageProps <- OneImageProp
  ImageVal = v1
  Absent = Absent
  EmptyNew = EmptyNew
  EmptyMod = EmptyMod
  Int1 = Int1
  InvalidProp = InvalidProp
INVARIANTS UndoFlagBacked SavedStatesRecoverable
