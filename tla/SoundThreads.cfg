SPECIFICATION Spec
CONSTANTS
  Sounds = {s1, s2}
  None = None
  Attributes <- Effects
  LoopsPerBuffer = 1
  Overlap = TRUE
INVARIANTS DoneOnce
