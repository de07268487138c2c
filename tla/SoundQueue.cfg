SPECIFICATION Spec
CONSTANTS
  Sounds = {s1, s2}
  None = None
  Attributes <- Medley
  LoopsPerBuffer = 1
  Overlap = FALSE
INVARIANTS TypeOK QueueBacked ListExact AliveWhenUsed StopStartsNothing DoneOnce
PROPERTIES QueueMoves DeadSoundsStop
