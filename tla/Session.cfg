SPECIFICATION Spec
CONSTANTS
  MaxBanners = 2
  Impatient = FALSE
INVARIANTS TypeOK EditedLineHasTag
PROPERTIES NoStaleCommand InputArrives GameEnds NextGameRuns
