SPECIFICATION Spec
CONSTANTS
  MaxBanners = 1
  Impatient = TRUE
INVARIANTS OneGame
