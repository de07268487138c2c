SPECIFICATION Spec
CONSTANTS
  NumObjects = 3
  RootSet <- OneImageObject
  GameClasses <- FinalizerGame
  MaxNesting = 1
INVARIANTS OneQueue
