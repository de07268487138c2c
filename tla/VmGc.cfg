SPECIFICATION Spec
CONSTANTS
  NumObjects = 3
  RootSet <- OneImageObject
  GameClasses <- WeakGame
  MaxNesting = 0
INVARIANTS TypeOK NoDangling OneQueue GcInitialConditions
PROPERTIES GarbageCollected FinalizeOnce FinalizersRun
