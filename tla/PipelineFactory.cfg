CONSTANTS
  N = 4
  End <- Shapes
  Ranges = {2, 3, 4}
  Shaders = {2, 4}
  Sets = 2
SPECIFICATION FairSpec
INVARIANTS NobodyBusyWhenMerged UpdatedBeforeUse
PROPERTIES ImplementsSequence AllPipelinesCreated
CHECK_DEADLOCK FALSE
