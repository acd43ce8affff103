CONSTANTS
  None = None
  Tasks = {t1, t2, t3}
  CommandBuffers = {c1, c2}
  Reserve = 2
  NodeSize = 7
SPECIFICATION FairSpec
INVARIANTS ExecutedInOrder CommandBuffersExclusive WindowOutlivesCopies
PROPERTIES EveryRequestFinishes
