\* Two sizes and one task: a resize, a map change and a task in every order.
SPECIFICATION FairSpec
CONSTANTS
  Extents = {1, 2}
  Tasks = {t1}
INVARIANTS MapChangeNotForgotten ResizeNotForgotten TaskNotForgotten RenderSafe TimerDiscipline LoopAssertions
PROPERTIES SwapchainCatchesUp
