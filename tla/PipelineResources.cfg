CONSTANTS
  Factories = {1, 2, 3}
  ShaderIndexes = {1, 2}
  m_added_shaders <- SomeShaders
  Resources = {1, 2, 3, 4}
  Sets <- Contended
  AlreadyCreated = {1, 3}
SPECIFICATION FairSpec
INVARIANTS ShadersCompiledOnce DescriptorSetsUnique NoHoldAndWait
PROPERTIES EveryFactoryContinues
CHECK_DEADLOCK FALSE
