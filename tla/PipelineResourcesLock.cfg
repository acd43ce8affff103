CONSTANTS
  Factories = {1, 2, 3}
  ShaderIndexes = {1}
  m_added_shaders <- OneShader
  Resources = {1}
  Sets <- OneResource
  AlreadyCreated = {}
SPECIFICATION FairSpec
PROPERTIES EveryFactoryContinues
CHECK_DEADLOCK FALSE
