CONSTANTS
    Windows = {w1, w2}
    Lists <- SomeLists

SPECIFICATION Spec

INVARIANTS
    FindsItsShader

CHECK_DEADLOCK FALSE
