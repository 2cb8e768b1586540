SPECIFICATION Spec
CONSTANTS
    Id = {0, 1, 2, 3, 4, 5, 6, 7}
    Kind <- MCKind
    ShaderOf <- MCShaderOf
    BuffersOf <- MCBuffersOf
    FirstItems = 7
    FirstOrder <- MCFirstOrder
    MaxRevision = 10
    MaxOrder = 3
    Slot = {1, 2}
INVARIANTS ClientsAreHonest OrderIsCovered
CHECK_DEADLOCK FALSE
CONSTRAINT OneClient
