SPECIFICATION Spec
CONSTANTS
    v1 = v1
    v2 = v2
    Values <- MCValues
    Raw = Raw
    MaxCapacity = 4
    MinGrowth = 1
SYMMETRY Symmetric
INVARIANTS
    TypeOK
    RingIndices
    SlotsAreExact
    RefusedOnlyWhenFullAndRotated
PROPERTIES
    LossOnlyWhenFull
    ImplementsDeque
CHECK_DEADLOCK FALSE
