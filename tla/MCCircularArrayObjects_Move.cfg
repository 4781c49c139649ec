SPECIFICATION Spec
CONSTANTS
    o1 = o1
    o2 = o2
    b1 = b1
    b2 = b2
    b3 = b3
    v1 = v1
    v2 = v2
    Objects <- MCObjects
    Buffers <- MCBuffers
    Values <- MCValues
    Null = Null
    NoObject = NoObject
    Freed = Freed
    MaxCapacity = 2
SYMMETRY Symmetric
PROPERTY MoveAssignReturns
CHECK_DEADLOCK FALSE
