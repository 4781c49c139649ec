SPECIFICATION Spec
CONSTANTS
    k1 = k1
    k2 = k2
    k3 = k3
    k4 = k4
    v1 = v1
    v2 = v2
    Keys <- MCKeys
    Values <- MCValues
    Default = v1
    Nothing = Nothing
    MaxEntries = 4
SYMMETRY Symmetric
INVARIANT HalvesAgree
PROPERTIES
    EraseIfMisfiles
    ImplementsOrderedMap
CHECK_DEADLOCK FALSE
