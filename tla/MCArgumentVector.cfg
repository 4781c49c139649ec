SPECIFICATION ArgSpec
CONSTANTS
    a1 = a1
    a2 = a2
    t1 = t1
    t2 = t2
    Objects <- MCObjects
    Texts <- MCTexts
    NoObject = NoObject
    Dangling = Dangling
    Nothing = Nothing
    Gone = Gone
    MaxArguments = 3
SYMMETRY Symmetric
INVARIANT ArgvIsCurrent
PROPERTY HeldArgvIsFreedByItsOwner
CHECK_DEADLOCK FALSE
