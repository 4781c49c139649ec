SPECIFICATION Spec
CONSTANTS
    Views = {v1, v2}
    Chars = {a, b}
    Nul = Nul
    MaxLength = 3
    Width = 4
    CStrings = {c1, c2}
    NoCString = NoCString
SYMMETRY MCSymmetry
INVARIANTS
    CStringsAccountedFor
PROPERTIES
    InsideUnlessShortened
    WritesThrough
    UndefinedOnlyOutside
CHECK_DEADLOCK FALSE
