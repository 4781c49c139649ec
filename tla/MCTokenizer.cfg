SPECIFICATION Spec
CONSTANTS
    x = x
    sep = sep
    i1 = i1
    i2 = i2
    Chars <- MCChars
    Delims <- MCDelims
    Iterators <- MCIterators
    MaxLength = 4
    NoToken = NoToken
INVARIANT TokensAccountedFor
PROPERTIES
    LoopsEnd
    ImplementsStream
CHECK_DEADLOCK FALSE
