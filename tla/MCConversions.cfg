SPECIFICATION ConvSpec
CONSTANTS
    Thousand = 3
    Sixty = 2
    Bits = 7
    Mantissa = 7
    Exponents = 13
    MaxHourOffset = 2
    LastClock = 40
    IntBits = 4
    NoFraction = NoFraction
    NoZone = NoZone
    Zulu = Zulu
    Unreadable = Unreadable
    EmptyText = EmptyText
    NoNumber = NoNumber
    Ready = Ready
    Texts <- MCTexts
    NumberTexts <- MCNumberTexts
INVARIANTS
    CastIsExact
    WrittenIsRead
    OffsetIsSubtracted
    InstantIsRead
    ConvertedAsWritten
