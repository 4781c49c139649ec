SPECIFICATION Spec
CONSTANTS
    help = help
    host = host
    count = count
    letterH = letterH
    letterC = letterC
    letterU = letterU
    Names <- MCNames
    Letters <- MCLetters
    FirstLetter <- MCFirstLetter
    Offered <- MCOffered
    Words <- MCWords
    MaxWords = 3
    BadName = BadName
    NoShort = NoShort
    AutoShort = AutoShort
    NoArg = NoArg
    Default = Default
    Empty = Empty
    OldText = OldText
    HasOptreset = FALSE
INVARIANTS
    OptionsAreDistinct
    ResultsFollowUnlessResumed
    NoArgumentFromNowhere
PROPERTIES
    IgnoringThrowsOnlyForEmpty
    ThrowKeepsWhatWasRead
CHECK_DEADLOCK FALSE
