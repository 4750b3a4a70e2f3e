SPECIFICATION Spec
CONSTANTS
    Words <- MCWords
    Numerals = {"0", "1", "3", "255", "256"}
    Illegal = {"?"}
    Upper <- MCUpper
    IntOf <- MCIntOf
    MAX_PARENTHESIS_DEPTH = 2
    MaxLevels = 4
    MaxDepth = 12
    Fragments = 3
    ShortText = 5
    Inputs <- MCInputs
    Joined <- Join
    Blank <- IsBlank
    Complete <- IsComplete
    Exit <- IsExit
    Compiled <- Compile
    Depth <- Height
INVARIANTS
    LexerAgrees
    PositionsAreTrue
    LinesDoNotMatter
    ReadsWhatIsMeant
    RunsOneByOne
    EffectsAreShown
CHECK_DEADLOCK FALSE
