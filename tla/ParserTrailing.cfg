CONSTANTS
    NaN = NaN
    TokensLength = 0
    PiecesLength = 0
    AnyLength = 3
    FilterLength = 3
    NotLength = 3
    LongLength = 3
    PairsLength = 8
    Ints <- MCInts
    Floats <- MCFloats
    Strings <- MCStrings
    Value <- MCValue
    Within <- MCWithin
    Alphabets <- MCAlphabets
    Garbage = {"ATOM", "CONDITION"}
SPECIFICATION Spec
INVARIANT ConsumesAllTokens
CHECK_DEADLOCK FALSE
