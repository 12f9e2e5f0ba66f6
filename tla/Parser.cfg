CONSTANTS
    NaN = NaN
    TokensLength = 3
    PiecesLength = 3
    AnyLength = 5
    FilterLength = 8
    NotLength = 10
    LongLength = 16
    PairsLength = 14
    Ints <- MCInts
    Floats <- MCFloats
    Strings <- MCStrings
    Value <- MCValue
    Within <- MCWithin
    Alphabets <- MCAlphabets
    Garbage = {"ATOM", "CONDITION"}
SPECIFICATION FairSpec
INVARIANTS LinesCutRight StreamsAsAssumed TakesCommands MeansItsText ConditionsOwned
PROPERTIES WildOnlyInGroups EveryLineEnds
CHECK_DEADLOCK FALSE
