CONSTANTS
    NaN = NaN
    IDs = {"7", "8"}
    Marks = {"1.5"}
    Texts = {"'a'", "'w'"}
    Others = {"h", "t", "junk"}
    Wide = {"'w'"}
    Number <- MCNumber
    ForeignLine <- MCForeignLine
    Stale <- MCStale
    MaxLines = 5
    MaxLost = 1
    MaxHeld = 0
    MaxString = 4
    MaxStream = 5
SPECIFICATION Spec
INVARIANT NeverCrashes
CHECK_DEADLOCK FALSE
