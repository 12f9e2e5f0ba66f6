SPECIFICATION Spec
CONSTANTS
    IDs = {1, 2}
    Values = {v, w}
    Wide = {w}
    Files = {a, b}
    Absent = Absent
    Bad = Bad
    Cells = {c, d}
    Free = Free
    Line = Line
    NULL = NULL
    LineSize = 5
    ConfirmSize = 3
    MaxLength = 6
    Nuls = {TRUE, FALSE}
INVARIANT WholeLines
CHECK_DEADLOCK FALSE
