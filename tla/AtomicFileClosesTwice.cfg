SPECIFICATION Spec
CONSTANTS
    Names = {a, b}
    Temps = {t, u, v}
    Lines = 3
    BufferLines = 2
    Absent = Absent
    Faults = {"rename"}
    MaxEdits = 1
    MaxKills = 0
INVARIANT ClosedOnce
CHECK_DEADLOCK FALSE
