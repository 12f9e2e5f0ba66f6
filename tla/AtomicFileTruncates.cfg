SPECIFICATION Spec
CONSTANTS
    Names = {a, b}
    Temps = {t, u, v}
    Lines = 3
    BufferLines = 2
    Absent = Absent
    Faults = {"flush"}
    MaxEdits = 1
    MaxKills = 0
INVARIANT SavedMeansSaved
CHECK_DEADLOCK FALSE
