SPECIFICATION Spec
CONSTANTS
    Names = {a, b}
    Temps = {t, u, v}
    Lines = 3
    BufferLines = 2
    Absent = Absent
    Faults = {"mkstemp", "fdopen", "write", "rename", "kill"}
    MaxEdits = 2
    MaxKills = 2
INVARIANTS FilesWhole SavedMeansSaved TempsRemoved
PROPERTY ImplementsAtomicSave
CHECK_DEADLOCK FALSE
