SPECIFICATION Spec
CONSTANTS
    Chunks = {16, 32, 64}
    ChunkSize = 16
    ItemSize = 5
    NULL = NULL
    Garbage = Garbage
INVARIANTS AllListsSound NothingKept
PROPERTY ImplementsPool
