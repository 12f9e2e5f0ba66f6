SPECIFICATION Spec
CONSTANTS
    ID <- MCID
    Record <- MCRecord
    Inserts <- MCInserts
    Loads <- MCLoads
    Nodes = {n1,n2,n3,n4,n5,n6,n7,n8}
    NIL = NIL
    None = None
    NodeSize = 3
    TraceLen = 39
    MaxID = 9
    Gets = {2, 5}
    InsertIDs = {1, 2, 3, 4, 5, 6, 7, 8, 9}
    Clashes = {5}
    Removes = {1, 2, 3, 4, 5, 6, 7, 8, 9}
    LoadLengths = {0, 5, 9}
    LoadStep = 1
    Walks = TRUE
INVARIANTS TypeOK NoAssertFails SearchOrder CopiesExact Balanced NoLeak InternalMinLen
PROPERTY ImplementsMap
VIEW View
