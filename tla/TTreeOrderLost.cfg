SPECIFICATION Spec
CONSTANTS
    ID <- MCID
    Record <- MCRecord
    Inserts <- MCInserts
    Loads <- MCLoads
    Nodes = {n1,n2,n3,n4,n5,n6,n7,n8,n9,n10,n11,n12}
    NIL = NIL
    None = None
    NodeSize = 3
    TraceLen = 39
    MaxID = 120
    Gets = {}
    InsertIDs = {5, 61, 62, 63, 65, 66, 67}
    Clashes = {}
    Removes = {5, 65, 66}
    LoadLengths = {12}
    LoadStep = 10
    Walks = FALSE
INVARIANTS SearchOrder
VIEW View
