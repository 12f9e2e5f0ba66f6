SPECIFICATION Spec
CONSTANTS
    ID <- MCID
    Record <- MCRecord
    Inserts <- MCInserts
    Loads <- MCLoads
    Nodes = {n1,n2,n3,n4,n5,n6,n7,n8,n9,n10,n11,n12,n13,n14}
    NIL = NIL
    None = None
    NodeSize = 2
    TraceLen = 39
    MaxID = 190
    Gets = {}
    InsertIDs = {44, 105}
    Clashes = {}
    Removes = {130, 140}
    LoadLengths = {19}
    LoadStep = 10
    Walks = FALSE
INVARIANTS Balanced
VIEW View
