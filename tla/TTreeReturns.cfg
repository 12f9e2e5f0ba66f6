SPECIFICATION FairSpec
CONSTANTS
    ID <- MCID
    Record <- MCRecord
    Inserts <- MCInserts
    Loads <- MCLoads
    Nodes = {n1,n2,n3,n4,n5}
    NIL = NIL
    None = None
    NodeSize = 3
    TraceLen = 39
    MaxID = 9
    Gets = {2}
    InsertIDs = {1, 3, 8, 9}
    Clashes = {}
    Removes = {1, 2, 3, 4}
    LoadLengths = {7}
    LoadStep = 1
    Walks = TRUE
PROPERTY CallsReturn
