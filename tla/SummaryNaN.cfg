SPECIFICATION Spec
CONSTANTS
    NaN = NaN
    IDs <- MCIDs
    MaxID = 2
    Unset <- MCUnset
    Content <- MCContent
    SortBys <- MCSortBys
    Order <- MCOrder
    Item <- MCItem
    Cmp <- CmpRecord
INVARIANT AssertsHold
CHECK_DEADLOCK FALSE
