SPECIFICATION FairSpec
CONSTANTS
    NaN = NaN
    IDs <- MCIDs
    MaxID = 4
    Unset <- MCUnset
    Content <- MCContent
    SortBys <- MCSortBys
    Order <- MCOrder
    Item <- MCItem
    Cmp <- CmpRecord
INVARIANTS ListingExact PrintsOwnID SummaryRight AbortsOnNaNOnly ArraysFreed InBounds Sorts DepthBelowLength
PROPERTY CommandsEnd
CHECK_DEADLOCK FALSE
