SPECIFICATION MCFairSpec
CONSTANTS
    Null = Null
    Failed = Failed
    Parts = {"list"}
    RowBound = 1
    DiscoveredBound = 3
    PageSize = 1
    MaxLimit = 2
PROPERTIES ListCatchesUp
CHECK_DEADLOCK FALSE
