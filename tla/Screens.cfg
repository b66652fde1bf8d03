SPECIFICATION MCFairSpec
CONSTANTS
    Null = Null
    Failed = Failed
    Parts = {"run", "toggle", "delete", "list"}
    RowBound = 1
    DiscoveredBound = 3
    PageSize = 1
    MaxLimit = 2
INVARIANTS SpinnersEnd EffectIsShown ListIsTrue
PROPERTIES NeverOlder ScreensCatchUp
CHECK_DEADLOCK FALSE
