SPECIFICATION Spec
CONSTANTS
    Caches <- ThreeCaches
    Below <- TwoLevels
    Words = {16, 17, 18, 19}
    GHB_SIZE = 3
    RPT_SIZE = 2
    Options <- AllOptions
INVARIANTS
    FastHitIsSearch
    NoStoreLost
    PrefetchesHelp
    GhbIsHistory
    SteadyAfterThree
PROPERTY
    StatisticsBalance
CHECK_DEADLOCK FALSE
