SPECIFICATION Spec
CONSTANTS
    Caches <- ThreeCaches
    Below <- TwoLevels
    Words = {16, 17, 18, 19}
    GHB_SIZE = 3
    RPT_SIZE = 2
    Options <- WalkDown
INVARIANT
    FastHitHasBlock
CHECK_DEADLOCK FALSE
