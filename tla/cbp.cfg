SPECIFICATION Spec
CONSTANTS
    PCs = {1, 2, 4}
    TABLE_SIZE = 2
    PHT_TABLES = 2
    BHT_ENTRIES = 2
    HIST_BITS = 3
    INDEX_BITS = 1
    BASE_BITS = 1
    TAG_BITS = 1
    LAST = 2
    HISTORY_BITS = 4
    MaxBranches = 3
    MaxMispred = 20
    Loops <- AllLoops
INVARIANTS
    LoopsAreLearned
    OneWayIsLearned
    LongestMatch
PROPERTIES
    AreCounterTables
    MispredictionEntered
