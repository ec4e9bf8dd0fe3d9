SPECIFICATION FairSpec
CONSTANTS
    MaxProgram = 5
    INSTR_TRACE_SIZE = 3
    Programs <- AllPrograms
    Regs <- TwoRegs
    INSTR_QUEUE_SIZE = 2
    RESERV_INT_SIZE = 3
    RESERV_FP_SIZE = 2
    FU_INT_SIZE = 2
    FU_FP_SIZE = 1
    FU_INT_LATENCY = 2
    MaxCycle = 50
    FU_FP_LATENCY = 3
INVARIANTS
    TypeOK
    StationsMatchUnits
    MapTableNamesLastWriter
    QNamesLastWriter
    RAWRespected
    OneResultPerCycle
    OlderExecutesFirst
    DoneMeansFinished
    TraceIsTables
PROPERTY
    Terminates
