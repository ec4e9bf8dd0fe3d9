SPECIFICATION Spec
CONSTANTS
    MaxProgram = 3
    INSTR_TRACE_SIZE = 3
    Programs <- ControlPrograms
    Regs <- TwoRegs
    INSTR_QUEUE_SIZE = 2
    RESERV_INT_SIZE = 2
    RESERV_FP_SIZE = 1
    FU_INT_SIZE = 1
    FU_FP_SIZE = 1
    FU_INT_LATENCY = 2
    MaxCycle = 50
    FU_FP_LATENCY = 3
INVARIANT
    FetchWithinTrace
