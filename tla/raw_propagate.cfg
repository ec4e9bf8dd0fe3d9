SPECIFICATION BothSpec
CONSTANTS
    Regs <- TwoRegs
    Instructions <- Sample
    MaxInsn = 4
PROPERTY
    StallsPropagate
CHECK_DEADLOCK FALSE
