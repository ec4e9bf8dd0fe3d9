SPECIFICATION BothSpec
CONSTANTS
    Regs <- TwoRegs
    Instructions <- Sample
    MaxInsn = 7
INVARIANTS
    TypeOK
    ClassesAddUp
PROPERTIES
    NoHazardMissed
    LoadUseStalls
CHECK_DEADLOCK FALSE
