SPECIFICATION Spec
CONSTANTS
    Caches = {c1, c2, c3}
    Dirs = {d1}
    Addrs = {a1}
    Versions = 3
    Ways = 1
    NoNode = NoNode
    map_Address_to_Directory <- SingleHome
SYMMETRY CacheSymmetry
INVARIANTS
    TypeOK
    SingleWriter
    ReadersSeeLastWrite
    DirectoryAsserts
    AllocationMatchesState
    MemoryMatchesState
    AckBalance
    ReaderIsTracked
    NoUnexpectedEvent
    NeverWedged
PROPERTY
    ImplementsAtomicMemory
