SPECIFICATION StoreSpec
CONSTANTS
    a1 = a1
    a2 = a2
    a3 = a3
    d1 = d1
    d2 = d2
    Caches = {c1, c2, c3, c4}
    Dirs = {d1, d2}
    Addrs = {a1, a2}
    Versions = 1
    Ways = 2
    NoNode = NoNode
    map_Address_to_Directory <- TwoHomes
SYMMETRY CacheSymmetry
CHECK_DEADLOCK FALSE
INVARIANT
    NeverWedged
