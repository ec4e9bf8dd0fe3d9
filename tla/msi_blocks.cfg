SPECIFICATION BlocksSpec
CONSTANTS
    a1 = a1
    a2 = a2
    a3 = a3
    d1 = d1
    d2 = d2
    Caches = {c1, c2, c3, c4}
    Dirs = {d1}
    Addrs = {a1, a2, a3}
    Versions = 1
    Ways = 2
    NoNode = NoNode
    map_Address_to_Directory <- OneHome
SYMMETRY CacheSymmetry
CHECK_DEADLOCK FALSE
INVARIANT
    NeverWedged
