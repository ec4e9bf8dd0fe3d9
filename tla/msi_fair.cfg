SPECIFICATION FairSpec
CONSTANTS
    Caches = {c1, c2, c3}
    Dirs = {d1}
    Addrs = {a1}
    Versions = 1
    Ways = 1
    NoNode = NoNode
    map_Address_to_Directory <- SingleHome
PROPERTIES
    MissesComplete
