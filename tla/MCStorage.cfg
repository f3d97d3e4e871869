SPECIFICATION Spec
CONSTANTS
    t1 = t1
    t2 = t2
    m1 = m1
    w1 = w1
    w2 = w2
    r1 = r1
    Keys <- MCKeys
    TableOf <- MCTableOf
    Watches = {w1, w2}
    Requests = {r1}
    SyncCapacity = 1
    Loads <- MCLoads
SYMMETRY Symmetry
INVARIANTS
    CacheFollows
    WatchHasEvent
    RequestIsWhole
CHECK_DEADLOCK FALSE
