CONSTANTS
    r1 = r1
    r2 = r2
    r3 = r3
    r4 = r4
    old = old
    OldIds = {old}
    Legacy <- MCLegacy
    c1 = c1
    c2 = c2
    k1 = k1
    k2 = k2
    k3 = k3
    i1 = i1
    i2 = i2
    NoCall = NoCall
    NoRow = NoRow
    Absent = Absent
    Foreign = Foreign
    Requests = {r1, r2, r3, r4}
    Classifiers = {c1, c2}
    Keys = {k1, k2}
    SiblingOf <- MCSiblingOf
    InstanceOf <- MCInstanceOf
    Calls <- RaceCalls
    ProdModes = {FALSE}
SPECIFICATION Spec
INVARIANTS
    OneTopicPerClassifier
CHECK_DEADLOCK FALSE
