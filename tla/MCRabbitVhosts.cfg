CONSTANTS
    i1 = i1
    i2 = i2
    r1 = r1
    r2 = r2
    r3 = r3
    Requests <- MCRequests
    Instances <- MCInstances
    Default = i1
    MaxUsers = 3
    Loads <- MCLoads
SPECIFICATION Spec
SYMMETRY Symmetry
CHECK_DEADLOCK FALSE
INVARIANTS
    ProdRegistrationOpens
    ExportsComplete
    DefaultRoute
PROPERTIES
    ServedVhostComplete
