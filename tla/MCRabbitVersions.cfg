CONSTANTS
    Services <- MCServices
    Offers <- MCOffers
    MaxVersion = 2
    MaxFailures = 1
SPECIFICATION Spec
INVARIANTS
    TypeOK
    SwitchReachesActive
    AppliedVersionComplete
    NoOrphanExchange
PROPERTIES
    DroppedVersionKeepsQueues
    NeverUnrouted
CHECK_DEADLOCK TRUE
