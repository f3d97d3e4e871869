CONSTANTS
    shared = shared
    cloned = cloned
    changing = changing
    Names = {shared, cloned, changing}
    Flags <- MCFlags
    Fixed = {changing}
    Origin = origin
    Peer = peer
    Operations = {"warmup", "promote", "rollback", "commit", "destroy", "cleanup"}
    MaxLosses = 1
SPECIFICATION FairSpec
INVARIANTS
    TypeOK
    CandidateSeesTopics
    WarmupClones
    SettledRowsHaveTopics
PROPERTIES
    ActiveKeepsTopics
    WarmupDone
