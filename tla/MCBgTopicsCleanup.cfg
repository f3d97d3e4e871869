CONSTANTS
    shared = shared
    cloned = cloned
    changing = changing
    Names = {shared, cloned, changing}
    Flags <- MCFlags
    Fixed = {}
    Origin = origin
    Peer = peer
    Operations = {"warmup", "promote", "rollback", "commit", "destroy", "cleanup"}
    MaxLosses = 0
SPECIFICATION Spec
PROPERTIES
    CleanupKeepsOthersTopics
