CONSTANTS
    Instances = {i1, i2}
    Managers = {m1, m2}
    Replicas = {r1, r2}
    None = None
    Tenants = {t1, t2}
    Definitions = {d1}
    Unknown = Unknown
    Configs = {{s1}, {s2}, {s1, s2}}
    Requests = {q1, q2}
    Loads <- MCLoads
SPECIFICATION Spec
INVARIANTS EveryTenantHasItsTopics TemplateReachesTopics OneDefault MonitorKnowsInstances
SYMMETRY MCSymmetry
