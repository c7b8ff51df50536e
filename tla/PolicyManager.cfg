CONSTANTS
    p1 = p1
    p2 = p2
    k1 = k1
    k2 = k2
    Policies = {p1, p2}
    Kinds = {k1, k2}
    None = None
    MaxControllers = 2
    MaxVersion = 2
    MaxInformers = 2
    Rescheduling = {p1}
    ReadByScripts = {k1}
SPECIFICATION FairSpec
CONSTRAINT Bounded
CHECK_DEADLOCK FALSE
INVARIANTS
    TypeOK
    HandlersFollowPolicies
    NoChangeMissed
PROPERTIES
    EveryChangeProcessed
    EveryUpdateReturns
