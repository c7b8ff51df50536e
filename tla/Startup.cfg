CONSTANTS
    i1 = i1
    i2 = i2
    Instances = {i1, i2}
    NoInstance = NoInstance
    LeaseDuration = 4
    RenewDeadline = 1
    RetryPeriod = 1
    MaxFailures = 2
SPECIFICATION FairSpec
CHECK_DEADLOCK FALSE
INVARIANTS
    TypeOK
    TrustedInstances
    OneLeader
    LeaderConfigured
PROPERTY LeaderSettles
