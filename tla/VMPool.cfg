CONSTANTS
    r1 = r1
    r2 = r2
    r3 = r3
    v1 = v1
    v2 = v2
    Requests = {r1, r2, r3}
    VMs = {v1, v2}
    NoVM = NoVM
SPECIFICATION FairSpec
INVARIANTS
    TypeOK
    NeverPopsNil
    ExclusiveVM
    NoUnrunPolicyPasses
    NoIdlePermit
PROPERTIES
    ImplementsSandboxPool
    VMReturns
