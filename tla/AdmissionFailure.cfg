CONSTANTS
    c1 = c1
    Clients = {c1}
    NoValue = NoValue
    Unset = Unset
    FirstRevision = 10
    Policies <- SomePolicies
    MaxEdits = 0
    MaxEvents = 2
    RetryCounter = 2
    Earlier = 0
    MaxDeletions = 0
SPECIFICATION Spec
CHECK_DEADLOCK FALSE
INVARIANT FailurePolicyDecides
