CONSTANTS
    c1 = c1
    c2 = c2
    Clients = {c1, c2}
    NoValue = NoValue
    FirstRevision = 8
    MaxWrites = 5
SPECIFICATION Spec
CHECK_DEADLOCK FALSE
INVARIANTS
    WritesBlockUntilCached
PROPERTY NoLostUpdate
