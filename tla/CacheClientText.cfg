CONSTANTS
    c1 = c1
    Clients = {c1}
    NoValue = NoValue
    FirstRevision = 8
    MaxWrites = 4
SPECIFICATION Spec
INVARIANT UpdateBlocksUntilCached
