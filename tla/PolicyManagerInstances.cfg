CONSTANTS
    p1 = p1
    k1 = k1
    Policies = {p1}
    Kinds = {k1}
    None = None
    MaxControllers = 2
    MaxVersion = 1
    MaxInformers = 1
    Rescheduling = {p1}
    ReadByScripts = {}
SPECIFICATION Spec
CHECK_DEADLOCK FALSE
INVARIANTS
    OneInstancePerPolicy
