SPECIFICATION Spec
CONSTANTS
    Clients = {reconciler, other}
    Reconcilers = {reconciler}
    FirstRevision = 9
    NoValue = NoValue
    Steps = 2
    MaxWrites = 4
    MaxSeconds = 2
INVARIANTS TypeOK PatchedAsAWhole ReadyIsWorst
PROPERTIES OthersKept NothingOverwritten TimeFollowsState
CHECK_DEADLOCK FALSE
