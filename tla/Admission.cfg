CONSTANTS
    c1 = c1
    c2 = c2
    Clients = {c1, c2}
    NoValue = NoValue
    Unset = Unset
    FirstRevision = 10
    Policies <- SomePolicies
    MaxEdits = 1
    MaxEvents = 1
    RetryCounter = 2
    Earlier = 2
    MaxDeletions = 1
SPECIFICATION FairSpec
CHECK_DEADLOCK FALSE
INVARIANTS
    TypeOK
    LoggedOnce
    NothingOverwritten
    SummaryMatchesResults
    DenialIsLogged
    EntryTellsAnswer
    AcceptedRulesDoNotRepeat
PROPERTY RequestEnds
