CONSTANTS
    a = a
    b = b
    r1 = r1
    r2 = r2
    bad = bad
    n1 = n1
    n2 = n2
    n3 = n3
    Empty = Empty
    Sources = {Empty, a, b}
    Rules = {r1, r2, bad}
    Invalid = {bad}
    Names = {n1, n2, n3}
    Own = Own
    None = None
    Scenarios <- StaleScenario
SPECIFICATION Spec
CHECK_DEADLOCK FALSE
INVARIANT ReadyPolicyRuns
