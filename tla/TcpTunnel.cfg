SPECIFICATION FairSpec
CONSTANTS
    r1 = r1
    r2 = r2
    n1 = n1
    Requests = {r1, r2}
    Notices = {n1}
    MaxConns = 3
    MaxCalls = 2
    MaxEvents = 2
INVARIANTS
    NobodyForgotten
PROPERTIES
    KeepsPromise
    RequestsEnd
CHECK_DEADLOCK FALSE
