SPECIFICATION FairSpec
CONSTANTS
    r1 = r1
    r2 = r2
    Requests = {r1, r2}
    MaxBreaks = 3
    MaxRaised = 1
INVARIANTS
    LostOnlyIfLate
PROPERTIES
    KeepsPromise
    RequestsEnd
    Recovers
CHECK_DEADLOCK FALSE
