SPECIFICATION Spec
CONSTANTS
    a = a
    b = b
    f1 = f1
    f2 = f2
    NoPage = NoPage
    NoEntry = NoEntry
    NoAnswer = NoAnswer
    Pages <- MCPages
    Fetches <- MCFetches
    Kinds = {"visit"}
    Size <- MCSize
    Capacity = 2
    Ttl = 1
    OwnValidators = TRUE
    HistoryLen = 2
    MaxVersion = 2
    MaxRequests = 3
    MaxPushes = 1
    MaxTime = 0
SYMMETRY Symmetry
INVARIANT RevalidatedIsConfirmed
CHECK_DEADLOCK FALSE
