SPECIFICATION ClientSpec
CONSTANTS
    a = a
    b = b
    f1 = f1
    f2 = f2
    x = x
    y = y
    z = z
    small = small
    large = large
    huge = huge
    NoPage = NoPage
    NoEntry = NoEntry
    NoAnswer = NoAnswer
    Pages <- MCPages
    Fetches <- MCFetches
    Kinds = {"visit", "asset", "prefetch", "head", "post"}
    Size <- MCSize
    Capacity = 2
    Ttl = 1
    OwnValidators = TRUE
    HistoryLen = 2
    MaxVersion = 2
    MaxRequests = 2
    MaxPushes = 1
    MaxTime = 2
    CachePages <- MCCachePages
    CacheSize <- MCCacheSize
    CacheCapacity = 3
    CacheTtl = 1
    CacheMaxTime = 2
    CacheMaxOps = 4
SYMMETRY Symmetry
INVARIANTS
    ReadableOffline
    HistoryInOrder
    OwnRevalidation
    Consistent
    WasteBounded
PROPERTIES
    ServedInTime
    OwnPagesStay
CHECK_DEADLOCK FALSE
