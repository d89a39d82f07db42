SPECIFICATION Spec
CONSTANTS
    a = a
    b = b
    c = c
    d = d
    NoPage = NoPage
    Pages <- MCPages
    Answers <- MCAnswers
    FrameSizes <- MCFrameSizes
    ReplySizes <- MCReplySizes
    Hints <- MCHints
    BacklogLimit = 2
    Margin = 1
    MaxTime = 0
    MaxEvents = 4
    MaxOther = 1
    Adaptive = TRUE
    Threshold = 25
    Budget = 3
    HandoverThreshold = 3
    HandoverBudget = 4
    HandoverBudgetPerOutage = 1
    MaxBudget = 5
    MeteredPercent = 25
    DefaultSize = 2
    TopK = 1
    MinOutage = 20
PROPERTY
    NoStalePush
CHECK_DEADLOCK FALSE
