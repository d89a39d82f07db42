SPECIFICATION ProgramsSpec
CONSTANTS
    Urls <- MCUrls
    Probabilities <- MCProbabilities
    KnownSizes <- MCKnownSizes
    LinkOutlooks <- MCOutlooks
    Adaptive = TRUE
    Threshold = 25
    Budget = 4
    HandoverThreshold = 3
    HandoverBudget = 5
    HandoverBudgetPerOutage = 1
    MaxBudget = 7
    MeteredPercent = 50
    DefaultSize = 2
    TopK = 1
    MinOutage = 2
    NRuns = 2
    BatchFaults = 3
    Reading <- MCReading
    LinksOf <- MCLinksOf
    SnapshotPages <- MCSnapshotPages
    Standin <- MCStandin
    Likely <- MCLikely
    HistoryLen = 2
    Concurrency = 2
    WarmUpFaults = 2
    Seeds = {"a", "b"}
    Targets = {"c"}
    Clicked <- MCClicked
    NSessions = 2
    MaxPages = 3
    Tries = 2
    FetchFaults = 2
    LinkUrls = {"a", "b", "c", "x"}
    Fate <- MCFate
    SameOriginOnly = TRUE
    MaxNodes = 4
    MaxCandidates = 2
    MaxOptions = 1
    Scenarios <- MCScenarios
    Dwell <- MCDwell
    Duration = 5
    AfterRecovery = 1
    Sources = {"push", "error"}
    Base = 8
    Shadows <- MCShadows
    Noises <- MCNoises
    Starts = {3}
    Fades = {2, 5}
    Bottoms = {2}
    ReportEvery = 2
    TraceLen = 10
    MaxShifts = 3
    MaxNoisy = 1
    Window = 4
    LevelWindow = 1
    MinSamples = 3
    Horizon = 4
    MinSlope <- MCMinSlope
    Margin = 3
    NewOutageAfter = 3
INVARIANTS
    PushOrder
    NothingFits
    AsDecided
    WholeLogs
    SaidAsLived
    AnswersWarm
    SessionsInSnapshot
    OffersContentFirst
    AlarmsCounted
    WarnsInTime
    SweepSound
PROPERTIES
    PlansEnd
    WaitEndsWhenDue
    Completes
    WarmsUpUnlessSpoiled
CHECK_DEADLOCK FALSE
