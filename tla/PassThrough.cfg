SPECIFICATION FairSpec
CONSTANTS
    HeadLen = 2
    Window = 1
    MaxBytes <- MCMaxBytes
    PeersReset = TRUE
    ConnectionEnds = TRUE
INVARIANTS
    Unchanged
PROPERTIES
    RelaysEndOrPoll
CHECK_DEADLOCK FALSE
