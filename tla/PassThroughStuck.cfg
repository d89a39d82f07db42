SPECIFICATION FairSpec
CONSTANTS
    HeadLen = 2
    Window = 1
    MaxBytes <- MCMaxBytes
    PeersReset = TRUE
    ConnectionEnds = TRUE
PROPERTIES
    RelaysEnd
CHECK_DEADLOCK FALSE
