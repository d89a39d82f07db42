SPECIFICATION FairSpec
CONSTANTS
    Interfaces = {wifi, lte}
    First = wifi
    wifi = wifi
    lte = lte
    sat = sat
    DeadAfter = 2
    Tunnels = {"quic"}
    InOrder = TRUE
    MaxChanges = 2
    MaxUnsent = 1
    MaxBroken = 1
    MaxFlying = 2
PROPERTY MovesAway
CHECK_DEADLOCK FALSE
