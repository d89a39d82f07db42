SPECIFICATION FairSpec
CONSTANTS
    Interfaces = {wifi, lte, sat}
    First = wifi
    wifi = wifi
    lte = lte
    sat = sat
    DeadAfter = 2
    Tunnels = {"quic", "tcp"}
    InOrder = TRUE
    MaxChanges = 2
    MaxUnsent = 1
    MaxBroken = 1
    MaxFlying = 2
INVARIANT HintAgreed
PROPERTY FullGrace
PROPERTY MovesAwayUnlessBroken
PROPERTY OutlookSettles
CHECK_DEADLOCK FALSE
