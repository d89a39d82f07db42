SPECIFICATION Spec
CONSTANTS
    Interfaces = {wifi, lte}
    First = wifi
    wifi = wifi
    lte = lte
    sat = sat
    DeadAfter = 2
    Tunnels = {"quic"}
    InOrder = FALSE
    MaxChanges = 3
    MaxUnsent = 1
    MaxBroken = 1
    MaxFlying = 2
INVARIANT HintAgreed
CHECK_DEADLOCK FALSE
