\* One inspection, one client whose send times out.
CONSTANTS
    Sockets = {s1}
    Events = {1}
    Window = 1
    KeepWindow = FALSE
    AttemptCap = 1
    SlowClients = TRUE
    MaxFaults = 0
    MaxNetworkFlips = 0
SPECIFICATION Spec
CHECK_DEADLOCK FALSE
INVARIANT LiveMeansCurrent
