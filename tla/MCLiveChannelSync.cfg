\* Two inspections, a window of one row, two faults, slow clients, a stable network.
CONSTANTS
    Sockets = {s1, s2}
    Events = {1, 2}
    Window = 1
    KeepWindow = FALSE
    AttemptCap = 1
    SlowClients = TRUE
    MaxFaults = 2
    MaxNetworkFlips = 0
SPECIFICATION Spec
SYMMETRY SocketSymmetry
\* A page that was unloaded stops.
CHECK_DEADLOCK FALSE
INVARIANT RegisteredMeansCurrent
PROPERTY NothingVanishes
