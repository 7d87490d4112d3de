\* One inspection, two faults, two changes of the network, the merge that keeps the window.
CONSTANTS
    Sockets = {s1, s2}
    Events = {1}
    Window = 1
    KeepWindow = TRUE
    AttemptCap = 1
    SlowClients = FALSE
    MaxFaults = 2
    MaxNetworkFlips = 2
SPECIFICATION FairSpec
\* A page that was unloaded stops.
CHECK_DEADLOCK FALSE
INVARIANT ReconnectIsComing
PROPERTY Recovers
