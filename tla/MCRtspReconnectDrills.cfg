\* The committed policy; three frames under way, two strangers on the port.
CONSTANTS
    InitialFrames = 10
    HealthyFrames = 30
    MaxAttempts = 5
    InitialBackoff = 500
    MaxBackoff = 8000
    MaxBuffered = 3
    MaxStrangers = 2
SPECIFICATION FairSpec
\* Each drill ends.
CHECK_DEADLOCK FALSE
INVARIANTS
    TypeOK
    MetricsTellTheTruth
    EvidenceTellsTheTruth
    NothingLeftRunning
PROPERTY DrillEnds
