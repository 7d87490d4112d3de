\* One event and an interrupt.
CONSTANTS
    NumEvents = 1
    QueueSize = 1
    Interrupts = TRUE
SPECIFICATION FairSpec
CHECK_DEADLOCK FALSE
PROPERTY WorkerNeverLeftBehind
