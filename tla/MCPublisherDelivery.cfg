\* Two events, two retries so that the back-off cap is met, two closing threads, one idle waiter.
CONSTANTS
    MaxEvents = 2
    MaxRetries = 2
    InitialBackoffMs = 100
    Multiplier = 2
    MaxBackoffMs = 150
    Closers = {c1, c2}
    Waiters = {w1}
    Worker = worker
SPECIFICATION FairSpec
\* A closed publisher whose worker has ended stays as it is.
CHECK_DEADLOCK FALSE
INVARIANTS
    TypeOK
    Conservation
    CountersTellFates
    NoLostWakeup
    NothingStranded
    BackoffPolicy
PROPERTIES
    ImplementsPromise
    EventsSettle
    WorkerEnds
