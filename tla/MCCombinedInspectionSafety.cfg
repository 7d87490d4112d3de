\* One request at each endpoint, two pool threads, one crash.
CONSTANTS
    c1 = c1
    p1 = p1
    k1 = k1
    Requests <- MCMixedRequests
    Kind <- MCMixedKind
    Free = Free
    PoolSize = 2
    MaxCrashes = 1
SPECIFICATION FairSpec
\* When every request is answered the system rests.
CHECK_DEADLOCK FALSE
INVARIANTS
    TypeOK
    WholeOrNothing
    AnnouncedMeansDurable
    DecisionTellsEvidence
    NothingLeaks
    CountsOnlyPersisted
PROPERTIES
    ImplementsPromise
    EveryRequestAnswered
