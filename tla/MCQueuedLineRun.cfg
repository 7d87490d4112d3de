\* Six events through a queue of three, with interrupts.
CONSTANTS
    NumEvents = 6
    QueueSize = 3
    Interrupts = TRUE
SPECIFICATION FairSpec
\* The run ends.
CHECK_DEADLOCK FALSE
INVARIANTS
    NoDropInOrder
    BookkeepingExact
    NoConsequenceReported
PROPERTIES
    ImplementsPromise
    FailedEventIsLast
    RunEnds
