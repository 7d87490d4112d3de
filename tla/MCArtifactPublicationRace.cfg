\* Three executions of each builder, one change of the sources.
CONSTANTS
    Builders = {b1, b2, b3}
    Programs <- AllPrograms
    MaxDrift = 1
    None = None
SPECIFICATION Spec
SYMMETRY BuilderSymmetry
\* Every execution ends and nothing restarts it.
CHECK_DEADLOCK FALSE
INVARIANTS
    ClaimsHold
    VisibleIsWhole
    CleanFailure
    LineageTrue
PROPERTY ImplementsPromise
