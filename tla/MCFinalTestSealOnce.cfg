\* Three executions, two changes of a trust anchor, an operator who waits for live runs.
CONSTANTS
    Runs = {r1, r2, r3}
    MaxDrift = 2
    OperatorWaits = TRUE
    None = None
SYMMETRY RunSymmetry
SPECIFICATION Spec
\* Every run ends and nothing restarts it.
CHECK_DEADLOCK FALSE
INVARIANTS
    FlagsTellTheTruth
    EvidenceTellsTheTruth
PROPERTIES
    ImplementsPromise
