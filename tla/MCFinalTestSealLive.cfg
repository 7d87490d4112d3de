\* Three executions, two changes of a trust anchor, an operator who does not wait for live runs.
CONSTANTS
    Runs = {r1, r2, r3}
    MaxDrift = 2
    OperatorWaits = FALSE
    None = None
SYMMETRY RunSymmetry
SPECIFICATION Spec
\* Every run ends and nothing restarts it.
CHECK_DEADLOCK FALSE
INVARIANTS
    OneTimeAccess
