\* Two executions of the DeepStream evidence commands.
CONSTANTS
    Builders = {b1, b2}
    Programs <- EvidencePrograms
    MaxDrift = 0
    None = None
SPECIFICATION Spec
CHECK_DEADLOCK FALSE
PROPERTY PublishedStays
