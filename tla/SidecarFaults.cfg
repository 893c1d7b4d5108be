SPECIFICATION SidecarSpec
CONSTANTS
    ID = {i1}
    NoID = noid
    Body = {b1, b2}
    MaxAttempts = 2
    MaxRecords = 3
    Faults = {"write", "restart", "kill"}
SYMMETRY Symmetry
CHECK_DEADLOCK FALSE
INVARIANTS
    UniqueEvidence
    AckedDurable
    OneUncertainWrite
    CheckpointsBound
PROPERTIES
    AppendOnly
