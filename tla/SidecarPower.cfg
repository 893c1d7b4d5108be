SPECIFICATION SidecarSpec
CONSTANTS
    ID = {i1}
    NoID = noid
    Body = {b1, b2}
    MaxAttempts = 2
    MaxRecords = 3
    Faults = {"power", "restart"}
SYMMETRY Symmetry
CHECK_DEADLOCK FALSE
INVARIANTS
    AckedDurable
    AcceptedIsSynced
