SPECIFICATION CheckpointedSpec
CONSTANTS
    ID = {t1, t2, t3}
    NoID = noid
    Body <- Request
    MaxAttempts = 4
    MaxRecords = 4
    Faults = {"restart", "crash"}
    NoEvent = noevent
    NoReply = noreply
    Refused = refused
    Garbage = garbage
    Caller = {c1, c2}
    Node = {n1}
    Data = {d1, d2}
    NoData = nodata
    NoPrior = noprior
    NoCheckpoint = nocp
SYMMETRY Symmetry
INVARIANTS
    HeadsAgree
    CheckpointRebuilds
    ApprovedMirrorIsPrefix
