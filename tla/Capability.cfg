SPECIFICATION FairMembraneSpec
CONSTANTS
    write = write
    read = read
    off = off
    native = native
    odd = odd
    r1 = r1
    r2 = r2
    r3 = r3
    r4 = r4
    r5 = r5
    i1 = i1
    i2 = i2
    i3 = i3
    i4 = i4
    i5 = i5
    t1 = t1
    t3 = t3
    t4 = t4
    t5 = t5
    None = none
    Describe <- MCDescribe
    CapabilityID <- MCCapabilityID
    TransitionID <- MCTransitionID
    Call = {c1, c2}
    Kind = {"progress", "mutating"}
    Executor = {write, read, off, native, odd}
    Request = {r1, r2, r3, r4, r5}
    RequestID <- MCRequestID
    Oversized = {r5}
    MaxSize = 2
    Native = {native}
    Allowed = {r3}
INVARIANTS ExecutionsEarned RecordsAgree
PROPERTIES NothingWaits
CHECK_DEADLOCK FALSE
