SPECIFICATION FairSpec
CONSTANTS
    ID = {t1, t2}
    NoID = noid
    Body <- Request
    MaxAttempts = 3
    MaxRecords = 3
    Faults = {"timeout", "late", "mirror", "crash", "write", "restart", "kill"}
    NoEvent = noevent
    NoReply = noreply
    Refused = refused
    Garbage = garbage
    Caller = {c1, c2}
    Node = {n1}
    Data = {d1}
    NoData = nodata
    NoPrior = noprior
CHECK_DEADLOCK FALSE
INVARIANTS
    AcceptedBound
    PromisedDurable
    PromisedVisible
    OneChain
    MirrorFaithful
PROPERTIES
    ImplementsAcceptedHistory
    ProposalAnswered
