SPECIFICATION Spec
CONSTANTS
    w1 = w1
    w2 = w2
    f1 = f1
    f2 = f2
    d1 = d1
    d2 = d2
    b1 = b1
    b2 = b2
    Handler = {h1, h2}
    Op = {"ingest", "query", "mutate"}
    Workspace = {w1, w2}
    File = {f1, f2}
    Dir = {d1, d2}
    Root = root
    Parent <- MCParent
    Bytes = {b1, b2}
    Link = {l1}
    Links <- MCLinks
    None = none
    Rank <- MCRank
    Query = {q}
    Matches <- MCMatches
    MaxCandidates = 3
    MaxActorsPerRequest = 2
    Threshold = 80
    Mutation = {m}
    Archive <- MCArchive
    Instant = {1}
    Faults = {"restart"}
    MaxHistory = 3
SYMMETRY Symmetry
INVARIANTS PacketsAccepted GraphReplayed QueryRight
