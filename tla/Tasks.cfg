SPECIFICATION FairSpec
CONSTANTS
    Handler = {h1, h2}
    Kind = {"ingest", "query", "import", "envelope", "snapshot", "checkpoint"}
    NamedID = {n1}
    RandomID = {r1}
    NoID = noid
    MaxRegistry = 1
INVARIANTS Accounted
PROPERTIES ActiveKept TerminalFinal GrowthBounded TasksEnd
