SPECIFICATION Spec
CONSTANTS
    Handler = {h1, h2}
    Op = {"append", "admit", "bind", "materialize", "ingest",
          "snapshot"}
    Body = {b1}
    Document = {state}
    EventsPath = events
    other = other
    inner = inner
    Elsewhere = {other}
    Below <- MCApart
    Target = {events}
    Archive = {}
    ArchiveBody = archived
    Blob = {x}
    Editable = {}
    None = none
    Unsafe = unsafe
    Faults = {"receipt", "persist", "write", "kill"}
    MaxLedger = 2
    MaxImports = 2
SYMMETRY Symmetry
INVARIANTS ContentAccepted DecisionAccepted
