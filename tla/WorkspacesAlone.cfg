SPECIFICATION Spec
CONSTANTS
    Handler = {h1}
    Op = {"update", "append", "admit", "reject", "decide",
          "export", "edit", "snapshot"}
    Body = {b1}
    Document = {state}
    EventsPath = events
    other = other
    inner = inner
    Elsewhere = {other, inner}
    Below <- MCBelow
    Target = {other, inner}
    Archive = {state, events, other}
    ArchiveBody = archived
    Blob = {x}
    Editable = {other, inner}
    None = none
    Unsafe = unsafe
    Faults = {}
    MaxLedger = 5
    MaxImports = 2
SYMMETRY Symmetry
INVARIANTS DecisionFinal ReplayEquivalent VisibleImported EnvelopeKeeps
