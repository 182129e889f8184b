SPECIFICATION Spec
CONSTANTS
    Docs = {doc}
    Threads = {api1, api2}
    Worker = worker
    Outlived = FALSE
    MaxEdits = 2
    MaxAsks = 1
    MaxChanges = 1
    MaxFaults = 1
    MaxLapses = 1
    MaxCrashes = 1
SYMMETRY Symmetry
INVARIANTS
    TypeOK
    ArchiveNeedsReadback
    LedgerMatchesDrive
    OneMove
    MoveMatchesFacts
