SPECIFICATION Spec
CONSTANTS
    Docs = {doc}
    Threads = {api}
    Worker = worker
    Outlived = FALSE
    MaxEdits = 0
    MaxAsks = 0
    MaxChanges = 0
    MaxFaults = 1
    MaxLapses = 0
    MaxCrashes = 0
INVARIANT BlockedIsRetained
