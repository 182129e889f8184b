SPECIFICATION PassSpec
CONSTANTS
    Docs = {doc}
    Threads = {api}
    Worker = worker
    Outlived = TRUE
    MaxEdits = 1
    MaxAsks = 1
    MaxChanges = 0
    MaxFaults = 2
    MaxLapses = 0
    MaxCrashes = 1
    Sources = {mail, drive}
    Attempts = {attempt}
CHECK_DEADLOCK FALSE
PROPERTIES
    DeliveryDone
    SourcesCollected
    ClaimsResolve
