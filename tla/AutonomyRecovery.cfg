SPECIFICATION FairSpec
CONSTANTS
    Procs = {worker}
    NSteps = 3
    External = 2
    Deps <- MCDeps
    MaxRetries = 1
    Sparse = {FALSE}
    Results = {"completed"}
    Outlived = {}
    MaxRuns = 2
    MaxStops = 1
    MaxCrashes = 1
CHECK_DEADLOCK FALSE

INVARIANTS
    RecoveryContinues
PROPERTY
    RunsEnd
