CONSTANTS
    Procs = {api, worker}
    NSteps = 2
    External = 0
    Deps <- MCShortDeps
    MaxRetries = 1
    Sparse = {TRUE}
    Results = {"completed", "partial"}
    Outlived = {}
    MaxRuns = 2
    MaxStops = 1
    MaxCrashes = 0
SPECIFICATION HistorySpec
SYMMETRY Symmetry
CHECK_DEADLOCK FALSE
INVARIANTS
    SteadyOneCycle
    SteadyStopHolds
    SteadyRunsClosed
    LapsingOneRecovery
