CONSTANTS
    Attempts = {attempt}
    Procs = {p1, p2}
    MaxEdits = 0
    MaxApprovals = 2
    MaxClaims = 2
    MaxCrashes = 0
SPECIFICATION Spec
SYMMETRY Symmetry
INVARIANT OneExecutor
