CONSTANTS
    Attempts = {attempt}
    Procs = {p1, p2}
    RaceBound = 2
    MaxEdits = 2
    MaxApprovals = 3
    MaxClaims = 3
    MaxCrashes = 2
SPECIFICATION HistorySpec
SYMMETRY Symmetry
INVARIANTS
    TypeOK
    HandedWithinApprovals
    ClaimsSpendAuthority
    ClaimsAccounted
    SubmittedIsReal
    SequenceHandedOnce
    SequenceAgrees
