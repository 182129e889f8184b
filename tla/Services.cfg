CONSTANTS
    Procs = {p1, p2}
    Solo = solo
    Requests = {request}
    Contracts = {plain, secretive}
    Secretive = {secretive}
    Sessions = {s1, s2}
    Docs = {d1, d2}
    Formats = {"json", "csv"}
    Entities = {e1, e2}
    PageSize = 1
    MaxPages = 3
    MaxRuns = 2
    MaxEdits = 2
    Items = {photo, video}
    Photos = {photo}
    Columns = {c1, c2}
SPECIFICATION Spec
SYMMETRY Symmetry
CHECK_DEADLOCK FALSE
INVARIANTS
    TypeOK
    AnswersAgree
    ExclusiveOrder
    RestoreAllOrNothing
    OperatorTold
    MissingIsGone
    AccountsRespected
    SelectionKept
    SchemaUpgraded
PROPERTIES
    OneExecutionPerRequest
    EvidenceNotOverwritten
