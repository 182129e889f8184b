CONSTANTS
    Procs = {p1, p2}
    Solo = solo
    Mails = {mail}
    Files = {file}
    Contents = {x, y}
    NoRef = noref
SPECIFICATION Spec
SYMMETRY Symmetry
CHECK_DEADLOCK FALSE
INVARIANT SuspectsHeld
