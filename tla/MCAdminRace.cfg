CONSTANTS
    Admins = {a1, a2}
    Requests = {p1, p2}
    None = None
    SessionLife = 1
    MaxTime = 1
SPECIFICATION Spec
SYMMETRY Symmetry
PROPERTIES OnlyPatchChanges
CHECK_DEADLOCK FALSE
