CONSTANTS
    Kids = {k1, k2}
    Logins = {p1, p2}
    None = None
    Ages = {1, 2}
    MaxAge = 2
    FetchTime = 1
    LockTime = 1
    MaxTime = 5
SPECIFICATION Spec
SYMMETRY Symmetry
INVARIANTS WithdrawnKeyExpires
