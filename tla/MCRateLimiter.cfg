CONSTANTS
    Clients = {c1, c2}
    Requests = {r1, r2}
    Limiters = {l1, l2, l3, l4}
    None = None
    Rate = 1
    Burst = 2
    MaxTime = 3
SPECIFICATION Spec
SYMMETRY Symmetry
INVARIANTS RateBounded BurstKept Accounted
