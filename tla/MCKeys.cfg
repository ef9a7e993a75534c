CONSTANTS
    Users = {u1}
    Keys = {k1, k2}
    Refs = {r1, r2, r3}
    Devices = {}
    Servers = {s1}
    Handlers = {h1, h2}
    Sweeper = sweeper
    None = None
    Expiries = {None}
    PatchStates = {"MAINTENANCE"}
    Ops = {"create", "rotate", "revoke", "delete", "update", "disable", "deluser"}
    PageCap = 2
    MaxTime = 0
    MaxFaults = 2
SPECIFICATION Spec
SYMMETRY Symmetry
INVARIANTS TypeOK RevokedIsDead NoLostUpdate CascadeRevokesListed LossBoundedByFaults Safe
PROPERTIES ImplementsLifecycle GhostsHaveCause
CHECK_DEADLOCK FALSE
