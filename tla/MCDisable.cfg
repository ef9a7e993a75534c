CONSTANTS
    Users = {u1}
    Keys = {k1}
    Refs = {r1}
    Devices = {}
    Servers = {s1}
    Handlers = {h1}
    Sweeper = sweeper
    None = None
    Expiries = {None}
    PatchStates = {"ONLINE", "MAINTENANCE"}
    Ops = {"create", "disable"}
    PageCap = 2
    MaxTime = 0
    MaxFaults = 0
SPECIFICATION Spec
SYMMETRY Symmetry
INVARIANTS DisabledHasNoKey
CHECK_DEADLOCK FALSE
