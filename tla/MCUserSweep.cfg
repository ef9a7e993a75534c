CONSTANTS
    Users = {u1}
    Keys = {k1, k2}
    Refs = {r1, r2}
    Devices = {}
    Servers = {s1}
    Handlers = {h1}
    Sweeper = sweeper
    None = None
    Expiries = {0, None}
    PatchStates = {"ONLINE", "MAINTENANCE"}
    Ops = {"create", "revoke", "sweep"}
    PageCap = 2
    MaxTime = 1
    MaxFaults = 0
SPECIFICATION FairSpec
PROPERTIES UserExpiryEnforced
