CONSTANTS
    Users = {u1}
    Keys = {k1}
    Refs = {r1, r2}
    Devices = {1}
    Servers = {s1}
    Handlers = {h1, h2}
    Sweeper = sweeper
    None = None
    Expiries = {None}
    PatchStates = {"MAINTENANCE"}
    Ops = {"create", "rotate", "revoke", "delete", "update", "disable", "deluser", "rename", "setstatus", "deldev", "newserver", "renameserver", "setserver", "delserver"}
    PageCap = 2
    MaxTime = 0
    MaxFaults = 1
SPECIFICATION Spec
SYMMETRY Symmetry
INVARIANTS EndedForGood
PROPERTIES OnlyUserSaveReinserts OnlyPatchUnrevokes OnlyPatchChangesServer OnlyUpdateRevives
CHECK_DEADLOCK FALSE
