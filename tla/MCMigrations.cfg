CONSTANTS
    Instances = {i1, i2, i3}
    Releases = {{1, 2}, {1, 2, 3}}
    MaxFaults = 2
SPECIFICATION Spec
INVARIANTS PrefixApplied ServingComplete
PROPERTIES AllServe ImplementsVersion
CHECK_DEADLOCK FALSE
