SPECIFICATION Spec
CHECK_DEADLOCK FALSE
CONSTANTS
    Me = Me
    Other = Other
    NoPort = NoPort
    SkipN = 100
    MaxNative = 2
    MaxNet = 0
    MaxPorts = 2
    MaxComps = 2
    MaxBatches = 1
    Uses = {"inconsistent"}
PROPERTY SyncResetsBatches
