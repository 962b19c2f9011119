SPECIFICATION Spec
CHECK_DEADLOCK FALSE
CONSTANTS
    Me = Me
    Other = Other
    NoPort = NoPort
    SkipN = 100
    MaxNative = 4
    MaxNet = 0
    MaxPorts = 4
    MaxComps = 2
    MaxBatches = 1
    Uses = {"udp"}
INVARIANT OneVarPerChannelOfAll
