SPECIFICATION Spec
\* a broken connector, or one at the bounds, has nothing left to do
CHECK_DEADLOCK FALSE
CONSTANTS
    Me = Me
    Other = Other
    NoPort = NoPort
    SkipN = 2
    MaxNative = 3
    MaxNet = 2
    MaxPorts = 5
    MaxComps = 3
    MaxBatches = 2
    Uses = {"udp", "inconsistent"}
INVARIANTS
    OwnershipAgrees
    BatchesNative
    OneVarPerChannel
PROPERTIES
    SyncIsAtomic
