SPECIFICATION FairSpec
\* everyone is done, or has no attempt left
CHECK_DEADLOCK FALSE
CONSTANTS
    A = A
    B = B
    g = g
    h = h
    Connectors <- MCConnectors
    Channels <- MCChannels
    Active <- MCActive
    Passive <- MCPassive
    MayMismatch = {h}
    Fragmented = {g}
    MayTimeout = {A}
    MaxAttempts <- MCAttempts
    MaxConns = 2
INVARIANTS
    NothingStranded
    PairsRightly
PROPERTIES
    EveryonePairs
