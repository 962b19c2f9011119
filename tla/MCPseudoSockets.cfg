SPECIFICATION FairSpec
\* the process may have been aborted
CHECK_DEADLOCK FALSE
CONSTANTS
    receiver = receiver
    sender = sender
    opener = opener
    Threads <- MCThreads
    Uses <- MCUses
    NoThread = NoThread
    Addrs = {a}
    NoAddr = NoAddr
    MaxFd = 1
    out = out
    in = in
    Unassigned = Unassigned
    SpecVals = {0, 1}
    SpecVars <- MCSpecVars
    MaxArrived = 1
INVARIANTS
    FdsAccounted
    Lockstep
PROPERTIES
    CallsReturn
