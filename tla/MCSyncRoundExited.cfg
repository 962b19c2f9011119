SPECIFICATION FairSpec
\* everyone waits for the decision
CHECK_DEADLOCK FALSE
CONSTANTS
    A = A
    B = B
    c = c
    d = d
    y = y
    e = e
    f = f
    g = g
    h = h
    k = k
    l = l
    m = m
    Exited = Exited
    Unassigned = Unassigned
    SpecVals = {0, 1}
    Payloads = {0, 1}
    SpecVars <- MCSpecVars
    Natives <- MCNatives
    Leader = A
    Comps <- MCComps
    Home <- MCHome
    Channels <- MCChannels
    PutterOf <- MCPutterOf
    GetterOf <- MCGetterOfExited
    Situations <- MCToExited
    Run <- MCRun
INVARIANT DeadChannelsSilent
