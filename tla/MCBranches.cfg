SPECIFICATION Spec
\* the connector waits for the decision
CHECK_DEADLOCK FALSE
CONSTANTS
    A = A
    B = B
    c = c
    d = d
    y = y
    e = e
    f = f
    g = g
    h = h
    k = k
    l = l
    m = m
    Exited = Exited
    Unassigned = Unassigned
    SpecVals = {0, 1}
    Payloads = {0, 1}
    SpecVars <- MCFourVars
    Natives <- MCOneNative
    Leader = A
    Comps <- MCComps
    Home <- MCHomeLocal
    Channels <- MCThreeChannels
    PutterOf <- MCPutterOfAsking
    GetterOf <- MCGetterOfAsking
    Situations <- MCTwoBatches
    States <- MCStates
    Run <- MCRun
INVARIANT IInv
