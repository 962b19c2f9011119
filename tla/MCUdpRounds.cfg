SPECIFICATION Spec
\* all rounds are over, or the session is broken
CHECK_DEADLOCK FALSE
CONSTANTS
    o1 = o1
    o2 = o2
    n1 = n1
    n2 = n2
    b = b
    Unassigned = Unassigned
    SpecVals = {0, 1}
    SpecVars <- MCSpecVars
    Endpoints = {1, 2}
    OutVar <- MCOutVar
    InVar <- MCInVar
    PutPredicates <- MCPutPredicates
    SolutionPredicates <- MCSolutionPredicates
    MaxRounds = 2
    MaxArrived = 1
INVARIANTS
    DatagramsExact
    NotDeafAfterSuccess
