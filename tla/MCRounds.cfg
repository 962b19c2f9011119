SPECIFICATION FairSpec
\* everyone has called sync MaxRounds times, or waits for one that has not
CHECK_DEADLOCK FALSE
CONSTANTS
    x = x
    Unassigned = Unassigned
    NoParent = NoParent
    SpecVals = {0, 1}
    SpecVars <- MCSpecVars
    Nodes <- MCNodes
    Sessions <- MCSessions
    Candidates <- MCCandidates
    PayloadTo <- MCPayloadTo
    MaxRounds = 2
INVARIANTS
    DecisionsJustified
    PayloadKept
PROPERTIES
    ImplementsAgreement
    EverySyncReturns
