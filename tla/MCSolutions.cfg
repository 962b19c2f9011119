SPECIFICATION MCSpec
\* the leader stops when it has decided, and the walk ends
CHECK_DEADLOCK FALSE
CONSTANTS
    native = native
    comp = comp
    child = child
    Unassigned = Unassigned
    SpecVals = {0, 1}
    SpecVars = {1, 2, 3}
    SubtreeIds <- MCSubtreeIds
    Candidates <- MCCandidates
INVARIANTS
    LocalSolutionsExact
    DecisionCovered
    ElaborationExact
    NeverHandedUpTwice
    ResultExact
