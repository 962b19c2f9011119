SPECIFICATION Spec
\* compilation ends
CHECK_DEADLOCK FALSE
CONSTANTS
    Programs <- MCPrograms
INVARIANTS
    AcceptedIsWellTyped
    NoPanic
PROPERTIES
    WorklistExact
