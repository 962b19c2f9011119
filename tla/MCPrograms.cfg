SPECIFICATION Spec
\* programs end, or are refused
CHECK_DEADLOCK FALSE
CONSTANTS
    StructFields = 2
    UnionValues <- MCUnionValues
    Programs <- MCPrograms
    Payloads <- MCPayloads
INVARIANTS
    NoPanic
    SyncMatchesPosition
    VariablesKept
    HeapExact
PROPERTIES
    EvaluationExact
