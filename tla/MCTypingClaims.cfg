SPECIFICATION Spec
\* compilation ends
CHECK_DEADLOCK FALSE
CONSTANTS
    Programs <- MCPrograms
\* none of the three holds; TLC stops at the first it refutes
INVARIANTS LogicalOperandsAreBool AllWellTyped
PROPERTY AllSettled
