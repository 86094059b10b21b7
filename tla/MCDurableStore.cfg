CONSTANTS
    Order <- MCOrder
    MaxRuns = 3
SPECIFICATION Spec
CHECK_DEADLOCK FALSE
INVARIANT CreatedZeroed
