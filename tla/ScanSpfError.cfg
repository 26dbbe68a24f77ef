SPECIFICATION Spec
CONSTANTS
    QueryBudget = 3
    SpfQueryBudget = 2
    MaxItems = 1
    Outputs = {"json"}
    Thresholds = {0}
CHECK_DEADLOCK FALSE
INVARIANTS
    SpfErrorsAreReal
