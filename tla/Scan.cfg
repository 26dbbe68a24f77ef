SPECIFICATION FairSpec
CONSTANTS
    QueryBudget = 3
    SpfQueryBudget = 2
    MaxItems = 2
    Outputs = {"json", "text"}
    Thresholds = {4}
CHECK_DEADLOCK FALSE
INVARIANTS
    FailuresExit
    ErrorsAreReal
    RejectionsSummarised
PROPERTIES
    InterruptionShows
    ScanEnds
