SPECIFICATION Spec
CONSTANTS
    main = main
    dial = dial
    other = other
    k1 = k1
    k2 = k2
    NoKey = NoKey
    Procs <- MCProcs3
    Main = main
    Keys <- MCKeys
    Records <- MCRecords
    ClientErrs <- MCClientErrs
    ScanLimit = 2
    SpfLimit = 1
    MaxEntries = 6
    MaxCalls = 2
SYMMETRY MCSymmetry
CHECK_DEADLOCK FALSE
INVARIANTS
    SingleFlight
    BudgetHonest
    AnswerIsReal
PROPERTIES
    ImplementsPromise
