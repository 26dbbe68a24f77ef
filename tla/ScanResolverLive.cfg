SPECIFICATION FairSpec
CONSTANTS
    main = main
    dial = dial
    other = other
    k1 = k1
    k2 = k2
    NoKey = NoKey
    Procs <- MCProcs3
    Main = main
    Keys <- MCKeys
    Records <- MCRecords
    ClientErrs <- MCFewErrs
    ScanLimit = 1
    SpfLimit = 1
    MaxEntries = 6
    MaxCalls = 1
CHECK_DEADLOCK FALSE
PROPERTIES
    LookupReturns
