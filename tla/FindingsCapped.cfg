SPECIFICATION AuditSpec
CONSTANTS
    d1 = d1
    d2 = d2
    d3 = d3
    BadName = BadName
    Dynamic = Dynamic
    ByVersion = ByVersion
    OfVersion <- MCOfVersion
    NoRedirect = NoRedirect
    NotAsked = NotAsked
    NoRecord = NoRecord
    Several = Several
    Malformed = Malformed
    Domains <- MCDomains
    Folded <- MCFolded
    Records <- MCRecords
    MaxLookups = 3
    MaxVoidLookups = 1
    MaxMXNames = 1
    MaxPTRNames = 1
    MaxDepth = 2
    MaxTerms = 2
    MaxNodes = 3
    MaxPerRule = 1
CHECK_DEADLOCK FALSE
INVARIANTS
    MostSevereListed
