SPECIFICATION Spec
CONSTANTS
    d1 = d1
    d2 = d2
    d3 = d3
    d4 = d4
    d5 = d5
    BadName = BadName
    Domains <- MCDomains
    Folded <- MCFolded
    MaxLookups = 3
    MaxVoidLookups = 1
    MaxMXNames = 1
    MaxPTRNames = 1
    MaxDepth = 2
    MaxTerms = 3
CHECK_DEADLOCK FALSE
SYMMETRY MCSymmetry
INVARIANTS
    StackAcyclic
    LimitStops
    QueriesBounded
    FailureDecides
    OwnDirectiveDecides
