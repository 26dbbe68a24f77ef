SPECIFICATION MCSpec
CONSTANTS
    org = org
    sub = sub
    other = other
    s1 = s1
    s2 = s2
    Domains <- MCDomains
    Org <- MCOrg
    NoDomain = NoDomain
    Selectors = {s1, s2}
    InitialInputs <- MCInputs
    MaxSignatures = 1
    MaxCount = 2
CHECK_DEADLOCK FALSE
INVARIANTS
    FailIsAlwaysDefinite
