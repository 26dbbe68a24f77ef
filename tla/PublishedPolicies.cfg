SPECIFICATION PoliciesSpec
CONSTANTS
    d1 = d1
    d2 = d2
    d3 = d3
    BadName = BadName
    Dynamic = Dynamic
    ByVersion = ByVersion
    OfVersion <- MCOfVersion
    NoRedirect = NoRedirect
    NotAsked = NotAsked
    NoRecord = NoRecord
    Several = Several
    Malformed = Malformed
    Domains <- MCDomains
    Folded <- MCFolded
    Records <- MCRecords
    MaxLookups = 3
    MaxVoidLookups = 1
    MaxMXNames = 1
    MaxPTRNames = 1
    MaxDepth = 2
    MaxTerms = 2
    MaxNodes = 3
    MaxPerRule = 1
    Org = Org
    Sub = Sub
    Outside = {out}
    BadURI = BadURI
    Percentages = {50, 101}
    MaxTags = 3
    Hosts = {mx1, mx2, mx3, literal}
    NullHost = NullHost
    Own = Own
    Literals = {literal}
    BadHosts = {mx3}
    LookupErrs = {"NXDomain", "Temporary", "Budget"}
    MaxResolved = 2
    MaxRecords = 3
    sub = sub
    mail = mail
    example = example
    net = net
    Star = Star
    Labels = {sub, mail, example, net, Star}
    MailHosts <- MCMailHosts
    Patterns <- MCPatterns
    MaxAges = {1, 2, 4}
    MaxMaxAge = 3
    Day = 2
    MaxFields = 2
    MaxLines = 5
CHECK_DEADLOCK FALSE
INVARIANTS
    CutOffIsPaid
    LimitForeseen
    MxValidIsEarned
    PolicyIsPublished
    EnforcedIsEarned
    ValidMeansCovered
