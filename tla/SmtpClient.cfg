SPECIFICATION Spec
CONSTANTS
    MaxMessageBytes = 12
    MaxHeaderBytes = 8
    MaxHeaders = 2
    MaxLine = 5
    MaxMIMEDepth = 3
    MaxMIMEParts = 4
    Slack = 0
    Bodies = {0, 1, 2, 3, 5, 13}
    p1 = p1
    p2 = p2
    r1 = r1
    odd = odd
    h1 = h1
    h2 = h2
    bad = bad
    m1 = m1
    m2 = m2
    badm = badm
    NoValue = NoValue
    Unknown = Unknown
    Null = Null
    ReverseName = ReverseName
    Public = {p1, p2}
    Private = {r1}
    OddSpellings = {odd}
    Names = {h1, h2}
    BadNames = {bad}
    Mailboxes = {m1, m2}
    BadMailboxes = {badm}
    MaxHops = 2
    MaxInstances = 2
    MaxOfKind = 2
    Operators <- MCOperators
    Peers <- MCPeers
    SenderHops <- MCSenderHops
    SenderRecords <- MCSenderRecords
    SenderPaths <- MCSenderPaths
CHECK_DEADLOCK FALSE
INVARIANTS
    ClientIsRecorded
