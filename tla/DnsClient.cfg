SPECIFICATION FairSpec
CONSTANTS
    owner = owner
    alias = alias
    other = other
    Names <- MCNames
    Owner = owner
    NoName = NoName
    NoMsg = NoMsg
    MaxServers = 2
    Attempts = 2
    Timeout = 2
    MaxCnameChain = 1
    MaxAnswers = 3
CHECK_DEADLOCK FALSE
INVARIANTS
    AnswerIsOwn
    TimeBounded
    AnswersExact
    EndStopsQueries
PROPERTIES
    NoiseIsHarmless
    ConsultsInTurn
    LookupEnds
