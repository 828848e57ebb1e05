CONSTANTS
    h1 = h1
    h2 = h2
    h3 = h3
    Handlers <- ThreeHandlers
    Limit = 2
    RetryAfter = 4
    CallTime = 2
    MaxMemories = 2
SPECIFICATION FairSpec
INVARIANTS
    TypeOK
    OutageBounded
    LimitHolds
PROPERTIES
    RedisLeftAlone
    EveryIncrementAnswered
