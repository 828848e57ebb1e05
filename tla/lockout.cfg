CONSTANTS
    h1 = h1
    h2 = h2
    Handlers <- TwoHandlers
    MaxAttempts = 8
    Lockout = 3
    CountBound = 10
    Faults = TRUE
SPECIFICATION FairSpec
INVARIANTS
    TypeOK
    LockIsEarned
    GuessesAreBounded
PROPERTIES
    NeverLockedForGood
    KeepsPolicy
