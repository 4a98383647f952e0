SPECIFICATION Spec
CONSTANTS
    c1 = c1  c2 = c2  c3 = c3  k1 = k1  k2 = k2
    Calls <- MCCalls
    Keys <- MCKeys
    KeyOf <- MCKeyOf
    NoKey = NoKey
    NoSession = NoSession
    NoEntry = NoEntry
    TransportTries = 2
    FailoverLimit = 1
    CacheLimit = 1
    TTL = 1
    MaxTime = 1
INVARIANTS TypeOK AttemptBudget AffinityProvenance CacheBounded NoDeadReuse
SYMMETRY TwinCalls
CHECK_DEADLOCK FALSE
