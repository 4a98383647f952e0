SPECIFICATION UpstreamSpec
CONSTANTS
    c1 = c1  c2 = c2  k1 = k1  k2 = k2
    Calls <- MCCalls
    Keys <- MCKeys
    KeyOf <- MCKeyOf
    NoKey = NoKey
    NoSession = NoSession
    NoEntry = NoEntry
    TransportTries = 3
    FailoverLimit = 3
    CacheLimit = 1
    TTL = 1
    MaxTime = 1
    Models = {"a", "b"}
    Ladder <- MCLadder
    Floor = 2
    Ceiling = 9
    Second = 4
    Half = 64
    Headers <- MCHeaders
    Epoch = 90
    Now = 100
INVARIANT TrackerTypeOK
PROPERTIES CallReturns WaitHonest
CHECK_DEADLOCK FALSE
