SPECIFICATION Spec
CONSTANTS
    c1 = c1  c2 = c2  x = x  toolu = toolu
    Convs = {c1, c2}
    Worlds <- MCWorlds
    Answers <- MCAnswers
    Hash <- MCHash
    OwnIds = {toolu}
    Tools = {1, 2}
    Docs = {1, 2}
    PoolSize = 2
    MaxTime = 2
    TTL = 1
    MaxEntries = 2
    NoReasoning = NoReasoning
    NoKey = NoKey
    Nothing = Nothing
INVARIANT SearchTold
PROPERTIES PrefixReused ReasoningRestored
CHECK_DEADLOCK FALSE
