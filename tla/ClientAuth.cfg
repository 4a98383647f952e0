SPECIFICATION Spec
CONSTANTS
    Slots = {s1, s2}
    Admins = {a1}
    Quota = 2
    DailyLimit = 1
    Costs <- MCCosts
    MaxCost = 1
    TTL = 2
    MaxFill = 1
    Absent = Absent
    NoCache = NoCache
    MaxDay = 1
    MaxBlind = 1
SYMMETRY Interchangeable
INVARIANTS TypeOK OvershootBounded DailyExact RevocationBounded
CHECK_DEADLOCK FALSE
