SPECIFICATION FilesSpec
CONSTANTS
    Admins = {a1, a2}
    Passwords = {p1, p2}
    Bases = {b1, b2}
    LegacyBase = b1
    NoKey = NoKey
    NoPassword = NoPassword
    MaxPuts = 2
    MaxLogins = 2
    MaxPool = 2
    r1 = r1  r2 = r2  r3 = r3
    Requests = {r1, r2, r3}
    honest = honest  lying = lying
    Models = {honest, lying}
    Wanted <- MCWanted
    Accepts <- MCAccepts
    Names <- MCNames
    Slots = 2
    MaxRestarts = 1
SYMMETRY Interchangeable
INVARIANTS
    TypeOK StaleSessionsExplained RestartInvisible
    RecoveryTypeOK ScaleNeverEmpty OnlyNamedSent RecoveriesCompose HonestRetryAccepted
    SlotsAccounted
CHECK_DEADLOCK FALSE
