SPECIFICATION Spec
CONSTANTS
    Admins = {a1}
    Passwords = {p1, p2}
    Bases = {b1, b2}
    LegacyBase = b1
    NoKey = NoKey
    NoPassword = NoPassword
    MaxPuts = 1
    MaxLogins = 2
    MaxPool = 2
INVARIANT KeysKept
