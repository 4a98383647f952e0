SPECIFICATION Spec
CONSTANTS
    NoId = NoId
    NoName = NoName
    MaxChunks = 4
    MaxCalls = 2
    Names <- MCNames
INVARIANTS CallsDelivered FinishHonest
PROPERTY ResponseWellFormed
CHECK_DEADLOCK FALSE
