SPECIFICATION Spec
CONSTANTS
    NoId = NoId
    NoName = NoName
    MaxChunks = 2
    MaxCalls = 1
    Names <- MCNames
INVARIANT LostCallsCorrected
CHECK_DEADLOCK FALSE
