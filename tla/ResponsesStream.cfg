SPECIFICATION Spec
CONSTANTS
    NoId = NoId
    NoName = NoName
    MaxFrames = 4
    MaxAttempts = 3
    MaxItems = 2
    Names <- MCNames
    Endings = {"colon", "plain"}
    Forms <- AllForms
INVARIANTS CallsExactlyOnce OneSample
PROPERTY ImplementsMessage
CHECK_DEADLOCK FALSE
