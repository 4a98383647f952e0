SPECIFICATION Spec
CONSTANTS
    NoId = NoId
    NoName = NoName
    MaxChunks = 3
    MaxCalls = 2
    Names = {"declared"}
    Finishes = {"tool_calls"}
    Indexing = {"own", "split"}
INVARIANT CallsComplete
CHECK_DEADLOCK FALSE
