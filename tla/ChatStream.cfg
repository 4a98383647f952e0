SPECIFICATION Spec
CONSTANTS
    NoId = NoId
    NoName = NoName
    MaxChunks = 3
    MaxCalls = 2
    Names <- MCNames
    Finishes = {"stop", "length", "tool_calls"}
    Indexing = {"own", "legacy", "whole", "split"}
INVARIANTS CallsExactlyOnce StopReasonHonest OneSample
PROPERTY ImplementsMessage
CHECK_DEADLOCK FALSE
