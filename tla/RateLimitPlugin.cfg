SPECIFICATION Spec
CONSTANTS
    Proc = {p1, p2}
    Tries = 1
    Free = Free
    NoPid = NoPid
    MaxRetries = 1
    BaseDelay = 1
    MaxDelay = 1
    MaxAutoWait = 2
    QuotaFallback = 3
    RateFallback = 1
    RateCap = 2
    FailureWindow = 2
    Waits = {2}
    NativeDelays = {0}
    Horizon = 2
    MaxFailures = 2
SYMMETRY Interchangeable
INVARIANTS TypeOK Exclusion WaitsForDeadline GatedMeansUnsent
PROPERTIES DeadlineKept DeadlinesHonoured
CHECK_DEADLOCK FALSE
