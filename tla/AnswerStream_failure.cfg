SPECIFICATION Spec
CONSTANTS
    MaxChunks <- OneEach
    MaxRetries = 0
    Assume = {}
INVARIANT FailureIsTold
CHECK_DEADLOCK FALSE
