CONSTANTS
    a1 = a1  a2 = a2  m1 = m1  m2 = m2
    Auths = {a1, a2}
    Models = {m1}
    Requests = {r1, r2}
    Supports <- AllSupported
    Priority <- A1First
    Kinds = {"execute", "count"}
    Pins <- Unpinned
    Errors = {"transient", "other", "invalid"}
    RetryAfters <- NoRetryAfter
    EffectiveRetry <- RetryA1Twice
    MaxRetryCredentials = 1
    MaxRetryInterval = 2
    CoolingDisabled <- NoAuth
    MaxLevel = 1
    QuotaCooldown <- MCQuotaCooldown
    UnauthorizedWait = 2
    NotFoundWait = 2
    TransientWait = 1
    NoState = NoState
    MaxChunks <- TwoThenOne
    MaxRetries = 1
    LoggedRequests = {q1, q2}
    StreamedRequests = {q1}
    Buffer = 1
    MaxWrites = 2
    MaxErrorLogs = 1
    MaxToggles = 1
SPECIFICATION AnswersSpec

INVARIANTS UpstreamCallsBounded AnswerAsSent LogsKept
PROPERTIES EveryRequestReturns StreamsEnd
CHECK_DEADLOCK FALSE
