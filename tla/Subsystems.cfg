SPECIFICATION AllSpec
CONSTANTS
    Readers = {r1, r2}
    Writers = {w1, w2}
    Choosers = {g1}
    NoWriter = NoWriter
    None = None
    Reloaders = {"r1", "r2"}
    MaxEdits = 2
    NoHash = 9
    Default = 8
    Handler = "handler"
    Deferred = "deferred"
    ConfigTiming = {"edits_apart", "updates_apart"}
    Relayed = {"q1"}
    Capacity = 2
    MaxChunks = 2
    Records = {1, 2}
    Failing = {2}
    TokensOf <- Costs
    MaxImports = 2
    NoRecord = 0
    CodexRequests = {"x1", "x2"}
    MaxConns = 2
    Streams = {TRUE}
    Senders = {c1, c2}
    Threshold = 2
    ResetTimeout = 2
    TicksPerSecond = 1
INVARIANTS
    AllTypeOK OnlyNestingLocksUp OneConfigServed NoPanic AnswersIntact RecordsCounted
PROPERTIES
    TriedAgain Delivered
    SessionsServe BansTakeEffect
CHECK_DEADLOCK FALSE
