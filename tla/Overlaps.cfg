SPECIFICATION PartsSpec
CONSTANTS
    Creds = {c1}
    Refreshers = {j1, j2}
    Operators = {e1}
    Edits = {"disable", "renew"}
    Slots = 2
    PendingWait = 1
    FailureWait = 2
    MaxToken = 2
    Results = {"failure"}
    Watching = TRUE
    Restarts = TRUE
    SavesFail = TRUE
    Prompt = TRUE
    Apart = TRUE
    None = None
    Names = {"n1", "n2"}
    Emails = {"e1"}
    NoEmail = ""
    Ids = {1, 2}
    Registrations = {"s1", "s2"}
    Logins = {}
    Updates = {}
    MaxSends = 1
    ResendAfter = 1
    CodeLife = 1
    AccessLife = 1
    RefreshLife = 1
    Flows = {"f1", "f2"}
    Kinds = {"antigravity", "qwen"}
    Handlers = {"h1"}
    WaitLimit = 1
    TTL = 2
    BaseURLs = 2
    Retries = 1
    MaxLines = 2
    RateLimit = 1
    Users = {"u1", "u2"}
    Workers = {"w1", "w2"}
    Ops = {"redeem", "claim", "disable"}
    MaxRequests = 3
    MaxUses = 2
    HasBonus = TRUE
    MaxPerUser = 1
    TotalLimit = 2
    Seeded = {"u1"}
    Aborts = TRUE
INVARIANTS PartsTypeOK NewestTokenKept OneRefreshAtATime NewestTokenSpent FileIsTruth OneAccountEach OkMeansSaved CallsRecorded CallsConclude RequestsCarried NothingGivenTwice EditStays
PROPERTIES ProtocolKept DisabledForGood
CHECK_DEADLOCK FALSE
