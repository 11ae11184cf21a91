CONSTANTS
    a1 = a1  a2 = a2  m1 = m1  m2 = m2
    Auths = {a1}
    Models = {m1, m2}
    Requests = {r1, r2}
    Supports <- AllSupported
    Priority <- FlatPriority
    Kinds = {"execute", "stream"}
    Pins <- Unpinned
    Errors = {"quota", "other"}
    RetryAfters <- NoRetryAfter
    EffectiveRetry <- RetryOnce
    MaxRetryCredentials = 0
    MaxRetryInterval = 0
    CoolingDisabled <- NoAuth
    MaxLevel = 1
    QuotaCooldown <- MCQuotaCooldown
    UnauthorizedWait = 2
    NotFoundWait = 2
    TransientWait = 1
    NoState = NoState
    Clients = {"k1", "k2"}
    RegistryModels = {"x", "y"}
    Providers = {"p1", "p2"}
    Reporters = {"r"}
    MaxCopies <- FirstTwice
    ProviderChoices = {"p1", "p2"}
    Outcomes = {"success", "quota"}
    NoProvider = ""
    StoredAuths = {"auth"}
    StoredConfig = "config"
    StoredContents = {"v1", "v2"}
    StoredTemplate = "v1"
    StoreBackends = {"postgres", "object", "git"}
    MaxStoreCalls = 3
    MaxStoreWrites = 1
    MaxStoreRestarts = 1
SYMMETRY RequestSymmetry
SPECIFICATION BooksSpec
INVARIANTS TypeOK AggregateTracksModels BooksMatchClients CopiesKept
PROPERTIES BackoffForgottenOnlyBySuccess FailureIsolated OthersKeepMarks
