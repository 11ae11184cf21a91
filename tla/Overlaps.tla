------------------------------- MODULE Overlaps -------------------------------
(***************************************************************************)
(* The subsystems whose hazard is an overlap: requests, goroutines and     *)
(* callbacks that read, wait and write back.  Token refresh (AuthRefresh,  *)
(* extended) is checked beside accounts being registered, codes being      *)
(* redeemed, the configuration being edited, sign-ins through the          *)
(* management API, and a client's call, which a translator puts into the   *)
(* provider's format, an executor hands to an upstream and a translator    *)
(* hands back in pieces.  They share no state:                             *)
(* "part" says which of them moves in a behaviour, the others rest in      *)
(* their initial states.                                                   *)
(***************************************************************************)
EXTENDS AuthRefresh

CONSTANTS
    \* UserAccounts
    Names, Emails, NoEmail, Ids, Registrations, Logins, Updates, MaxSends,
    ResendAfter, CodeLife, AccessLife, RefreshLife,
    \* OAuthSessions
    Flows, Kinds, Handlers, WaitLimit, TTL,
    \* ExecutorCalls
    BaseURLs, Retries, MaxLines, RateLimit,
    \* Redemption
    Users, Workers, Ops, MaxRequests, MaxUses, HasBonus, MaxPerUser, TotalLimit, Seeded, Aborts

VARIABLES
    part,
    \* UserAccounts
    aUsers, aCodes, aSends, aReg, aLogin, aUpdate, aAccess, aRefresh, aDecided,
    \* OAuthSessions
    oSession, oFile, oFlow, oHandler, oSaved, oExpired,
    \* ClaudeStream
    sFrom, sParam, sFed, sStage, sItem, sOut, sClient,
    \* ExecutorCalls
    kCall, kWindow, kModels,
    \* Requests
    qClient, qProvider, qHabit, qTalk, qRequest,
    \* Redemption
    iCode, iUsage, iTemplate, iInvites, iRows, iWork, iStarted, iRedeemed, iClaimed, iLost,
    \* ConfigEdits
    gSection, gFile, gMem, gEdit, gEdits, gLoaded, gSeen, gPromised, gOwed

Accounts == INSTANCE UserAccounts WITH
    Apart <- TRUE,
    users <- aUsers, codes <- aCodes, sends <- aSends, reg <- aReg, login <- aLogin,
    update <- aUpdate, access <- aAccess, refresh <- aRefresh, decided <- aDecided

SignIns == INSTANCE OAuthSessions WITH
    session <- oSession, file <- oFile, flow <- oFlow, handler <- oHandler,
    saved <- oSaved, expired <- oExpired

Stream == INSTANCE ClaudeStream WITH
    Providers <- {"openai", "codex", "gemini", "gemini-cli", "antigravity"},
    Assume <- {"named_once", "one_usage", "counted", "unbroken", "no_empty_text", "signed_thoughts"},
    Tools <- {0, 1}, MaxChunks <- 4,
    from <- sFrom, param <- sParam, fed <- sFed, stage <- sStage, item <- sItem,
    out <- sOut, client <- sClient

Calls == INSTANCE ExecutorCalls WITH
    Assume <- {"decodable_errors"},
    call <- kCall, window <- kWindow, models <- kModels

Asked == INSTANCE Requests WITH
    MaxTurns <- 5, MaxCalls <- 3, None <- None,
    client <- qClient, provider <- qProvider, habit <- qHabit, talk <- qTalk, request <- qRequest

Codes == INSTANCE Redemption WITH
    NoRow <- None,
    code <- iCode, usage <- iUsage, template <- iTemplate, invites <- iInvites, rows <- iRows,
    work <- iWork, started <- iStarted, redeemed <- iRedeemed, claimed <- iClaimed, lost <- iLost

Settings == INSTANCE ConfigEdits WITH
    Editors <- {"e1"}, MaxEdits <- 2,
    Sections <- {"gemini-api-key", "claude-api-key", "openai-compatibility", "vertex-api-key",
                 "model-mappings", "upstream-api-keys", "oauth-excluded-models",
                 "oauth-model-alias", "api-keys"},
    Names <- {"k1", "k2"}, Bases <- {"b"}, Headers <- {"h1", "h2"},
    Assume <- {"edits_apart", "saves_whole", "headers_whole", "lists_kept", "limit_listed"},
    None <- None,
    section <- gSection, file <- gFile, mem <- gMem, edit <- gEdit, edits <- gEdits,
    loaded <- gLoaded, seen <- gSeen, promised <- gPromised, owed <- gOwed

accounts == <<aUsers, aCodes, aSends, aReg, aLogin, aUpdate, aAccess, aRefresh, aDecided>>
signins == <<oSession, oFile, oFlow, oHandler, oSaved, oExpired>>
stream == <<sFrom, sParam, sFed, sStage, sItem, sOut, sClient>>
calls == <<kCall, kWindow, kModels>>
requests == <<qClient, qProvider, qHabit, qTalk, qRequest>>
codes == <<iCode, iUsage, iTemplate, iInvites, iRows, iWork, iStarted, iRedeemed, iClaimed, iLost>>
settings == <<gSection, gFile, gMem, gEdit, gEdits, gLoaded, gSeen, gPromised, gOwed>>

ASSUME AccountsAssumption == Accounts!BoundsAssumption
ASSUME SignInsAssumption == SignIns!BoundsAssumption
ASSUME CodesAssumption == Codes!LimitsAssumption
ASSUME RequestsAssumption == Asked!BoundsAssumption
ASSUME CallsAssumption == Calls!BoundsAssumption

\* The settings at rest: keys without entries.
NoSettings == gSection = "api-keys" /\ gMem.items = <<>> /\ "api-keys" \in DOMAIN gFile.map
              /\ "seq" \in DOMAIN gFile.map["api-keys"]

\* A client at rest.
NoRequests == qClient = "claude" /\ qProvider = "openai" /\ qHabit = "usual" /\ qTalk = <<>>

PartsInit ==
    /\ part \in {"refresh", "registration", "signins", "stream", "calls", "requests", "codes", "settings"}
    /\ Init /\ Accounts!Init /\ SignIns!Init /\ Codes!Init
    /\ Stream!Init /\ (part # "stream" => sFrom = "codex")
    /\ Calls!Init /\ (part # "calls" => kCall.operation = "codex")
    /\ Asked!Init /\ (part # "requests" => NoRequests)
    /\ Settings!Init /\ (part # "settings" => NoSettings)

-----------------------------------------------------------------------------
RefreshPart == /\ part = "refresh" /\ Next
               /\ UNCHANGED <<part, accounts, signins, stream, calls, requests, codes, settings>>

RegistrationPart == /\ part = "registration" /\ Accounts!Next
                    /\ UNCHANGED <<part, vars, signins, stream, calls, requests, codes, settings>>

SignInPart == /\ part = "signins" /\ SignIns!Next
              /\ UNCHANGED <<part, vars, accounts, stream, calls, requests, codes, settings>>

StreamPart == /\ part = "stream" /\ Stream!Next
              /\ UNCHANGED <<part, vars, accounts, signins, calls, requests, codes, settings>>

CallsPart == /\ part = "calls" /\ Calls!Next
             /\ UNCHANGED <<part, vars, accounts, signins, stream, requests, codes, settings>>

RequestsPart == /\ part = "requests" /\ Asked!Next
                /\ UNCHANGED <<part, vars, accounts, signins, stream, calls, codes, settings>>

CodesPart == /\ part = "codes" /\ Codes!Next
             /\ UNCHANGED <<part, vars, accounts, signins, stream, calls, requests, settings>>

SettingsPart == /\ part = "settings" /\ Settings!Next
                /\ UNCHANGED <<part, vars, accounts, signins, stream, calls, requests, codes>>

PartsNext ==
    RefreshPart \/ RegistrationPart \/ SignInPart \/ StreamPart \/ CallsPart
    \/ RequestsPart \/ CodesPart \/ SettingsPart

PartsSpec ==
    PartsInit
    /\ [][PartsNext]_<<part, vars, accounts, signins, stream, calls, requests, codes, settings>>

-----------------------------------------------------------------------------
(* The variables of every part keep their types. *)
PartsTypeOK ==
    /\ part = "refresh" => TypeOK
    /\ part = "registration" => Accounts!TypeOK
    /\ part = "signins" => SignIns!TypeOK
    /\ part = "stream" => Stream!TypeOK
    /\ part = "calls" => Calls!TypeOK
    /\ part = "requests" => Asked!TypeOK
    /\ part = "codes" => Codes!TypeOK
    /\ part = "settings" => Settings!TypeOK

(* No two accounts have the same e-mail address or name (UserAccounts). *)
OneAccountEach == part = "registration" => Accounts!OneAccountEach

(* When the front end hears "ok", a credential is saved (OAuthSessions). *)
OkMeansSaved == part = "signins" => SignIns!OkMeansSaved

(* The translators tell the client a Claude stream (refinement), and its end *)
(* (ClaudeStream). *)
ProtocolKept == Stream!ProtocolKept /\ [](Stream!EndsProperly)

(* The statistics agree with what became of a call (ExecutorCalls). *)
CallsRecorded == part = "calls" => Calls!CallsRecorded

(* A call that is over has closed what it opened and told the end of it, and *)
(* was given up only after the last upstream (ExecutorCalls).                *)
CallsConclude == part = "calls" => Calls!NothingLeftOpen /\ Calls!UpstreamsExhausted

(* What a provider is sent carries what the client said (Requests). *)
RequestsCarried == part = "requests" => Asked!RequestsCarried

(* Uses and slots are neither given out twice nor lost (Redemption). *)
NothingGivenTwice == part = "codes" => Codes!UsesCoverRedemptions /\ Codes!EverySlotOwned

(* A disabled code stays disabled (Redemption). *)
DisabledForGood == Codes!DisabledForGood

(* An acknowledged edit of the configuration stays (ConfigEdits). *)
EditStays == part = "settings" => Settings!EditStays
=============================================================================
