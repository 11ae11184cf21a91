----------------------------- MODULE Subsystems -----------------------------
(***************************************************************************)
(* The smaller subsystems, each beside the others.  They share no state:   *)
(* to check each of them on its own, "part" says which one moves in a      *)
(* behaviour and the others rest in their initial states, in which nothing *)
(* has to happen.  What one of them may do is its module's Next, and what  *)
(* it has to do is its module's Fairness.                                  *)
(***************************************************************************)
EXTENDS RegistryLock, CircuitBreaker

CONSTANTS
    None,  \* what is absent, in any part
    \* ConfigReload
    Reloaders, MaxEdits, NoHash, Default, Handler, Deferred,
    ConfigTiming,  \* what is assumed of its timing
    \* WsRelay
    Relayed, Capacity, MaxChunks,
    \* Usage
    Records, Failing, TokensOf, MaxImports, NoRecord,
    \* CodexSession
    CodexRequests, MaxConns, Streams

VARIABLES
    part,
    \* AuthRefresh, token refresh with one slot
    rAuths, rFiles, rDue, rJobs, rEdits, rSync, rIssued, rLapsed, rStopped, rMissed,
    \* ConfigReload
    cFile, cTorn, cNotified, cTimer, cHash, cConfig, cJob, cRecent, cPend, cOwed, cServed, cStopped,
    cCrossed,
    \* WsRelay
    wSession, wPooled, wPending, wChan, wShut, wCancelled, wCaller, wWatch, wClient, wReader, wPanicked,
    \* Usage
    uPublisher, uQueue, uClosed, uWorker, uWaiting, uAccepted, uEnabled, uStats, uExported, uImports,
    \* UserAccounts
    aUsers, aCodes, aSends, aReg, aLogin, aUpdate, aAccess, aRefresh, aDecided,
    \* CodexSession
    xReqMu, xConn, xDialed, xOpen, xUpstream, xActive, xChan, xClosed, xReader, xReq, xHeard, xPanicked

Refresh == INSTANCE AuthRefresh WITH
    Creds <- {"c1", "c2"}, Refreshers <- {"j1", "j2"}, Operators <- {}, Edits <- {},
    Slots <- 1, PendingWait <- 1, FailureWait <- 2, MaxToken <- 1, Results <- {},
    Watching <- FALSE, Restarts <- FALSE, SavesFail <- FALSE, Prompt <- FALSE, Apart <- FALSE,
    None <- None,
    auths <- rAuths, files <- rFiles, due <- rDue, jobs <- rJobs, edits <- rEdits, sync <- rSync,
    issued <- rIssued, lapsed <- rLapsed, stopped <- rStopped, missed <- rMissed

Config == INSTANCE ConfigReload WITH
    Reloaders <- Reloaders, MaxEdits <- MaxEdits, Assume <- ConfigTiming,
    NoHash <- NoHash, Default <- Default, Handler <- Handler, Deferred <- Deferred,
    file <- cFile, torn <- cTorn, notified <- cNotified, timer <- cTimer, hash <- cHash,
    config <- cConfig, job <- cJob, recent <- cRecent, pend <- cPend, owed <- cOwed,
    served <- cServed, stopped <- cStopped, crossed <- cCrossed

Relay == INSTANCE WsRelay WITH
    Requests <- Relayed, Capacity <- Capacity, MaxChunks <- MaxChunks,
    Assume <- {"lookups_apart", "callers_keep_up"},
    session <- wSession, pooled <- wPooled, pending <- wPending, chan <- wChan, shut <- wShut,
    cancelled <- wCancelled, caller <- wCaller, watch <- wWatch, client <- wClient,
    reader <- wReader, panicked <- wPanicked

Usage == INSTANCE Usage WITH
    Records <- Records, Failing <- Failing, Tokens <- TokensOf, MaxImports <- MaxImports,
    NoRecord <- NoRecord,
    publisher <- uPublisher, queue <- uQueue, closed <- uClosed, worker <- uWorker,
    waiting <- uWaiting, accepted <- uAccepted, enabled <- uEnabled, stats <- uStats,
    exported <- uExported, imports <- uImports

Accounts == INSTANCE UserAccounts WITH
    Names <- {"n1"}, Emails <- {"e1"}, NoEmail <- "", Ids <- {1},
    Registrations <- {"s1"}, Logins <- {"l1"}, Updates <- {"u1"}, MaxSends <- 1,
    ResendAfter <- 1, CodeLife <- 1, AccessLife <- 1, RefreshLife <- 1, Apart <- TRUE, None <- None,
    users <- aUsers, codes <- aCodes, sends <- aSends, reg <- aReg, login <- aLogin,
    update <- aUpdate, access <- aAccess, refresh <- aRefresh, decided <- aDecided

Codex == INSTANCE CodexSession WITH
    Requests <- CodexRequests, MaxConns <- MaxConns, Streams <- Streams,
    Assume <- {"upgrades", "readers_apart", "steady_writes", "patience"}, None <- None,
    reqMu <- xReqMu, conn <- xConn, dialed <- xDialed, open <- xOpen, upstream <- xUpstream,
    active <- xActive, chan <- xChan, closed <- xClosed, reader <- xReader, req <- xReq,
    heard <- xHeard, panicked <- xPanicked

ASSUME ConfigAssumption == Config!NamesAssumption
ASSUME RelayAssumption == Relay!BoundsAssumption
ASSUME UsageAssumption == Usage!RecordsAssumption
ASSUME CodexAssumption == Codex!SessionAssumption

\* What a record counts, for TLC.
Costs == [r \in Records |-> r]

lock == vars
refresh == <<rAuths, rFiles, rDue, rJobs, rEdits, rSync, rIssued, rLapsed, rStopped, rMissed>>
config == <<cFile, cTorn, cNotified, cTimer, cHash, cConfig, cJob, cRecent, cPend, cOwed, cServed, cStopped,
            cCrossed>>
relay == <<wSession, wPooled, wPending, wChan, wShut, wCancelled, wCaller, wWatch, wClient, wReader, wPanicked>>
usage == <<uPublisher, uQueue, uClosed, uWorker, uWaiting, uAccepted, uEnabled, uStats, uExported, uImports>>
accounts == <<aUsers, aCodes, aSends, aReg, aLogin, aUpdate, aAccess, aRefresh, aDecided>>
codex == <<xReqMu, xConn, xDialed, xOpen, xUpstream, xActive, xChan, xClosed, xReader, xReq, xHeard, xPanicked>>

Parts == {"lock", "breaker", "refresh", "config", "relay", "usage", "tokens", "codex"}

AllInit ==
    /\ part \in Parts
    /\ Init /\ BreakerInit /\ Refresh!Init /\ Config!Init /\ Relay!Init /\ Usage!Init
    /\ Accounts!Init /\ Codex!Init

-----------------------------------------------------------------------------
LockStep == /\ part = "lock" /\ Next
            /\ UNCHANGED <<part, breaker, refresh, config, relay, usage, accounts, codex>>

BreakerStep == /\ part = "breaker" /\ BreakerNext
               /\ UNCHANGED <<part, lock, refresh, config, relay, usage, accounts, codex>>

RefreshStep == /\ part = "refresh" /\ Refresh!Next
               /\ UNCHANGED <<part, lock, breaker, config, relay, usage, accounts, codex>>

ConfigStep == /\ part = "config" /\ Config!Next
              /\ UNCHANGED <<part, lock, breaker, refresh, relay, usage, accounts, codex>>

RelayStep == /\ part = "relay" /\ Relay!Next
             /\ UNCHANGED <<part, lock, breaker, refresh, config, usage, accounts, codex>>

UsageStep == /\ part = "usage" /\ Usage!Next
             /\ UNCHANGED <<part, lock, breaker, refresh, config, relay, accounts, codex>>

TokensStep == /\ part = "tokens" /\ Accounts!Next
              /\ UNCHANGED <<part, lock, breaker, refresh, config, relay, usage, codex>>

CodexStep == /\ part = "codex" /\ Codex!Next
             /\ UNCHANGED <<part, lock, breaker, refresh, config, relay, usage, accounts>>

AllNext ==
    \/ LockStep \/ BreakerStep \/ RefreshStep \/ ConfigStep \/ RelayStep \/ UsageStep
    \/ TokensStep \/ CodexStep

everything == <<part, lock, breaker, refresh, config, relay, usage, accounts, codex>>

(* Each part's own fairness; where a part rests nothing of it is enabled,    *)
(* but for the breaker, which always has traffic.                            *)
AllSpec ==
    /\ AllInit /\ [][AllNext]_everything
    /\ WF_breaker(part = "breaker" /\ Tick)
    /\ \A c \in Senders : WF_breaker(part = "breaker" /\ SenderStep(c))
    /\ Refresh!Fairness /\ Config!Fairness /\ Relay!Fairness /\ Usage!Fairness
    /\ Accounts!Fairness /\ Codex!Fairness

-----------------------------------------------------------------------------
(* The variables of every part keep their types. *)
AllTypeOK ==
    /\ part \in Parts
    /\ TypeOK /\ BreakerTypeOK /\ Refresh!TypeOK /\ Config!TypeOK /\ Relay!TypeOK /\ Usage!TypeOK
    /\ Accounts!TypeOK /\ Codex!TypeOK

(* An open circuit is probed in the end (CircuitBreaker), and an enabled     *)
(* credential close to its expiry is tried again and again (AuthRefresh,     *)
(* checkRefreshes and its backoffs, with one slot).                          *)
TriedAgain == EventuallyProbed /\ Refresh!AlwaysTriedAgain

(* At rest the service, the server and the selector go by one configuration, *)
(* as long as no callback of a reload has begun in the middle of another one *)
(* (ConfigReload).                                                           *)
OneConfigServed == Config!OneConfigServed

(* What config.yaml says is served in the end, and the update of the         *)
(* server's clients that a change of a file owes is made, however often the  *)
(* timer is armed again (ConfigReload); a record the queue of the usage      *)
(* manager has accepted reaches the plugins (Usage).                         *)
Delivered == Config!EditsServed /\ Config!UpdatesDelivered /\ Usage!AcceptedDispatched

(* No goroutine of the relay or of a Codex session sends on a closed channel *)
(* or asserts the type of what is not there (WsRelay, CodexSession).         *)
NoPanic == Relay!NoPanic /\ Codex!NoPanic

(* A relayed answer taken for a success has every piece (WsRelay), and a     *)
(* request to a Codex session hears events of its own answer only            *)
(* (CodexSession).                                                           *)
AnswersIntact == Relay!SuccessIsComplete /\ Codex!OwnAnswerOnly

(* Every caller of the relay gets an end, also when the session breaks, and  *)
(* nothing of it stays in the table of pending requests (WsRelay); a request *)
(* to a Codex session does not wait for ever (CodexSession).                 *)
SessionsServe == Relay!CallersReturn /\ Relay!NothingLeftPending /\ Codex!SessionServes

(* The statistics count a record once, also when exports are imported again  *)
(* (Usage).                                                                  *)
RecordsCounted == Usage!EachCountedOnce

(* A banned user is left without a token in the end (UserAccounts).          *)
BansTakeEffect == Accounts!BansTakeEffect
=============================================================================
