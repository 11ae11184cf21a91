---------------------------- MODULE OAuthSessions ----------------------------
(***************************************************************************)
(* Signing in through the management API: the store of OAuth sessions      *)
(* (internal/api/handlers/management/oauth_sessions.go), the callbacks     *)
(* that leave a file for the waiting flow (oauth_callback.go, the routes   *)
(* of internal/api/server.go), the goroutine of each flow and the status   *)
(* the front end polls (auth_files.go).                                    *)
(*                                                                         *)
(* A flow stands for its "state" parameter.  An expired session counts as  *)
(* gone at once: whatever looks at the store purges it first.              *)
(***************************************************************************)
EXTENDS Naturals

CONSTANTS
    Flows, Kinds,  \* flows, and whose functions below they may run
    Handlers,      \* callback requests at one time
    WaitLimit, TTL, \* ticks a flow waits for its callback, a session lives
    None

(* What the flows of auth_files.go differ in: whether they wait for a        *)
(* callback file, check the state in it, insist on a code in it, and end the *)
(* other sessions of their provider.                                         *)
RequestAnthropicToken ==
    [provider |-> "anthropic", waits |-> TRUE, checksState |-> TRUE, needsCode |-> FALSE, endsOthers |-> TRUE]
RequestGeminiCLIToken ==
    [provider |-> "gemini", waits |-> TRUE, checksState |-> FALSE, needsCode |-> TRUE, endsOthers |-> TRUE]
RequestCodexToken ==
    [provider |-> "codex", waits |-> TRUE, checksState |-> TRUE, needsCode |-> FALSE, endsOthers |-> TRUE]
RequestAntigravityToken ==
    [provider |-> "antigravity", waits |-> TRUE, checksState |-> FALSE, needsCode |-> TRUE, endsOthers |-> TRUE]
RequestQwenToken ==
    [provider |-> "qwen", waits |-> FALSE, checksState |-> FALSE, needsCode |-> FALSE, endsOthers |-> FALSE]
RequestKimiToken ==
    [provider |-> "kimi", waits |-> FALSE, checksState |-> FALSE, needsCode |-> FALSE, endsOthers |-> TRUE]
RequestIFlowToken ==
    [provider |-> "iflow", waits |-> TRUE, checksState |-> TRUE, needsCode |-> TRUE, endsOthers |-> TRUE]

RequestToken ==
    {RequestAnthropicToken, RequestGeminiCLIToken, RequestCodexToken, RequestAntigravityToken,
     RequestQwenToken, RequestKimiToken, RequestIFlowToken}

VARIABLES
    session, \* oauthSessionStore.sessions
    file,    \* the callback file of each flow
    flow,    \* the goroutines: which function, where in it, how long it still waits
    handler, \* callback requests
    saved,   \* flows whose credential is saved
    expired  \* flows whose session has expired (history)

vars == <<session, file, flow, handler, saved, expired>>

Session == [status : {"", "error"}, left : 0..TTL]

BoundsAssumption ==
    WaitLimit \in Nat /\ TTL \in Nat /\ None \notin RequestToken \cup Session

Payloads == {"code", "error", "blank"}  \* blank: neither a code nor an error
IdleHandler == [pc |-> "idle", flow |-> None, payload |-> None]
Over == {"new", "refused", "done"}

TypeOK ==
    /\ session \in [Flows -> Session \cup {None}]
    /\ file \in [Flows -> Payloads \cup {"torn", None}]
    /\ flow \in [Flows -> [kind : RequestToken \cup {None},
                           pc : Over \cup {"waiting", "exchanging", "saving", "complete", "others"},
                           left : 0..WaitLimit]]
    /\ handler \in [Handlers -> [pc : {"idle", "checked", "writing"}, flow : Flows \cup {None},
                                 payload : Payloads \cup {None}]]
    /\ saved \subseteq Flows /\ expired \subseteq Flows

Init ==
    /\ session = [f \in Flows |-> None] /\ file = [f \in Flows |-> None]
    /\ flow = [f \in Flows |-> [kind |-> None, pc |-> "new", left |-> WaitLimit]]
    /\ handler = [h \in Handlers |-> IdleHandler]
    /\ saved = {} /\ expired = {}

IsPending(f) == session[f] # None /\ session[f].status = ""
SetError(f) ==
    session' = IF session[f] = None THEN session
               ELSE [session EXCEPT ![f] = [status |-> "error", left |-> TTL]]
Goto(f, label) == flow' = [flow EXCEPT ![f].pc = label]
Starts(f, k, label) == flow' = [flow EXCEPT ![f].kind = k, ![f].pc = label]
Kind(f) == flow[f].kind
Provider(f) == IF Kind(f) = None THEN None ELSE Kind(f).provider
Fails(f) == SetError(f) /\ Goto(f, "done")

-----------------------------------------------------------------------------
(* RequestXToken registers the session and starts the goroutine, unless the *)
(* callback forwarder cannot be started: then the session is just left.     *)
Request(f) ==
    /\ flow[f].pc = "new"
    /\ session' = [session EXCEPT ![f] = [status |-> "", left |-> TTL]]
    /\ \E k \in RequestToken :
          /\ k.provider \in Kinds
          /\ \/ Starts(f, k, IF k.waits THEN "waiting" ELSE "exchanging")
             \/ k.waits /\ Starts(f, k, "refused")
    /\ UNCHANGED <<file, handler, saved, expired>>

(* The callback routes and PostOAuthCallback: a pending session, ...         *)
CheckPending(h, f) ==
    /\ handler[h].pc = "idle" /\ IsPending(f)
    /\ \E p \in Payloads : handler' = [handler EXCEPT ![h] = [pc |-> "checked", flow |-> f, payload |-> p]]
    /\ UNCHANGED <<session, file, flow, saved, expired>>

(* ... then os.WriteFile, which truncates before it writes; what it writes   *)
(* is lost when the file has been removed since.                             *)
OpenCallbackFile(h) ==
    /\ handler[h].pc = "checked"
    /\ file' = [file EXCEPT ![handler[h].flow] = "torn"]
    /\ handler' = [handler EXCEPT ![h].pc = "writing"]
    /\ UNCHANGED <<session, flow, saved, expired>>

WriteCallbackFile(h) ==
    /\ handler[h].pc = "writing"
    /\ file' = IF file[handler[h].flow] = None THEN file
               ELSE [file EXCEPT ![handler[h].flow] = handler[h].payload]
    /\ handler' = [handler EXCEPT ![h] = IdleHandler]
    /\ UNCHANGED <<session, flow, saved, expired>>

(* A round of the flow's loop: it gives up when the session is not pending   *)
(* or the wait has been too long, or takes the file.  A torn file has        *)
(* neither state nor code.                                                   *)
Poll(f) ==
    /\ flow[f].pc = "waiting"
    /\ \/ /\ ~IsPending(f)
          /\ Goto(f, "done")
          /\ UNCHANGED <<session, file>>
       \/ /\ IsPending(f) /\ flow[f].left = 0
          /\ Fails(f)
          /\ UNCHANGED file
       \/ /\ IsPending(f) /\ flow[f].left > 0 /\ file[f] # None
          /\ file' = [file EXCEPT ![f] = None]
          /\ IF \/ file[f] = "error"
                \/ file[f] = "torn" /\ (Kind(f).checksState \/ Kind(f).needsCode)
                \/ file[f] = "blank" /\ Kind(f).needsCode
             THEN Fails(f)
             ELSE Goto(f, "exchanging") /\ UNCHANGED session
    /\ UNCHANGED <<handler, saved, expired>>

(* ExchangeCodeForTokens and the calls after it, or a device flow's polling. *)
Exchange(f) ==
    /\ flow[f].pc = "exchanging"
    /\ \/ Fails(f)
       \/ Goto(f, "saving") /\ UNCHANGED session
    /\ UNCHANGED <<file, handler, saved, expired>>

CompleteEarly(f) ==  \* mutant: the session is completed before the save
    /\ flow[f].pc = "saving"
    /\ session' = [session EXCEPT ![f] = None]
    /\ \/ saved' = saved \cup {f} /\ Goto(f, "others")
       \/ UNCHANGED saved /\ Goto(f, "done")
    /\ UNCHANGED <<file, handler, expired>>

SaveTokenRecord(f) ==
    /\ flow[f].pc = "saving"
    /\ \/ Fails(f) /\ UNCHANGED saved
       \/ saved' = saved \cup {f} /\ Goto(f, "complete") /\ UNCHANGED session
    /\ UNCHANGED <<file, handler, expired>>

CompleteSession(f) ==
    /\ flow[f].pc = "complete"
    /\ session' = [session EXCEPT ![f] = None]
    /\ Goto(f, IF Kind(f).endsOthers THEN "others" ELSE "done")
    /\ UNCHANGED <<file, handler, saved, expired>>

EndAll(f) ==  \* mutant: the sessions of every provider end
    /\ flow[f].pc = "others"
    /\ session' = [g \in Flows |-> None]
    /\ Goto(f, "done")
    /\ UNCHANGED <<file, handler, saved, expired>>

CompleteProvider(f) ==
    /\ flow[f].pc = "others"
    /\ session' = [g \in Flows |-> IF Provider(g) = Provider(f) THEN None ELSE session[g]]
    /\ Goto(f, "done")
    /\ UNCHANGED <<file, handler, saved, expired>>

-----------------------------------------------------------------------------
Lapsed == {f \in Flows : session[f] # None /\ session[f].left = 0}

Tick ==
    /\ session' = [f \in Flows |-> IF session[f] = None \/ f \in Lapsed THEN None
                                   ELSE [session[f] EXCEPT !.left = @ - 1]]
    /\ flow' = [f \in Flows |-> IF flow[f].pc = "waiting" /\ flow[f].left > 0
                                THEN [flow[f] EXCEPT !.left = @ - 1] ELSE flow[f]]
    /\ expired' = expired \cup Lapsed
    /\ UNCHANGED <<file, handler, saved>>

Callback(h) == OpenCallbackFile(h) \/ WriteCallbackFile(h) \/ \E f \in Flows : CheckPending(h, f)
Flow(f) == Request(f) \/ Poll(f) \/ Exchange(f) \/ SaveTokenRecord(f) \/ CompleteSession(f) \/ CompleteProvider(f)

Next ==
    \/ \E f \in Flows : Flow(f)
    \/ \E h \in Handlers : Callback(h)
    \/ Tick

Spec == Init /\ [][Next]_vars

-----------------------------------------------------------------------------
(* What GetAuthStatus tells the front end. *)
GetAuthStatus(f) ==
    IF session[f] = None THEN "ok" ELSE IF session[f].status # "" THEN "error" ELSE "wait"

(* "ok" is all the front end hears of a session that is no longer there     *)
(* (GetAuthStatus, auth_files.go 2455).  Until the session has expired it   *)
(* means that a credential was saved: the one of this flow, or one of the   *)
(* same provider, for a flow that succeeds ends all of its provider's       *)
(* sessions, those that still wait or have failed as well (1540).           *)
OkMeansSaved ==
    \A f \in Flows : flow[f].pc # "new" /\ f \notin expired /\ GetAuthStatus(f) = "ok" =>
        \/ f \in saved
        \/ \E g \in saved : Provider(g) = Provider(f) /\ Kind(g).endsOthers
=============================================================================
