----------------------------- MODULE ExecutorCalls ----------------------------
(***************************************************************************)
(* What an executor does with one call: internal/runtime/executor.  Each   *)
(* Execute, ExecuteStream and CountTokens is the list of the steps it goes *)
(* through, in the order of the code; the steps are the same for all, and  *)
(* what they do is below.  Several upstreams (the base URLs of             *)
(* antigravity, the models of gemini-cli) are tried one after the other.   *)
(*                                                                         *)
(* A call that is made is recorded for the usage statistics, once          *)
(* (usageReporter.once), by whichever of its steps comes first.  An HTTP   *)
(* body must be closed, by the call or by the goroutine that streams it.   *)
(*                                                                         *)
(* Upstreams answer anything and break off anywhere.  What is translated,  *)
(* and how, is left out.                                                   *)
(***************************************************************************)
EXTENDS Naturals, Sequences, FiniteSets, SequencesExt

CONSTANTS
    BaseURLs,    \* of antigravity, 2 in the code, 1 if one is configured
    Retries,     \* request-retry
    MaxLines,    \* lines of a stream (bound)
    RateLimit,   \* qwenRateLimitPerMin, 60 in the code
    Assume       \* what is assumed of the upstreams, see Assumptions

Assumptions ==
    {"decodable_errors"}  \* the body of an error can be decoded as its Content-Encoding says

BoundsAssumption ==
    /\ BaseURLs \in Nat \ {0} /\ Retries \in Nat /\ MaxLines \in Nat /\ RateLimit \in Nat \ {0}
    /\ Assume \subseteq Assumptions

VARIABLES
    call,    \* the call under way: what is left of it and what it has done
    window,  \* qwenRateLimiter.requests of the credential, those of the last minute
    models   \* antigravityPrimaryModelsCache holds some

vars == <<call, window, models>>

-----------------------------------------------------------------------------
(* The operations.  Where an answer is not a stream all of it is read.      *)
ClaudeExecute ==
    <<"refuse", "report", "prepare", "send", "check_decoded", "decode", "defer", "read", "usage", "return">>
ClaudeExecuteStream ==
    <<"refuse", "report", "prepare", "send", "check_decoded", "decode", "spawn", "lines", "broken", "close">>
ClaudeCountTokens ==
    <<"prepare", "send", "check_decoded", "decode", "defer", "read", "return">>

CodexExecute ==
    <<"report", "prepare", "send", "defer", "check", "read", "completed", "usage", "return">>
CodexExecuteCompact ==
    <<"report", "prepare", "send", "defer", "check", "read", "usage", "ensure", "return">>
CodexExecuteStream ==
    <<"refuse", "report", "prepare", "send", "check_read", "spawn", "lines", "broken", "close">>
CodexCountTokens == <<"prepare", "tokenize", "return">>

GeminiExecute ==
    <<"refuse", "report", "prepare", "send", "defer", "check", "read", "usage", "return">>
GeminiExecuteStream ==
    <<"refuse", "report", "prepare", "send", "check", "spawn", "lines", "tail", "broken", "close">>
GeminiCountTokens ==
    <<"prepare", "send", "defer", "read", "check", "return">>

(* With a service account: the credentials, and a token just before it is   *)
(* used.                                                                    *)
VertexDispatch == <<"refuse", "credentials">>
VertexExecuteAccount ==
    VertexDispatch \o <<"report", "prepare", "token", "send", "defer", "check", "read", "usage", "return">>
VertexExecuteKey ==
    <<"refuse", "report", "prepare", "send", "defer", "check", "read", "usage", "return">>
VertexStreamAccount ==
    VertexDispatch \o
    <<"report", "prepare", "token", "send", "check", "spawn", "lines", "tail", "broken", "close">>
VertexStreamKey ==
    <<"refuse", "report", "prepare", "send", "check", "spawn", "lines", "tail", "broken", "close">>
VertexCountAccount ==
    <<"credentials", "prepare", "token", "send", "defer", "check", "read", "return">>
VertexCountKey == <<"prepare", "send", "defer", "check", "read", "return">>

(* The loop over preview models has one pass, cliPreviewFallbackOrder names *)
(* none.                                                                    *)
GeminiCLIExecute ==
    <<"refuse", "token", "report", "prepare", "token", "send", "read_close", "check", "usage", "return">>
GeminiCLIExecuteStream ==
    <<"refuse", "token", "report", "prepare", "token", "send", "check_read", "spawn", "alt",
      "lines", "tail", "broken", "close">>
GeminiCLIWhole == <<"whole", "tail", "close">>
GeminiCLICountTokens ==
    <<"token", "prepare", "token", "send", "read_close", "check", "return">>

(* The base URLs are tried while they cannot be reached, answer 429 or have *)
(* no capacity; in the last case all of them are tried again after a while. *)
AntigravityExecute ==
    <<"refuse", "token", "report", "prepare", "send", "read_close", "check_base", "usage", "ensure", "return">>
AntigravityExecuteClaude ==
    <<"refuse", "token", "report", "prepare", "send", "check_base_read", "lines", "broken", "ensure_whole",
      "close_body", "collect", "usage", "ensure", "return">>
AntigravityExecuteStream ==
    <<"refuse", "token", "report", "prepare", "send", "check_base_read", "spawn", "lines", "tail",
      "broken", "ensure_whole", "close">>
AntigravityCountTokens ==
    <<"token", "prepare", "send", "read_close", "check_base", "return">>
AntigravityFetchModels == <<"token", "send", "read_close", "check_models", "return">>

OpenAICompatExecute ==
    <<"report", "credentials", "prepare", "send", "defer", "check", "read", "usage", "ensure", "return">>
OpenAICompatExecuteStream ==
    <<"report", "credentials", "prepare", "send", "check", "spawn", "lines", "broken", "ensure", "close">>
OpenAICompatCountTokens == <<"prepare", "tokenize", "return">>

(* A conversation in Claude's format goes to the Claude executor.           *)
KimiExecute ==
    <<"report", "prepare", "send", "defer", "check", "read", "usage", "return">>
KimiExecuteStream ==
    <<"report", "prepare", "send", "check", "spawn", "lines", "tail", "broken", "close">>

QwenExecute ==
    <<"refuse", "limit", "report", "prepare", "send", "defer", "check", "read", "usage", "return">>
QwenExecuteStream ==
    <<"refuse", "limit", "report", "prepare", "send", "check", "spawn", "lines", "tail", "broken", "close">>
QwenCountTokens == <<"tokenize", "return">>

IFlowExecute ==
    <<"refuse", "credentials", "report", "prepare", "send", "defer", "check", "read", "usage", "ensure", "return">>
IFlowExecuteStream ==
    <<"refuse", "credentials", "report", "prepare", "send", "check", "spawn", "lines", "broken", "ensure",
      "close">>
IFlowCountTokens == <<"tokenize", "return">>

(* Through the relay there is no body: it hands over all of an answer, or   *)
(* its events.                                                              *)
AIStudioExecute == <<"refuse", "report", "prepare", "relay", "usage", "return">>
AIStudioExecuteStream ==
    <<"refuse", "report", "prepare", "relay", "spawn", "lines", "broken", "close">>
AIStudioCountTokens == <<"prepare", "relay", "total", "return">>

Steps ==
    [claude |-> ClaudeExecute, claude_stream |-> ClaudeExecuteStream, claude_count |-> ClaudeCountTokens,
     codex |-> CodexExecute, codex_compact |-> CodexExecuteCompact, codex_stream |-> CodexExecuteStream,
     codex_count |-> CodexCountTokens,
     gemini |-> GeminiExecute, gemini_stream |-> GeminiExecuteStream, gemini_count |-> GeminiCountTokens,
     vertex_account |-> VertexExecuteAccount, vertex_key |-> VertexExecuteKey,
     vertex_account_stream |-> VertexStreamAccount, vertex_key_stream |-> VertexStreamKey,
     vertex_account_count |-> VertexCountAccount, vertex_key_count |-> VertexCountKey,
     cli |-> GeminiCLIExecute, cli_stream |-> GeminiCLIExecuteStream, cli_count |-> GeminiCLICountTokens,
     antigravity |-> AntigravityExecute, antigravity_claude |-> AntigravityExecuteClaude,
     antigravity_stream |-> AntigravityExecuteStream, antigravity_count |-> AntigravityCountTokens,
     antigravity_models |-> AntigravityFetchModels,
     compat |-> OpenAICompatExecute, compat_stream |-> OpenAICompatExecuteStream,
     compat_count |-> OpenAICompatCountTokens,
     kimi |-> KimiExecute, kimi_stream |-> KimiExecuteStream,
     qwen |-> QwenExecute, qwen_stream |-> QwenExecuteStream, qwen_count |-> QwenCountTokens,
     iflow |-> IFlowExecute, iflow_stream |-> IFlowExecuteStream, iflow_count |-> IFlowCountTokens,
     aistudio |-> AIStudioExecute, aistudio_stream |-> AIStudioExecuteStream,
     aistudio_count |-> AIStudioCountTokens]

Operations == DOMAIN Steps

StepNames ==
    {"refuse", "limit", "report", "prepare", "credentials", "token", "tokenize", "send", "relay",
     "defer", "check", "check_read", "check_decoded", "check_base", "check_base_read", "check_models",
     "decode", "read", "read_close", "completed", "total", "usage", "ensure", "ensure_whole", "return",
     "spawn", "alt", "lines", "whole", "tail", "broken", "close", "close_body", "collect"}

(* The operations that try one base URL after another.                      *)
OverBaseURLs ==
    {"antigravity", "antigravity_claude", "antigravity_stream", "antigravity_count", "antigravity_models"}

Responses == {"ok", "quota", "busy", "error"}   \* 2xx; 429; 503 without capacity; others
Unheard == {"unreachable", "cancelled", "unreadable"}
Failures == {"refused", "quota", "busy", "error", "incomplete"} \cup Unheard
CallResults == {"none", "answer", "stream", "cached"} \cup Failures

NewCall(o) ==
    [operation |-> o, steps |-> Steps[o],
     upstream |-> 1, attempt |-> 0,   \* the base URL in use, the attempts before this one
     outcomes |-> <<>>,               \* what became of the requests sent, in order
     reported |-> FALSE,              \* newUsageReporter was called and trackFailure is deferred
     record |-> "none",               \* the usage record
     told |-> FALSE,                  \* an upstream has told its usage
     deferred |-> FALSE,              \* closing the body is deferred
     body |-> "none",                 \* that of the last response
     broken |-> FALSE,                \* the stream could not be read to its end
     lines |-> 0,                     \* read of a stream
     out |-> <<>>,                    \* what was sent on the channel
     result |-> "none"]

TypeOK ==
    /\ call \in [operation : Operations, steps : Seq(StepNames),
                upstream : 1..BaseURLs, attempt : 0..Retries, outcomes : Seq(Responses \cup Unheard),
                reported : BOOLEAN, record : {"none", "usage", "failure", "empty"}, told : BOOLEAN,
                deferred : BOOLEAN, body : {"none", "open", "closed"}, broken : BOOLEAN,
                lines : 0..MaxLines, out : Seq({"piece", "error", "closed"}), result : CallResults]
    /\ window \in 0..RateLimit /\ models \in BOOLEAN

Init ==
    /\ \E o \in Operations : call = NewCall(o)
    /\ window = 0 /\ models = FALSE

-----------------------------------------------------------------------------
At(step) == call.steps # <<>> /\ Head(call.steps) = step
Over == call.steps = <<>>
Advanced == [call EXCEPT !.steps = Tail(@)]

(* publish, publishFailure and ensurePublished: the first one counts, and   *)
(* usage of no tokens does not.                                             *)
Publish(c, found) ==
    [c EXCEPT !.told = @ \/ found, !.record = IF found /\ @ = "none" THEN "usage" ELSE @]
PublishFailure(c) == [c EXCEPT !.record = IF @ = "none" THEN "failure" ELSE @]
EnsurePublished(c) == [c EXCEPT !.record = IF @ = "none" THEN "empty" ELSE @]

CloseBody(c) == [c EXCEPT !.body = IF @ = "open" THEN "closed" ELSE @]

ReturnUntracked(c, r) ==  \* mutant: trackFailure is not deferred
    LET returned == [c EXCEPT !.steps = <<>>, !.result = r]
    IN IF c.deferred THEN CloseBody(returned) ELSE returned

(* A return runs what is deferred: trackFailure, and the body's Close.      *)
Return(c, r) ==
    LET returned == [c EXCEPT !.steps = <<>>, !.result = r]
        tracked == IF c.reported /\ r \in Failures THEN PublishFailure(returned) ELSE returned
    IN IF c.deferred THEN CloseBody(tracked) ELSE tracked

-----------------------------------------------------------------------------
(* The next call; older requests of the credential leave the window.        *)
Begin(o) == Over /\ call' = NewCall(o) /\ UNCHANGED <<window, models>>

MinutePasses == window > 0 /\ window' = window - 1 /\ UNCHANGED <<call, models>>

(* What may fail before anything is sent: an endpoint the provider does not *)
(* have, missing credentials, a token that cannot be had, a request that    *)
(* cannot be translated or built, tokens that cannot be counted.            *)
Fallible == {"refuse", "credentials", "token", "prepare", "tokenize"}

Pass ==
    /\ \E step \in Fallible : At(step)
    /\ call' = Advanced
    /\ UNCHANGED <<window, models>>

GiveUp ==
    /\ \E step \in Fallible : At(step)
    /\ call' = Return(call, IF call.operation = "antigravity_models" THEN "cached" ELSE "refused")
    /\ UNCHANGED <<window, models>>

(* checkQwenRateLimit.                                                      *)
Limit ==
    /\ At("limit")
    /\ IF window < RateLimit THEN window' = window + 1 /\ call' = Advanced
       ELSE UNCHANGED window /\ call' = Return(call, "refused")
    /\ UNCHANGED models

(* newUsageReporter.                                                        *)
Report ==
    /\ At("report")
    /\ call' = [Advanced EXCEPT !.reported = TRUE]
    /\ UNCHANGED <<window, models>>

-----------------------------------------------------------------------------
(* The base URL or the attempt after this one; both start at "send" again.  *)
HasNextURLShort(c) ==  \* mutant: the last base URL is left out
    c.operation \in OverBaseURLs /\ c.upstream + 1 < BaseURLs

HasNextURL(c) == c.operation \in OverBaseURLs /\ c.upstream < BaseURLs

FromSend(c) ==
    LET all == Steps[c.operation] IN SubSeq(all, SelectInSeq(all, LAMBDA s : s = "send"), Len(all))

NextURL(c) == [c EXCEPT !.upstream = @ + 1, !.steps = FromSend(c)]
NextAttempt(c) == [c EXCEPT !.upstream = 1, !.attempt = @ + 1, !.steps = FromSend(c)]

(* Nothing came back.                                                       *)
Unanswered(c, why) ==
    IF c.operation = "antigravity_models" /\ (why = "cancelled" \/ ~ HasNextURL(c)) THEN Return(c, "cached")
    ELSE IF why # "cancelled" /\ HasNextURL(c) THEN NextURL(c)
    ELSE Return(c, why)

Send ==
    /\ At("send")
    /\ \/ \E s \in Responses :
             call' = [Advanced EXCEPT !.outcomes = Append(@, s), !.body = "open"]
       \/ \E why \in {"unreachable", "cancelled"} :
             call' = Unanswered([call EXCEPT !.outcomes = Append(@, why)], why)
    /\ UNCHANGED <<window, models>>

(* The relay answers all at once, or with a first event.                    *)
SendByRelay ==
    /\ At("relay")
    /\ \/ call' = [Advanced EXCEPT !.outcomes = Append(@, "ok")]
       \/ \E why \in {"unreachable", "cancelled", "error"} :
             call' = Return([call EXCEPT !.outcomes = Append(@, why)], why)
       \/ call' = Return([call EXCEPT !.outcomes = Append(@, "ok")], "incomplete")
    /\ UNCHANGED <<window, models>>

Defer ==
    /\ At("defer")
    /\ call' = [Advanced EXCEPT !.deferred = TRUE]
    /\ UNCHANGED <<window, models>>

Status == Last(call.outcomes)

CheckLeavesBody ==  \* mutant: the body of an error is left open
    /\ At("check")
    /\ call' = IF Status = "ok" THEN Advanced ELSE Return(call, Status)
    /\ UNCHANGED <<window, models>>

(* An error status: the body is read as far as it goes, and closed.         *)
Check ==
    /\ At("check")
    /\ call' = IF Status = "ok" THEN Advanced ELSE Return(CloseBody(call), Status)
    /\ UNCHANGED <<window, models>>

(* Where the error of reading it comes first.                               *)
CheckRead ==
    /\ At("check_read")
    /\ \/ Status = "ok" /\ call' = Advanced
       \/ Status # "ok" /\ \E r \in {Status, "unreadable"} : call' = Return(CloseBody(call), r)
    /\ UNCHANGED <<window, models>>

(* Where it is decoded first; a body that cannot be decoded stays open.     *)
CheckDecoded ==
    /\ At("check_decoded")
    /\ \/ Status = "ok" /\ call' = Advanced
       \/ /\ Status # "ok"
          /\ \E decodable \in IF "decodable_errors" \in Assume THEN {TRUE} ELSE BOOLEAN :
                call' = Return(IF decodable THEN CloseBody(call) ELSE call, Status)
    /\ UNCHANGED <<window, models>>

Decode ==
    /\ At("decode")
    /\ call' = Advanced \/ call' = Return(CloseBody(call), "unreadable")
    /\ UNCHANGED <<window, models>>

-----------------------------------------------------------------------------
(* All of the body; antigravity and gemini-cli close it before they look at *)
(* what it says.                                                            *)
Read ==
    /\ At("read")
    /\ call' = Advanced \/ call' = Return(call, "unreadable")
    /\ UNCHANGED <<window, models>>

ReadAndClose ==
    LET closed == CloseBody(call) IN
    /\ At("read_close")
    /\ \/ call' = CloseBody(Advanced)
       \/ call' = IF call.operation = "antigravity_models" THEN Unanswered(closed, "unreadable")
                  ELSE Return(closed, "unreadable")
    /\ UNCHANGED <<window, models>>

(* What is done about an error of antigravity: the next base URL, after the *)
(* last one the next attempt if only capacity was missing, unless the       *)
(* caller goes while it waits; counting tokens asks for none of the latter. *)
AfterError(c) ==
    IF Status = "quota" /\ HasNextURL(c) THEN {NextURL(c)}
    ELSE IF Status # "busy" \/ c.operation = "antigravity_count" THEN {Return(c, Status)}
    ELSE IF HasNextURL(c) THEN {NextURL(c)}
    ELSE IF c.attempt < Retries THEN {NextAttempt(c), Return(c, "cancelled")}
    ELSE {Return(c, Status)}

CheckBase ==
    /\ At("check_base")
    /\ IF Status = "ok" THEN call' = Advanced ELSE call' \in AfterError(call)
    /\ UNCHANGED <<window, models>>

(* Where only the body of an error is read here.                            *)
CheckBaseRead ==
    LET closed == CloseBody(call) IN
    /\ At("check_base_read")
    /\ \/ Status = "ok" /\ call' = Advanced
       \/ Status # "ok" /\ call' \in AfterError(closed)
       \/ Status # "ok" /\ \E why \in {"unreadable", "cancelled"} : call' = Unanswered(closed, why)
    /\ UNCHANGED <<window, models>>

(* FetchAntigravityModels: any answer without models is followed by the     *)
(* next base URL, and after the last by what is cached.                     *)
CheckModels ==
    /\ At("check_models")
    /\ \/ Status = "ok" /\ call' = Advanced /\ models' = TRUE
       \/ call' = (IF HasNextURL(call) THEN NextURL(call) ELSE Return(call, "cached")) /\ UNCHANGED models
    /\ UNCHANGED window

(* Codex answers with a stream also where none is asked for; its last event *)
(* is the answer.  A count of AI Studio must have a total.                  *)
FindAnswer ==
    /\ At("completed") \/ At("total")
    /\ call' = Advanced \/ call' = Return(call, "incomplete")
    /\ UNCHANGED <<window, models>>

(* The answer executeClaudeNonStream has collected has the usage its lines  *)
(* told.                                                                    *)
UseUsage ==
    /\ At("usage")
    /\ \E found \in IF call.operation = "antigravity_claude" THEN {call.told} ELSE BOOLEAN :
          call' = Publish(Advanced, found)
    /\ UNCHANGED <<window, models>>

Ensure ==
    /\ At("ensure") \/ At("ensure_whole")
    /\ call' = IF At("ensure_whole") /\ call.broken THEN Advanced ELSE EnsurePublished(Advanced)
    /\ UNCHANGED <<window, models>>

ReturnAnswer ==
    /\ At("return")
    /\ call' = Return(call, "answer")
    /\ UNCHANGED <<window, models>>

-----------------------------------------------------------------------------
(* A stream: the caller has its channel, a goroutine does the rest.         *)
Spawn ==
    /\ At("spawn")
    /\ call' = [Advanced EXCEPT !.result = "stream"]
    /\ UNCHANGED <<window, models>>

Sent(c, pieces) == [c EXCEPT !.out = @ \o [i \in 1..pieces |-> "piece"]]

(* A line, an event: the usage it may tell, and what it is translated into. *)
ReadLine ==
    /\ At("lines") /\ call.lines < MaxLines
    /\ \E found \in BOOLEAN, pieces \in 0..1 :
          call' = Sent(Publish([call EXCEPT !.lines = @ + 1], found), pieces)
    /\ UNCHANGED <<window, models>>

EndOfLines ==
    /\ At("lines")
    /\ \E failed \in BOOLEAN : call' = [Advanced EXCEPT !.broken = failed]
    /\ UNCHANGED <<window, models>>

(* [DONE] is translated, whether the stream has come to its end or not.     *)
SendTail ==
    /\ At("tail")
    /\ \E pieces \in 0..1 : call' = Sent(Advanced, pieces)
    /\ UNCHANGED <<window, models>>

TellBroken ==
    /\ At("broken")
    /\ call' = IF call.broken THEN [PublishFailure(Advanced) EXCEPT !.out = Append(@, "error")] ELSE Advanced
    /\ UNCHANGED <<window, models>>

(* gemini-cli, if the client has asked for another form than events.        *)
ChooseForm ==
    /\ At("alt")
    /\ call' = Advanced \/ call' = [call EXCEPT !.steps = GeminiCLIWhole]
    /\ UNCHANGED <<window, models>>

ReadWhole ==
    /\ At("whole")
    /\ \/ \E found \in BOOLEAN, pieces \in 0..1 : call' = Sent(Publish(Advanced, found), pieces)
       \/ call' = [PublishFailure(call) EXCEPT !.steps = <<"close">>, !.broken = TRUE,
                                               !.out = Append(@, "error")]
    /\ UNCHANGED <<window, models>>

(* The goroutine returns: the body is closed, then the channel.             *)
Closed(c) == [CloseBody(c) EXCEPT !.out = Append(@, "closed")]

CloseStream ==
    /\ At("close") \/ At("close_body")
    /\ call' = Closed(Advanced)
    /\ UNCHANGED <<window, models>>

(* executeClaudeNonStream reads the channel itself.                         *)
Collect ==
    /\ At("collect")
    /\ call' = IF call.broken THEN Return(call, "unreadable") ELSE Advanced
    /\ UNCHANGED <<window, models>>

-----------------------------------------------------------------------------
Next ==
    \/ \E o \in Operations : Begin(o)
    \/ MinutePasses \/ Pass \/ GiveUp \/ Limit \/ Report
    \/ Send \/ SendByRelay \/ Defer \/ Check \/ CheckRead \/ CheckDecoded \/ Decode
    \/ Read \/ ReadAndClose \/ CheckBase \/ CheckBaseRead \/ CheckModels \/ FindAnswer
    \/ UseUsage \/ Ensure \/ ReturnAnswer
    \/ Spawn \/ ReadLine \/ EndOfLines \/ SendTail \/ TellBroken \/ ChooseForm \/ ReadWhole
    \/ CloseStream \/ Collect

Spec == Init /\ [][Next]_vars

-----------------------------------------------------------------------------
Failed == call.result \in Failures \/ call.broken

Ensuring ==
    {"codex_compact", "antigravity", "antigravity_claude", "antigravity_stream",
     "compat", "compat_stream", "iflow", "iflow_stream"}

(* The statistics agree with what became of the call: one that failed after *)
(* it had begun to be reported is recorded as a failure, unless its usage   *)
(* had come before; no other is; no usage an upstream told is missed, and   *)
(* where every call is to be counted none is missed either.                 *)
CallsRecorded ==
    Over =>
        /\ call.told => call.record = "usage"
        /\ Failed /\ call.reported /\ ~ call.told => call.record = "failure"
        /\ call.record = "failure" => Failed
        /\ call.operation \in Ensuring /\ call.reported => call.record # "none"

(* A call that is over has left no body open, and a stream the caller was   *)
(* given has ended: the last it heard is the error, if there was one.       *)
NothingLeftOpen ==
    Over =>
        /\ call.body # "open"
        /\ call.result = "stream" =>
              /\ Last(call.out) = "closed"
              /\ \A i \in 1..(Len(call.out) - 1) : call.out[i] # "closed"
              /\ \A i \in 1..Len(call.out) : call.out[i] = "error" => i = Len(call.out) - 1
              /\ call.broken <=> "error" \in Range(call.out)

(* A base URL is given up only for what the next one may do better, none is *)
(* tried twice in an attempt, and a call is given up for such a reason only *)
(* after the last; what the caller is told is what came last.               *)
UpstreamsExhausted ==
    LET answered == call.outcomes
        reasons == {"quota", "busy", "unreachable"} \cup
                   IF call.operation \in {"antigravity_claude", "antigravity_stream"} THEN {"error"} ELSE {}
    IN call.operation \in OverBaseURLs \ {"antigravity_models"} =>
        /\ \A i \in 1..(Len(answered) - 1) : answered[i] \in reasons
        /\ Len(answered) <= call.attempt * BaseURLs + call.upstream
        /\ Over /\ answered # <<>> =>
              /\ call.result \in {"quota", "unreachable"} => call.upstream = BaseURLs
              /\ call.result = "busy" /\ call.operation # "antigravity_count" =>
                    call.upstream = BaseURLs /\ call.attempt = Retries
              /\ call.result \in {"answer", "stream"} => Last(answered) = "ok"
=============================================================================
