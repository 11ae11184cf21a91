----------------------------- MODULE AnswerStream -----------------------------
(***************************************************************************)
(* A streamed answer on its way from the provider to the client, and the   *)
(* goroutines it passes through: the executor that reads the body, the     *)
(* conductor's relay that marks the credential (executeStreamMixedOnce),   *)
(* the one that retries until something was sent                           *)
(* (ExecuteStreamWithAuthManager) and the HTTP handler (the handlers of    *)
(* sdk/api/handlers and ForwardStream).                                    *)
(*                                                                         *)
(* Channels of data are unbuffered: a sender holds its item until it is    *)
(* taken.  The channel of the error holds one.  A goroutine that is asleep *)
(* in a select is woken by the first event: whoever causes it hands it     *)
(* over in the same step.  Keep-alives are left out, and so are chunks of  *)
(* no bytes and those the completions endpoint has no use for.             *)
(***************************************************************************)
EXTENDS Naturals, Sequences

CONSTANTS
    MaxChunks,   \* [Attempts -> Nat]: payloads of the answer of each attempt (bound)
    MaxRetries,  \* streaming.bootstrap-retries
    Assume       \* what is assumed of the timing, see Assumptions

(* prompt_handler: a handler that has yet to wait for its first chunk does   *)
(* not find both the error and the end there.                                *)
Assumptions == {"prompt_handler"}

BoundsAssumption == MaxRetries \in Nat /\ Assume \subseteq Assumptions

(* What the handlers differ in: whether they look at the first chunk before  *)
(* they send headers, have the chunks' JSON checked, convert each chunk in a *)
(* goroutine of their own, and speak to a websocket.                         *)
ClaudeMessages == [peeks |-> TRUE, validates |-> FALSE, converts |-> FALSE, socket |-> FALSE]
ChatCompletions == [peeks |-> TRUE, validates |-> FALSE, converts |-> FALSE, socket |-> FALSE]
Completions == [peeks |-> TRUE, validates |-> FALSE, converts |-> TRUE, socket |-> FALSE]
GeminiStream == [peeks |-> TRUE, validates |-> FALSE, converts |-> FALSE, socket |-> FALSE]
GeminiCLIStream == [peeks |-> FALSE, validates |-> FALSE, converts |-> FALSE, socket |-> FALSE]
Responses == [peeks |-> TRUE, validates |-> TRUE, converts |-> FALSE, socket |-> FALSE]
ResponsesWebsocket == [peeks |-> FALSE, validates |-> TRUE, converts |-> FALSE, socket |-> TRUE]

Endpoints == {ClaudeMessages, ChatCompletions, Completions, GeminiStream, GeminiCLIStream,
              Responses, ResponsesWebsocket}

(* What the executors differ in: whether they translate "[DONE]" after the   *)
(* body, also after a broken one, and whether they notice that the request   *)
(* is cancelled while they send.                                             *)
ClaudeExecutor == [tellsDone |-> FALSE, minds |-> FALSE]
CodexExecutor == [tellsDone |-> FALSE, minds |-> FALSE]
OpenAICompatExecutor == [tellsDone |-> FALSE, minds |-> FALSE]
IFlowExecutor == [tellsDone |-> FALSE, minds |-> FALSE]
AIStudioExecutor == [tellsDone |-> FALSE, minds |-> FALSE]
KimiExecutor == [tellsDone |-> TRUE, minds |-> FALSE]
QwenExecutor == [tellsDone |-> TRUE, minds |-> FALSE]
GeminiExecutor == [tellsDone |-> TRUE, minds |-> FALSE]
GeminiCLIExecutor == [tellsDone |-> TRUE, minds |-> FALSE]
GeminiVertexExecutor == [tellsDone |-> TRUE, minds |-> FALSE]
AntigravityExecutor == [tellsDone |-> TRUE, minds |-> FALSE]
CodexWebsocketsExecutor == [tellsDone |-> FALSE, minds |-> TRUE]

Executors == {ClaudeExecutor, CodexExecutor, OpenAICompatExecutor, IFlowExecutor, AIStudioExecutor,
              KimiExecutor, QwenExecutor, GeminiExecutor, GeminiCLIExecutor, GeminiVertexExecutor,
              AntigravityExecutor, CodexWebsocketsExecutor}

VARIABLES
    executor,  \* the goroutine that reads the body of each attempt
    relay,     \* the conductor's goroutine of each attempt
    base,      \* the goroutine of ExecuteStreamWithAuthManager
    errs,      \* errChan
    converter, \* the goroutine of the completions endpoint
    handler,   \* the HTTP handler, and what the client was told
    gone,      \* the client's request context is done
    cancelled  \* the context of the answer is

vars == <<executor, relay, base, errs, converter, handler, gone, cancelled>>

Attempts == 1..(MaxRetries + 1)

(* A payload, one that is no JSON, an error that allows a retry              *)
(* (bootstrapEligible) and one that does not.                                *)
Item == [type : {"none", "chunk", "bad", "error", "fatal"}, n : Nat]
None == [type |-> "none", n |-> 0]
An(type) == [type |-> type, n |-> 0]
Failing(item) == item.type \in {"error", "fatal"}

TypeOK ==
    /\ executor \in [Attempts ->
          [kind : Executors, stage : {"none", "body", "done", "tail", "closing", "over"},
           item : Item, sent : Nat, broken : BOOLEAN]]
    /\ relay \in [Attempts ->
          [pc : {"none", "recv", "send", "over"}, item : Item, forward : BOOLEAN,
           marked : {"no", "success", "failure"}]]
    /\ base \in [pc : {"none", "recv", "retry", "data", "fail", "closing", "close", "over"},
                 attempt : Attempts, item : Item, sentPayload : BOOLEAN]
    /\ errs \in [msg : BOOLEAN, closed : BOOLEAN]
    /\ converter \in [pc : {"none", "recv", "send", "over"}, item : Item]
    /\ handler \in [endpoint : Endpoints, pc : {"call", "turn", "wait", "over"}, peeking : BOOLEAN,
                    errsNil : BOOLEAN, completed : BOOLEAN,
                    result : {"none", "done", "error", "gone"},
                    written : Seq(Attempts \X Nat)]
    /\ gone \in BOOLEAN /\ cancelled \in BOOLEAN

NoExecutor == [kind |-> ClaudeExecutor, stage |-> "none", item |-> None, sent |-> 0, broken |-> FALSE]
NoRelay == [pc |-> "none", item |-> None, forward |-> TRUE, marked |-> "no"]

Init ==
    /\ executor = [a \in Attempts |-> NoExecutor]
    /\ relay = [a \in Attempts |-> NoRelay]
    /\ base = [pc |-> "none", attempt |-> 1, item |-> None, sentPayload |-> FALSE]
    /\ errs = [msg |-> FALSE, closed |-> FALSE]
    /\ converter = [pc |-> "none", item |-> None]
    /\ \E e \in Endpoints :
          handler = [endpoint |-> e, pc |-> "call", peeking |-> e.peeks, errsNil |-> FALSE,
                     completed |-> FALSE, result |-> "none", written |-> <<>>]
    /\ gone = FALSE /\ cancelled = FALSE

-----------------------------------------------------------------------------
(* What the handler does with an event its select has chosen. *)

Finish(h, result) == [h EXCEPT !.pc = "over", !.result = result]

(* The error channel is closed: nobody listens to it any more, but for       *)
(* ForwardStream, which looks again and again.                               *)
OnErrsClosed(h) ==
    [h EXCEPT !.pc = "turn", !.errsNil = h.peeking \/ h.endpoint.socket]

OnData(h, item, completes) ==
    [h EXCEPT !.pc = "turn", !.peeking = FALSE,
              !.completed = @ \/ (h.endpoint.socket /\ completes),
              !.written = Append(@, <<base.attempt, item.n>>)]

(* The data channel is closed.  ForwardStream prefers an error that is       *)
(* pending; the look at the first chunk does not.                            *)
OnDataClosed(h) ==
    IF h.peeking THEN Finish(h, "done")
    ELSE IF h.endpoint.socket THEN Finish(h, IF h.completed THEN "done" ELSE "error")
    ELSE Finish(h, IF errs.msg /\ ~h.errsNil THEN "error" ELSE "done")

Converting == handler.endpoint.converts /\ ~handler.peeking

(* A handler that sleeps in its select gets what has happened.               *)
Woken(h) == IF handler.pc = "wait" THEN h ELSE handler

(* The handler cancels the answer's context when it returns. *)
CancelAtEnd == cancelled' = (cancelled \/ handler'.pc = "over")

-----------------------------------------------------------------------------
(* The executor of attempt a. *)

Sending(a, item) == [executor[a] EXCEPT !.item = item]

NextChunk(a, type) ==
    [Sending(a, [type |-> type, n |-> executor[a].sent + 1]) EXCEPT !.sent = @ + 1]

ReadsPayload(a) ==
    /\ executor[a].stage = "body" /\ executor[a].item = None
    /\ executor[a].sent < MaxChunks[a]
    /\ \E type \in {"chunk"} \cup (IF handler.endpoint.validates THEN {"bad"} ELSE {}) :
          executor' = [executor EXCEPT ![a] = NextChunk(a, type)]
    /\ UNCHANGED <<relay, base, errs, converter, handler, gone, cancelled>>

(* The body ends or breaks. *)
BodyOver(a) ==
    /\ executor[a].stage = "body" /\ executor[a].item = None
    /\ \E broken \in BOOLEAN :
          executor' = [executor EXCEPT
             ![a].stage = IF executor[a].kind.tellsDone THEN "done" ELSE "tail",
             ![a].broken = broken]
    /\ UNCHANGED <<relay, base, errs, converter, handler, gone, cancelled>>

TranslatesDone(a) ==
    /\ executor[a].stage = "done"
    /\ \/ executor' = [executor EXCEPT ![a].stage = "tail"]
       \/ /\ executor[a].sent < MaxChunks[a]
          /\ executor' = [executor EXCEPT ![a] = [NextChunk(a, "chunk") EXCEPT !.stage = "tail"]]
    /\ UNCHANGED <<relay, base, errs, converter, handler, gone, cancelled>>

(* After all that the error is told, if there is one, and the channel closed.*)
TellsError(a) ==
    /\ executor[a].stage \in {"tail", "closing"} /\ executor[a].item = None
    /\ IF executor[a].stage = "tail" /\ executor[a].broken
       THEN \E type \in {"error"} \cup (IF executor[a].kind.minds THEN {"fatal"} ELSE {}) :
               executor' = [executor EXCEPT ![a] = [Sending(a, An(type)) EXCEPT !.stage = "closing"]]
       ELSE executor' = [executor EXCEPT ![a].stage = "over"]
    /\ UNCHANGED <<relay, base, errs, converter, handler, gone, cancelled>>

ExecutorGivesUp(a) ==
    /\ executor[a].item # None /\ executor[a].kind.minds /\ cancelled
    /\ executor' = [executor EXCEPT ![a].item = None, ![a].stage = "over"]
    /\ UNCHANGED <<relay, base, errs, converter, handler, gone, cancelled>>

-----------------------------------------------------------------------------
(* The conductor's relay: it marks the credential at the first error, or at  *)
(* the end, and drains the executor even when nobody listens.                *)

RelayReceives(a) ==
    /\ relay[a].pc = "recv" /\ executor[a].item # None
    /\ executor' = [executor EXCEPT ![a].item = None]
    /\ LET taken == IF Failing(executor[a].item) /\ relay[a].marked = "no"
                    THEN [relay[a] EXCEPT !.marked = "failure"] ELSE relay[a]
       IN  relay' = [relay EXCEPT ![a] =
              IF taken.forward THEN [taken EXCEPT !.pc = "send", !.item = executor[a].item] ELSE taken]
    /\ UNCHANGED <<base, errs, converter, handler, gone, cancelled>>

RelayStuck(a) == FALSE  \* mutant: the relay sends without a look at the context

RelayStopsForwarding(a) ==
    /\ relay[a].pc = "send" /\ cancelled
    /\ relay' = [relay EXCEPT ![a].pc = "recv", ![a].item = None, ![a].forward = FALSE]
    /\ UNCHANGED <<executor, base, errs, converter, handler, gone, cancelled>>

RelayEnds(a) ==
    /\ relay[a].pc = "recv" /\ executor[a].stage = "over"
    /\ relay' = [relay EXCEPT ![a].pc = "over",
                              ![a].marked = IF @ = "no" THEN "success" ELSE @]
    /\ UNCHANGED <<executor, base, errs, converter, handler, gone, cancelled>>

-----------------------------------------------------------------------------
(* ExecuteStreamWithAuthManager. *)

Opened(a) ==
    /\ \E kind \in Executors :
          executor' = [executor EXCEPT ![a] = [NoExecutor EXCEPT !.kind = kind, !.stage = "body"]]
    /\ relay' = [relay EXCEPT ![a].pc = "recv"]

(* The handler calls it: the first ExecuteStream of the conductor is its own.*)
Call ==
    /\ handler.pc = "call"
    /\ handler' = [handler EXCEPT !.pc = "turn"]
    /\ \/ /\ Opened(1)
          /\ base' = [base EXCEPT !.pc = "recv"] /\ UNCHANGED errs
       \/ /\ errs' = [msg |-> TRUE, closed |-> TRUE]
          /\ UNCHANGED <<executor, relay, base>>
    /\ UNCHANGED <<converter, gone, cancelled>>

MayRetryLate(item) ==  \* mutant: a retry also when payloads were sent
    base.attempt <= MaxRetries /\ item.type = "error"

MayRetry(item) == ~base.sentPayload /\ base.attempt <= MaxRetries /\ item.type = "error"

BaseReceives ==
    /\ base.pc = "recv" /\ relay[base.attempt].pc = "send"
    /\ relay' = [relay EXCEPT ![base.attempt].pc = "recv", ![base.attempt].item = None]
    /\ LET item == relay[base.attempt].item
       IN  base' = CASE Failing(item) -> [base EXCEPT !.pc = IF MayRetry(item) THEN "retry" ELSE "fail"]
                     [] item.type = "bad" -> [base EXCEPT !.pc = "fail"]
                     [] OTHER -> [base EXCEPT !.pc = "data", !.item = item, !.sentPayload = TRUE]
    /\ UNCHANGED <<executor, errs, converter, handler, gone, cancelled>>

BaseRetries ==
    /\ base.pc = "retry"
    /\ \/ /\ Opened(base.attempt + 1)
          /\ base' = [base EXCEPT !.pc = "recv", !.attempt = @ + 1]
       \/ /\ base' = [base EXCEPT !.pc = "fail"] /\ UNCHANGED <<executor, relay>>
    /\ UNCHANGED <<errs, converter, handler, gone, cancelled>>

BaseSeesEnd ==
    /\ base.pc = "recv" /\ relay[base.attempt].pc = "over"
    /\ base' = [base EXCEPT !.pc = "closing"]
    /\ UNCHANGED <<executor, relay, errs, converter, handler, gone, cancelled>>

BaseCancelled ==
    /\ base.pc \in {"recv", "data", "fail"} /\ cancelled
    /\ base' = [base EXCEPT !.pc = "closing", !.item = None]
    /\ UNCHANGED <<executor, relay, errs, converter, handler, gone, cancelled>>

BaseSendsError ==
    /\ base.pc = "fail"
    /\ base' = [base EXCEPT !.pc = "closing"]
    /\ handler' = Woken(Finish(handler, "error"))
    /\ errs' = [errs EXCEPT !.msg = handler.pc # "wait"]
    /\ CancelAtEnd
    /\ UNCHANGED <<executor, relay, converter, gone>>

(* Deferred: first the channel of the error is closed, then that of the data.*)
BaseClosesErrs ==
    /\ base.pc = "closing"
    /\ base' = [base EXCEPT !.pc = "close"]
    /\ errs' = [errs EXCEPT !.closed = TRUE]
    /\ handler' = Woken(OnErrsClosed(handler))
    /\ UNCHANGED <<executor, relay, converter, gone, cancelled>>

BaseClosesData ==
    /\ base.pc = "close"
    /\ "prompt_handler" \in Assume => ~(errs.msg /\ handler.peeking /\ handler.pc = "turn")
    /\ base' = [base EXCEPT !.pc = "over"]
    /\ handler' = IF Converting THEN handler ELSE Woken(OnDataClosed(handler))
    /\ CancelAtEnd
    /\ UNCHANGED <<executor, relay, errs, converter, gone>>

-----------------------------------------------------------------------------
(* The handler. *)

Ready(h) == h.pc \in {"turn", "wait"}

TakesData ==
    /\ Ready(handler) /\ ~Converting /\ base.pc = "data"
    /\ base' = [base EXCEPT !.pc = "recv", !.item = None]
    /\ \E completes \in BOOLEAN : handler' = OnData(handler, base.item, completes)
    /\ converter' = IF handler.endpoint.converts THEN [converter EXCEPT !.pc = "recv"] ELSE converter
    /\ UNCHANGED <<executor, relay, errs, gone, cancelled>>

TakesConverted ==
    /\ Ready(handler) /\ Converting /\ converter.pc = "send"
    /\ handler' = OnData(handler, converter.item, FALSE)
    /\ converter' = [pc |-> "recv", item |-> None]
    /\ UNCHANGED <<executor, relay, base, errs, gone, cancelled>>

DataClosed == IF Converting THEN converter.pc = "over" ELSE base.pc = "over"

(* Its select finds something there. *)
Turns ==
    /\ handler.pc = "turn"
    /\ \/ gone /\ handler' = Finish(handler, "gone")
       \/ errs.msg /\ ~handler.errsNil /\ handler' = Finish(handler, "error")
       \/ /\ errs.closed /\ ~errs.msg /\ ~handler.errsNil
          /\ handler' = OnErrsClosed(handler)
       \/ DataClosed /\ handler' = OnDataClosed(handler)
    /\ CancelAtEnd
    /\ UNCHANGED <<executor, relay, base, errs, converter, gone>>

(* It finds nothing and sleeps. *)
Waits ==
    /\ handler.pc = "turn"
    /\ ~gone /\ ~DataClosed
    /\ handler.errsNil \/ ~(errs.msg \/ errs.closed)
    /\ IF Converting THEN converter.pc # "send" ELSE base.pc # "data"
    /\ handler' = [handler EXCEPT !.pc = "wait"]
    /\ UNCHANGED <<executor, relay, base, errs, converter, gone, cancelled>>

ConverterReceives ==
    /\ converter.pc = "recv"
    /\ \/ /\ base.pc = "data"
          /\ converter' = [pc |-> "send", item |-> base.item]
          /\ base' = [base EXCEPT !.pc = "recv", !.item = None]
          /\ UNCHANGED handler
       \/ /\ base.pc = "over"
          /\ converter' = [converter EXCEPT !.pc = "over"]
          /\ handler' = Woken(OnDataClosed(handler)) /\ UNCHANGED base
    /\ CancelAtEnd
    /\ UNCHANGED <<executor, relay, errs, gone>>

ConverterStops ==
    /\ converter.pc \in {"recv", "send"} /\ handler.pc = "over"
    /\ converter' = [pc |-> "over", item |-> None]
    /\ UNCHANGED <<executor, relay, base, errs, handler, gone, cancelled>>

ClientLeaves ==
    /\ ~gone /\ handler.pc # "over"
    /\ gone' = TRUE
    /\ handler' = Woken(Finish(handler, "gone"))
    /\ CancelAtEnd
    /\ UNCHANGED <<executor, relay, base, errs, converter>>

(* GetContextWithCancel's goroutine passes it on. *)
PassesOn ==
    /\ gone /\ ~cancelled
    /\ cancelled' = TRUE
    /\ UNCHANGED <<executor, relay, base, errs, converter, handler, gone>>

-----------------------------------------------------------------------------
Provider(a) == ReadsPayload(a) \/ BodyOver(a)

Program ==
    \/ \E a \in Attempts :
          \/ TranslatesDone(a) \/ TellsError(a) \/ ExecutorGivesUp(a)
          \/ RelayReceives(a) \/ RelayStopsForwarding(a) \/ RelayEnds(a)
    \/ Call \/ BaseReceives \/ BaseRetries \/ BaseSeesEnd \/ BaseCancelled
    \/ BaseSendsError \/ BaseClosesErrs \/ BaseClosesData
    \/ TakesData \/ TakesConverted \/ Turns \/ Waits
    \/ ConverterReceives \/ ConverterStops \/ PassesOn

Next == Program \/ ClientLeaves \/ \E a \in Attempts : Provider(a)

Spec == Init /\ [][Next]_vars

(* Goroutines run; none can go on for ever by itself, so fairness to the     *)
(* program is fairness to each of them.  A provider may hang, but the body   *)
(* of a cancelled request is read no further.                                *)
Fairness ==
    /\ WF_vars(Program)
    /\ \A a \in Attempts : WF_vars(cancelled /\ Provider(a))

FairSpec == Spec /\ Fairness

-----------------------------------------------------------------------------
(* An instance for TLC. *)
OneEach == [a \in Attempts |-> 1]

Told(result) == handler.result = result /\ ~gone

(* What the client got is the beginning of one attempt's answer, in order,   *)
(* retries or not; a client told that the answer is complete has all of it,  *)
(* and the credential was marked a success (a websocket client is told by    *)
(* the answer itself).                                                       *)
AnswerAsSent ==
    /\ \A i \in DOMAIN handler.written : handler.written[i] = <<base.attempt, i>>
    /\ Told("done") /\ ~handler.endpoint.socket =>
          /\ Len(handler.written) = executor[base.attempt].sent
          /\ relay[base.attempt].marked = "success"

(* An answer that fails before it is complete is not reported as one that    *)
(* is over: "Upstream failed immediately. Return proper error status and     *)
(* JSON." (the handlers' comment where they look at the first chunk)         *)
FailureIsTold == Told("done") /\ ~handler.completed => ~errs.msg

AllOver ==
    /\ handler.pc = "over" /\ base.pc \in {"none", "over"} /\ converter.pc \in {"none", "over"}
    /\ \A a \in Attempts : executor[a].stage \in {"none", "over"} /\ relay[a].pc \in {"none", "over"}

BodiesOver ==
    handler.pc # "call" /\ \A a \in Attempts : executor[a].stage \in {"none", "over"}

(* Nothing is left to wait for: the client has left or was answered, or the  *)
(* bodies of all attempts are over (a retry opens another).                  *)
Due == gone \/ handler.pc = "over" \/ BodiesOver

(* When the client has left or was answered, every goroutine of the answer   *)
(* ends, even if the provider hangs; and when the provider's bodies are over *)
(* the client is answered.                                                   *)
StreamsEnd == Due ~> (AllOver \/ ~Due)
=============================================================================
