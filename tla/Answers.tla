-------------------------------- MODULE Answers -------------------------------
(***************************************************************************)
(* How requests are answered: the conductor's rounds and retries           *)
(* (AuthConductor, extended), the goroutines the chunks of a streamed      *)
(* answer pass (AnswerStream), and the log that is kept of an answer       *)
(* (RequestLog).  To the first a stream that was opened is a goroutine     *)
(* that marks one result; to the second the choice of a credential is an   *)
(* open that succeeds or fails; to the third the handler is who writes.    *)
(* They are checked side by side: "part" says which of them moves in a     *)
(* behaviour, the others rest in their initial states.                     *)
(***************************************************************************)
EXTENDS MCAuthConductor

CONSTANTS
    MaxChunks,  \* payloads of the answer of each attempt
    MaxRetries, \* streaming.bootstrap-retries
    LoggedRequests, StreamedRequests, Buffer, MaxWrites, MaxErrorLogs, MaxToggles \* of RequestLog

VARIABLES
    part,
    \* AnswerStream
    sExecutor, sRelay, sBase, sErrs, sConverter, sHandler, sGone, sCancelled,
    \* RequestLog
    lEnabled, lToggles, lWrapper, lChunks, lSpool, lLog, lErrorLogs

Stream == INSTANCE AnswerStream WITH
    Assume <- {"prompt_handler"},
    executor <- sExecutor, relay <- sRelay, base <- sBase, errs <- sErrs,
    converter <- sConverter, handler <- sHandler, gone <- sGone, cancelled <- sCancelled

Logs == INSTANCE RequestLog WITH
    Requests <- LoggedRequests, Streaming <- StreamedRequests,
    Assume <- {"kept_on", "kept_off", "early_status", "whole_logs"},
    enabled <- lEnabled, toggles <- lToggles, wrapper <- lWrapper, chunks <- lChunks,
    spool <- lSpool, log <- lLog, errorLogs <- lErrorLogs

ASSUME StreamAssumption == Stream!BoundsAssumption

ASSUME LogsAssumption == Logs!BoundsAssumption

logs == <<lEnabled, lToggles, lWrapper, lChunks, lSpool, lLog, lErrorLogs>>
stream == <<sExecutor, sRelay, sBase, sErrs, sConverter, sHandler, sGone, sCancelled>>

AnswersInit ==
    /\ part \in {"conductor", "stream", "log"}
    /\ Init /\ Stream!Init /\ Logs!Init
    /\ part # "stream" => sHandler.endpoint = Stream!ClaudeMessages
    /\ part # "log" => lEnabled

ConductorPart == part = "conductor" /\ Next /\ UNCHANGED <<part, stream, logs>>
StreamPart == part = "stream" /\ Stream!Next /\ UNCHANGED <<part, vars, logs>>
LogPart == part = "log" /\ Logs!Next /\ UNCHANGED <<part, vars, stream>>

AnswersNext == ConductorPart \/ StreamPart \/ LogPart

(* Each part's own fairness.  Where a part rests nothing of it is enabled,  *)
(* but for the stream, which could always begin.                            *)
AnswersSpec ==
    /\ AnswersInit /\ [][AnswersNext]_<<part, vars, stream, logs>>
    /\ WF_vars(Tick) /\ \A r \in Requests : WF_vars(Proceed(r))
    /\ WF_stream(part = "stream" /\ Stream!Program)
    /\ \A a \in Stream!Attempts : WF_stream(sCancelled /\ Stream!Provider(a))
    /\ Logs!Fairness

-----------------------------------------------------------------------------
(* An instance for TLC: a second attempt has one payload less. *)
TwoThenOne == <<2, 1>>

(* A streamed answer reaches the client as one attempt's payloads in order, *)
(* and is only called complete when it is (AnswerStream); its goroutines'   *)
(* variables keep their types.                                              *)
AnswerAsSent == part = "stream" => Stream!TypeOK /\ Stream!AnswerAsSent

(* Every goroutine of a streamed answer ends (StreamsEnd of AnswerStream),   *)
(* and so do those of its log (FinalizeReturns of RequestLog): one formula,  *)
(* of which the part that rests satisfies its own half.                      *)
StreamsEnd ==
    (Stream!Due \/ Logs!Finalizing)
        ~> ((Stream!AllOver \/ ~ Stream!Due) /\ ~ Logs!Finalizing)

(* A log holds the answer as it was sent; no temporary file and no goroutine *)
(* outlives its request; there are not more error logs than the limit allows *)
(* (RequestLog, whose variables keep their types).                           *)
LogsKept ==
    part = "log" =>
        /\ Logs!TypeOK /\ Logs!LogHoldsAnswer
        /\ Logs!NothingLeftBehind /\ Logs!ErrorLogsBounded
=============================================================================
