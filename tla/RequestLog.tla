------------------------------ MODULE RequestLog ------------------------------
(***************************************************************************)
(* The logs of requests: internal/api/middleware (request_logging.go,      *)
(* response_writer.go) and internal/logging/request_logger.go.             *)
(*                                                                         *)
(* The middleware wraps the response.  A plain answer is buffered and      *)
(* logged when the handler has returned.  An event stream passes two       *)
(* goroutines and two bounded channels on its way to a temporary file:     *)
(* the carrier (processStreamingChunks) takes a chunk from chunkChannel to *)
(* the writer's chunkChan, the spooler (asyncWriter) from there to the     *)
(* file; Finalize ends them one after the other and assembles the log.     *)
(* Where logging is off, an answer that failed is logged all the same, and *)
(* the oldest of these error logs are removed.                             *)
(*                                                                         *)
(* The chunks of an answer are numbered; sections, headers and names of    *)
(* log files are left out.  Any write to the disk may fail.                *)
(***************************************************************************)
EXTENDS Naturals, Sequences, FiniteSets, SequencesExt

CONSTANTS
    Requests,
    Streaming,    \* those that may be answered by an event stream
    Buffer,       \* the capacity of chunkChannel and of chunkChan, 100 in the code
    MaxWrites,    \* chunks of an answer (bound)
    MaxErrorLogs, \* errorLogsMaxFiles; 0: no clean-up
    MaxToggles,   \* switches of request-log by a new configuration (bound)
    Assume        \* what is assumed of the environment, see Assumptions

Assumptions ==
    {"kept_on",       \* logging is not switched off under a request that is being logged
     "kept_off",      \* nor on while an error log is being written
     "early_status",  \* the status is set before anything is written
     "whole_logs"}    \* a log that could be opened can be written

(* What the constants must be: the module that gives them values assumes it. *)
BoundsAssumption ==
    /\ IsFiniteSet(Requests) /\ Streaming \subseteq Requests
    /\ Buffer \in Nat \ {0} /\ MaxWrites \in Nat
    /\ MaxErrorLogs \in Nat /\ MaxToggles \in Nat /\ Assume \subseteq Assumptions

VARIABLES
    enabled,    \* FileRequestLogger.enabled
    toggles,
    wrapper,    \* ResponseWriterWrapper, with how far the request is
    chunks,     \* chunkChannel and its carrier
    spool,      \* FileStreamingLogWriter: chunkChan, its spooler, the temporary files
    log,        \* the answer as the finished log has it
    errorLogs   \* the age of each error log, 1 for the one written to last; 0: there is none

vars == <<enabled, toggles, wrapper, chunks, spool, log, errorLogs>>

OK == 200
Failed == 500
NoStatus == 0
Unlogged == <<0>>

Pipe == [open : BOOLEAN, queue : Seq(1..MaxWrites), goroutine : {"none", "running", "ended"}]
NoPipe == [open |-> FALSE, queue |-> <<>>, goroutine |-> "none"]
NewPipe == [open |-> TRUE, queue |-> <<>>, goroutine |-> "running"]
NoSpool == [open |-> FALSE, queue |-> <<>>, goroutine |-> "none",
            file |-> <<>>, broken |-> FALSE, temps |-> {}]

TypeOK ==
    /\ enabled \in BOOLEAN /\ toggles \in 0..MaxToggles
    /\ wrapper \in [Requests ->
          [stage : {"new", "handling", "opening", "finalizing", "draining", "closing", "assembling",
                    "logging", "writing", "listing", "removing", "done"},
           errorOnly : BOOLEAN, status : {NoStatus, OK, Failed}, sse : BOOLEAN,
           sent : 0..MaxWrites, body : Seq(1..MaxWrites), writer : {"none", "noop", "file"},
           force : BOOLEAN, victims : SUBSET Requests]]
    /\ chunks \in [Requests -> Pipe]
    /\ spool \in [Requests ->
          [open : BOOLEAN, queue : Seq(1..MaxWrites), goroutine : {"none", "running", "ended"},
           file : Seq(1..MaxWrites), broken : BOOLEAN, temps : SUBSET {"request", "response"}]]
    /\ \A r \in Requests : Len(chunks[r].queue) <= Buffer /\ Len(spool[r].queue) <= Buffer
    /\ log \in [Requests -> Seq(0..MaxWrites)]
    /\ errorLogs \in [Requests -> Nat]

Init ==
    /\ enabled \in BOOLEAN /\ toggles = 0
    /\ wrapper = [r \in Requests |->
          [stage |-> "new", errorOnly |-> FALSE, status |-> NoStatus, sse |-> FALSE, sent |-> 0,
           body |-> <<>>, writer |-> "none", force |-> FALSE, victims |-> {}]]
    /\ chunks = [r \in Requests |-> NoPipe]
    /\ spool = [r \in Requests |-> NoSpool]
    /\ log = [r \in Requests |-> Unlogged]
    /\ errorLogs = [r \in Requests |-> 0]

Stage(r, s) == wrapper[r].stage = s
IsLogged(r) == /\ ~ Stage(r, "new") /\ ~ Stage(r, "done")
               /\ ~ wrapper[r].errorOnly \/ Stage(r, "opening") \/ wrapper[r].writer # "none"
WritesErrorLog(r) == wrapper[r].force /\ wrapper[r].stage \in {"logging", "writing", "listing"}

-----------------------------------------------------------------------------
(* Server.UpdateClients applies a changed request-log.                     *)
SetEnabled ==
    /\ toggles < MaxToggles
    /\ "kept_on" \in Assume => ~ (enabled /\ \E r \in Requests : IsLogged(r))
    /\ "kept_off" \in Assume => ~ (~ enabled /\ \E r \in Requests : WritesErrorLog(r))
    /\ enabled' = ~ enabled /\ toggles' = toggles + 1
    /\ UNCHANGED <<wrapper, chunks, spool, log, errorLogs>>

(* RequestLoggingMiddleware wraps the response.                            *)
Wrap(r) ==
    /\ Stage(r, "new")
    /\ wrapper' = [wrapper EXCEPT ![r].stage = "handling", ![r].errorOnly = ~ enabled]
    /\ UNCHANGED <<enabled, toggles, chunks, spool, log, errorLogs>>

(* WriteHeader, through gin's Status: a plain answer and an event stream    *)
(* that is passed on set it first; the handlers' own event streams set none *)
(* unless they break off.                                                   *)
WriteHeader(r, status, sse) ==
    /\ Stage(r, "handling") /\ wrapper[r].status = NoStatus
    /\ sse => r \in Streaming
    /\ wrapper[r].sent > 0 => sse /\ status = Failed /\ "early_status" \notin Assume
    /\ wrapper[r].sent = 0 /\ sse => status = OK
    /\ wrapper' = [wrapper EXCEPT ![r].status = status, ![r].sse = sse,
                                  ![r].stage = IF sse /\ enabled THEN "opening" ELSE @]
    /\ UNCHANGED <<enabled, toggles, chunks, spool, log, errorLogs>>

(* LogStreamingRequest, and the carrier that WriteHeader starts.  A failure *)
(* leaves no temporary file; the answer is then buffered.                   *)
OpenStreamLog(r) ==
    /\ Stage(r, "opening")
    /\ \E kind \in IF enabled THEN {"file", "none"} ELSE {"noop"} :
          /\ wrapper' = [wrapper EXCEPT ![r].stage = "handling", ![r].writer = kind]
          /\ chunks' = [chunks EXCEPT ![r] = IF kind = "none" THEN @ ELSE NewPipe]
          /\ spool' = IF kind = "file"
                      THEN [spool EXCEPT ![r].open = TRUE, ![r].goroutine = "running",
                                         ![r].temps = {"request", "response"}]
                      ELSE spool
    /\ UNCHANGED <<enabled, toggles, log, errorLogs>>

ShouldBufferBody(r) == enabled \/ (wrapper[r].errorOnly /\ wrapper[r].status = Failed)

(* Write and WriteString: to the client first; what a full channel does not *)
(* take is left out of the log.                                             *)
Write(r) ==
    /\ Stage(r, "handling") /\ wrapper[r].sent < MaxWrites
    /\ wrapper[r].status = NoStatus \/ wrapper[r].sse \/ wrapper[r].sent = 0
    /\ LET chunk == wrapper[r].sent + 1
           streamed == wrapper[r].sse /\ chunks[r].open
       IN /\ wrapper' = [wrapper EXCEPT ![r].sent = chunk,
                 ![r].body = IF ~ streamed /\ ShouldBufferBody(r) THEN Append(@, chunk) ELSE @]
          /\ chunks' = IF streamed /\ Len(chunks[r].queue) < Buffer
                       THEN [chunks EXCEPT ![r].queue = Append(@, chunk)] ELSE chunks
    /\ UNCHANGED <<enabled, toggles, spool, log, errorLogs>>

Return(r) ==
    /\ Stage(r, "handling")
    /\ wrapper' = [wrapper EXCEPT ![r].stage = "finalizing"]
    /\ UNCHANGED <<enabled, toggles, chunks, spool, log, errorLogs>>

-----------------------------------------------------------------------------
(* The carrier: WriteChunkAsync does not wait for room either.              *)
Carry(r) ==
    /\ chunks[r].goroutine = "running" /\ chunks[r].queue # <<>>
    /\ chunks' = [chunks EXCEPT ![r].queue = Tail(@)]
    /\ spool' = IF wrapper[r].writer = "file" /\ Len(spool[r].queue) < Buffer
                THEN [spool EXCEPT ![r].queue = Append(@, Head(chunks[r].queue))] ELSE spool
    /\ UNCHANGED <<enabled, toggles, wrapper, log, errorLogs>>

CarrierEnds(r) ==
    /\ chunks[r].goroutine = "running" /\ chunks[r].queue = <<>> /\ ~ chunks[r].open
    /\ chunks' = [chunks EXCEPT ![r].goroutine = "ended"]
    /\ UNCHANGED <<enabled, toggles, wrapper, spool, log, errorLogs>>

(* asyncWriter: after a failure it takes the chunks and drops them.         *)
SpoolChunk(r) ==
    /\ spool[r].goroutine = "running" /\ spool[r].queue # <<>>
    /\ \E fails \in IF spool[r].broken THEN {TRUE} ELSE BOOLEAN :
          spool' = [spool EXCEPT ![r].queue = Tail(@), ![r].broken = fails,
                        ![r].file = IF fails THEN @ ELSE Append(@, Head(spool[r].queue))]
    /\ UNCHANGED <<enabled, toggles, wrapper, chunks, log, errorLogs>>

SpoolerEnds(r) ==
    /\ spool[r].goroutine = "running" /\ spool[r].queue = <<>> /\ ~ spool[r].open
    /\ \E fails \in IF spool[r].broken THEN {TRUE} ELSE BOOLEAN :
          spool' = [spool EXCEPT ![r].goroutine = "ended", ![r].broken = fails]
    /\ UNCHANGED <<enabled, toggles, wrapper, chunks, log, errorLogs>>

-----------------------------------------------------------------------------
(* Finalize.                                                                *)
Finalize(r) ==
    /\ Stage(r, "finalizing")
    /\ LET force == wrapper[r].errorOnly /\ wrapper[r].status = Failed /\ ~ enabled
           next == IF ~ enabled /\ ~ force THEN "done"
                   ELSE IF wrapper[r].sse /\ wrapper[r].writer # "none" THEN "draining" ELSE "logging"
       IN /\ wrapper' = [wrapper EXCEPT ![r].stage = next, ![r].force = force]
          /\ chunks' = [chunks EXCEPT ![r].open = @ /\ next # "draining"]
    /\ UNCHANGED <<enabled, toggles, spool, log, errorLogs>>

CloseWriterAtOnce(r) ==  \* mutant: the writer is closed under the carrier
    /\ Stage(r, "draining")
    /\ wrapper' = [wrapper EXCEPT ![r].stage = IF wrapper[r].writer = "file" THEN "closing" ELSE "done"]
    /\ spool' = [spool EXCEPT ![r].open = FALSE]
    /\ UNCHANGED <<enabled, toggles, chunks, log, errorLogs>>

(* ... it waits for the carrier, and then closes the writer, ...            *)
CloseWriter(r) ==
    /\ Stage(r, "draining") /\ chunks[r].goroutine = "ended"
    /\ wrapper' = [wrapper EXCEPT ![r].stage = IF wrapper[r].writer = "file" THEN "closing" ELSE "done"]
    /\ spool' = [spool EXCEPT ![r].open = FALSE]
    /\ UNCHANGED <<enabled, toggles, chunks, log, errorLogs>>

AssembleOrFail(r) ==  \* mutant: a log that cannot be assembled ends the work
    /\ Stage(r, "closing") /\ spool[r].goroutine = "ended"
    /\ \E written \in IF spool[r].broken THEN {FALSE} ELSE BOOLEAN :
          /\ log' = [log EXCEPT ![r] = IF written THEN spool[r].file ELSE @]
          /\ wrapper' = [wrapper EXCEPT ![r].stage = IF written THEN "assembling" ELSE "done"]
    /\ UNCHANGED <<enabled, toggles, chunks, spool, errorLogs>>

(* ... which waits for the spooler and assembles the log ...                *)
AssembleLog(r) ==
    /\ Stage(r, "closing") /\ spool[r].goroutine = "ended"
    /\ wrapper' = [wrapper EXCEPT ![r].stage = "assembling"]
    /\ \E written \in IF spool[r].broken THEN {FALSE} ELSE BOOLEAN :
          log' = [log EXCEPT ![r] = IF written THEN spool[r].file ELSE @]
    /\ UNCHANGED <<enabled, toggles, chunks, spool, errorLogs>>

(* ... and removes the temporary files, whether or not it could.            *)
CleanupTempFiles(r) ==
    /\ Stage(r, "assembling")
    /\ wrapper' = [wrapper EXCEPT ![r].stage = "done"]
    /\ spool' = [spool EXCEPT ![r].temps = {}]
    /\ UNCHANGED <<enabled, toggles, chunks, log, errorLogs>>

ErrorLogs == {r \in Requests : errorLogs[r] > 0}

(* The file of r is written to, the others are older then.                  *)
WrittenTo(r) ==
    [q \in Requests |-> IF q = r THEN 1 ELSE IF q \in ErrorLogs THEN errorLogs[q] + 1 ELSE 0]

(* logRequest: an error log appears in the directory when it is opened.     *)
OpenLog(r) ==
    /\ Stage(r, "logging")
    /\ \/ /\ enabled \/ wrapper[r].force
          /\ wrapper' = [wrapper EXCEPT ![r].stage = "writing"]
          /\ \E temps \in {{}, {"request"}} : spool' = [spool EXCEPT ![r].temps = temps]
          /\ errorLogs' = IF wrapper[r].force /\ ~ enabled THEN WrittenTo(r) ELSE errorLogs
       \/ /\ wrapper' = [wrapper EXCEPT ![r].stage = "done"]
          /\ UNCHANGED <<spool, errorLogs>>
    /\ UNCHANGED <<enabled, toggles, chunks, log>>

WriteLog(r) ==
    /\ Stage(r, "writing")
    /\ \E written \in IF "whole_logs" \in Assume THEN {TRUE} ELSE BOOLEAN :
          /\ wrapper' = [wrapper EXCEPT ![r].stage =
                            IF written /\ wrapper[r].force /\ ~ enabled THEN "listing" ELSE "done"]
          /\ log' = [log EXCEPT ![r] = IF written THEN wrapper[r].body ELSE @]
    /\ spool' = [spool EXCEPT ![r].temps = IF wrapper'[r].stage = "done" THEN {} ELSE @]
    /\ errorLogs' = IF r \in ErrorLogs THEN WrittenTo(r) ELSE errorLogs
    /\ UNCHANGED <<enabled, toggles, chunks>>

(* How many error logs were written to later.                               *)
Newer(q) == Cardinality({p \in ErrorLogs : errorLogs[p] < errorLogs[q]})

ExcessBeforeThisOne ==  \* mutant: the log just written is not counted
    {q \in ErrorLogs : MaxErrorLogs > 0 /\ Newer(q) > MaxErrorLogs}

(* cleanupOldErrorLogs reads the directory, and the limit, ...              *)
Excess == {q \in ErrorLogs : MaxErrorLogs > 0 /\ Newer(q) >= MaxErrorLogs}

ListErrorLogs(r) ==
    /\ Stage(r, "listing")
    /\ wrapper' = [wrapper EXCEPT ![r].stage = "removing",
                                  ![r].victims = Excess]
    /\ UNCHANGED <<enabled, toggles, chunks, spool, log, errorLogs>>

(* ... and removes what is in excess; the deferred removal of the temporary *)
(* file comes last.                                                         *)
RemoveErrorLogs(r) ==
    /\ Stage(r, "removing")
    /\ wrapper' = [wrapper EXCEPT ![r].stage = "done", ![r].victims = {}]
    /\ errorLogs' = [q \in Requests |-> IF q \in wrapper[r].victims THEN 0 ELSE errorLogs[q]]
    /\ spool' = [spool EXCEPT ![r].temps = {}]
    /\ UNCHANGED <<enabled, toggles, chunks, log>>

-----------------------------------------------------------------------------
Goroutines(r) == Carry(r) \/ CarrierEnds(r) \/ SpoolChunk(r) \/ SpoolerEnds(r)

Finish(r) ==
    \/ Finalize(r) \/ CloseWriter(r) \/ AssembleLog(r) \/ CleanupTempFiles(r) \/ OpenLog(r)
    \/ WriteLog(r) \/ ListErrorLogs(r) \/ RemoveErrorLogs(r)

Next ==
    \/ SetEnabled
    \/ \E r \in Requests :
          \/ Wrap(r) \/ OpenStreamLog(r) \/ Write(r) \/ Return(r) \/ Goroutines(r) \/ Finish(r)
          \/ \E status \in {OK, Failed}, sse \in BOOLEAN : WriteHeader(r, status, sse)

(* The goroutines and the request's own, once the handler has returned, are *)
(* scheduled.  None of them goes on for ever, so fairness to one of them is *)
(* fairness to each.                                                        *)
Fairness == WF_vars(\E r \in Requests : Goroutines(r) \/ Finish(r))

Spec == Init /\ [][Next]_vars /\ Fairness

-----------------------------------------------------------------------------
(* A log that was written by a request that began with logging on holds     *)
(* what the client was sent, each chunk once and in order; chunks may only  *)
(* be missing of an answer with more of them than a channel holds, and      *)
(* never the first ones.                                                    *)
LogHoldsAnswer ==
    \A r \in Requests :
       Stage(r, "done") /\ log[r] # Unlogged /\ ~ wrapper[r].errorOnly =>
          /\ \A i, j \in DOMAIN log[r] : i < j => log[r][i] < log[r][j]
          /\ 1..(IF wrapper[r].sent < Buffer THEN wrapper[r].sent ELSE Buffer) \subseteq ToSet(log[r])

(* A request that is done leaves no temporary file and no goroutine behind, *)
(* whatever failed on the way.                                              *)
NothingLeftBehind ==
    \A r \in Requests :
       Stage(r, "done") => /\ spool[r].temps = {}
                           /\ chunks[r].goroutine # "running"
                           /\ spool[r].goroutine # "running"

(* When nobody is writing an error log there are not more of them than the  *)
(* configuration allows, however their clean-ups overlapped.                *)
ErrorLogsBounded ==
    MaxErrorLogs > 0 /\ (\A r \in Requests : wrapper[r].stage \notin {"logging", "writing", "listing", "removing"})
       => Cardinality(ErrorLogs) <= MaxErrorLogs

(* Finalize returns: neither goroutine waits for the other for ever.        *)
Finalizing == \E r \in Requests : wrapper[r].stage \notin {"new", "handling", "opening", "done"}

FinalizeReturns == Finalizing ~> ~ Finalizing
=============================================================================
