----------------------------- MODULE CodexSession -----------------------------
(***************************************************************************)
(* One execution session of internal/runtime/executor/                     *)
(* codex_websockets_executor.go: requests of one client that share a       *)
(* websocket to the provider, one after the other under reqMu, and the     *)
(* goroutine of each connection that hands what it reads to the request    *)
(* that is active.                                                         *)
(*                                                                         *)
(* A connection is the number of its dial, a channel is the request that   *)
(* made it.  An event is [owner, last]: the request it answers and whether *)
(* the answer ends with it, well or in an error.                           *)
(***************************************************************************)
EXTENDS Naturals, Sequences

CONSTANTS
    Requests,
    MaxConns,  \* dials that succeed (bound)
    Streams,   \* which of Execute (FALSE) and ExecuteStream (TRUE) are called
    Assume,    \* what is assumed of the provider and the timing, see Assumptions
    None

Assumptions ==
    {"upgrades",       \* a dial that fails has no HTTP answer
     "readers_apart",  \* what goes on at a connection that is lost or given up, its
                       \* goroutine does before the session's next request or connection
     "steady_writes",  \* no connection is lost while a request is being sent
     "patience"}       \* no request is cancelled before its answer has ended

Conns == 1..MaxConns
Event == [owner : Requests, last : {"no", "completed", "error"}]
Message == [conn : Conns, event : Event \cup {None}]

SessionAssumption ==
    /\ MaxConns \in Nat /\ Streams \subseteq BOOLEAN
    /\ None \notin Requests /\ None \notin Conns /\ None \notin Event

VARIABLES
    reqMu,    \* who holds the session's mutex
    conn,     \* codexWebsocketSession.conn
    dialed,   \* connections so far
    open,     \* connections neither closed nor broken
    upstream, \* events the provider sends on a connection
    active,   \* activeCh
    chan,     \* what is in the channels
    closed,   \* channels that are closed
    reader,   \* readUpstreamLoop of each connection
    req,      \* Execute and ExecuteStream
    heard,    \* whose events a request has been given (history)
    panicked

vars == <<reqMu, conn, dialed, open, upstream, active, chan, closed, reader, req, heard, panicked>>

Sending == {"ensure", "activate", "write", "again", "rewrite"}
Steady == "steady_writes" \in Assume => \A r \in Requests : req[r].pc \notin {"write", "again", "rewrite"}
NoReader == [pc |-> "none", chan |-> None, event |-> None]

TypeOK ==
    /\ reqMu \in Requests \cup {None}
    /\ conn \in Conns \cup {None} /\ dialed \in 0..MaxConns /\ open \subseteq Conns
    /\ upstream \in [Conns -> Seq(Event)]
    /\ active \in Requests \cup {None}
    /\ chan \in [Requests -> Seq(Message)] /\ closed \subseteq Requests
    /\ reader \in [Conns -> [pc : {"none", "read", "deliver", "fail", "close", "invalidate", "ended"},
                             chan : Requests \cup {None}, event : Event \cup {None}]]
    /\ req \in [Requests -> [pc : {"new", "lock", "read", "finish", "done", "abandoned"} \cup Sending,
                             stream : BOOLEAN, conn : Conns \cup {None},
                             result : {"none", "ok", "error", "http"}]]
    /\ heard \in [Requests -> SUBSET Requests]
    /\ panicked \in BOOLEAN

Init ==
    /\ reqMu = None /\ conn = None /\ dialed = 0 /\ open = {} /\ active = None
    /\ upstream = [k \in Conns |-> <<>>]
    /\ chan = [r \in Requests |-> <<>>] /\ closed = {}
    /\ reader = [k \in Conns |-> NoReader]
    /\ req = [r \in Requests |-> [pc |-> "new", stream |-> FALSE, conn |-> None, result |-> "none"]]
    /\ heard = [r \in Requests |-> {}]
    /\ panicked = FALSE

Goto(r, label) == req' = [req EXCEPT ![r].pc = label]
Ends(r, result) == req' = [req EXCEPT ![r].pc = "finish", ![r].result = result]

(* invalidateUpstreamConn: only the session's connection is given up. *)
Invalidate(k) ==
    /\ conn' = IF conn = k THEN None ELSE conn
    /\ open' = IF conn = k THEN open \ {k} ELSE open

-----------------------------------------------------------------------------
Begin(r) ==
    /\ req[r].pc = "new"
    /\ \E stream \in Streams : req' = [req EXCEPT ![r].pc = "lock", ![r].stream = stream]
    /\ UNCHANGED <<reqMu, conn, dialed, open, upstream, active, chan, closed, reader, heard, panicked>>

Lock(r) ==
    /\ req[r].pc = "lock" /\ reqMu = None
    /\ reqMu' = r
    /\ Goto(r, "ensure")
    /\ UNCHANGED <<conn, dialed, open, upstream, active, chan, closed, reader, heard, panicked>>

(* ensureUpstreamConn: the connection there is, or a new one and its reader; *)
(* "again" is the one retry after a failed write.                            *)
After(r) == IF req[r].pc = "ensure" THEN "activate" ELSE "rewrite"

Reuse(r) ==
    /\ req[r].pc \in {"ensure", "again"} /\ conn # None
    /\ req' = [req EXCEPT ![r].pc = After(r), ![r].conn = conn]
    /\ UNCHANGED <<reqMu, conn, dialed, open, upstream, active, chan, closed, reader, heard, panicked>>

Dial(r) ==
    LET k == dialed + 1 IN
    /\ req[r].pc \in {"ensure", "again"} /\ conn = None /\ dialed < MaxConns
    /\ "readers_apart" \in Assume => \A j \in Conns : reader[j].pc \in {"none", "ended"}
    /\ dialed' = k /\ conn' = k /\ open' = open \cup {k}
    /\ reader' = [reader EXCEPT ![k].pc = "read"]
    /\ req' = [req EXCEPT ![r].pc = After(r), ![r].conn = k]
    /\ UNCHANGED <<reqMu, upstream, active, chan, closed, heard, panicked>>

DialFails(r) ==
    /\ req[r].pc \in {"ensure", "again"} /\ conn = None
    /\ Ends(r, "error")
    /\ UNCHANGED <<reqMu, conn, dialed, open, upstream, active, chan, closed, reader, heard, panicked>>

(* The provider answers the upgrade with a status: the request goes by HTTP  *)
(* (426) or fails; ExecuteStream returns without unlocking reqMu.            *)
UpgradeRefused(r) ==
    /\ "upgrades" \notin Assume
    /\ req[r].pc = "ensure" /\ conn = None
    /\ \E result \in {"http", "error"} :
          req' = [req EXCEPT ![r].pc = IF req[r].stream THEN "abandoned" ELSE "finish",
                             ![r].result = result]
    /\ UNCHANGED <<reqMu, conn, dialed, open, upstream, active, chan, closed, reader, heard, panicked>>

SetActive(r) ==
    /\ req[r].pc = "activate"
    /\ "readers_apart" \in Assume => \A k \in Conns \ open : reader[k].pc \in {"none", "ended"}
    /\ active' = r
    /\ Goto(r, "write")
    /\ UNCHANGED <<reqMu, conn, dialed, open, upstream, chan, closed, reader, heard, panicked>>

(* The write succeeds, maybe into a connection that is broken, or fails: the *)
(* first time the connection is given up and another one tried.  An answer   *)
(* may end in an event the loop does not know the end by (response.failed).  *)
Answer(r, end) == <<[owner |-> r, last |-> "no"], [owner |-> r, last |-> end]>>

Write(r) ==
    LET k == req[r].conn IN
    /\ req[r].pc \in {"write", "rewrite"}
    /\ \/ /\ k \in open
          /\ \E end \in {"completed", "error", "no"} :
                upstream' = [upstream EXCEPT ![k] = @ \o Answer(r, end)]
          /\ Goto(r, "read")
          /\ UNCHANGED <<conn, open>>
       \/ k \notin open /\ conn = k /\ Goto(r, "read") /\ UNCHANGED <<upstream, conn, open>>
       \/ /\ k \notin open
          /\ Invalidate(k)
          /\ IF req[r].pc = "write" THEN Goto(r, "again") ELSE Ends(r, "error")
          /\ UNCHANGED upstream
    /\ UNCHANGED <<reqMu, dialed, active, chan, closed, reader, heard, panicked>>

-----------------------------------------------------------------------------
(* The loop over readCodexWebsocketMessage: what another connection sent is  *)
(* skipped, an error event gives the connection up.                          *)
ReadEvent(r) ==
    LET m == Head(chan[r]) IN
    /\ req[r].pc = "read" /\ chan[r] # <<>>
    /\ chan' = [chan EXCEPT ![r] = Tail(@)]
    /\ IF m.conn # req[r].conn THEN UNCHANGED <<req, heard, conn, open>>
       ELSE IF m.event = None THEN Ends(r, "error") /\ UNCHANGED <<heard, conn, open>>
       ELSE /\ heard' = [heard EXCEPT ![r] = @ \cup {m.event.owner}]
            /\ CASE m.event.last = "no" -> UNCHANGED <<req, conn, open>>
                 [] m.event.last = "completed" -> Ends(r, "ok") /\ UNCHANGED <<conn, open>>
                 [] m.event.last = "error" -> Ends(r, "error") /\ Invalidate(req[r].conn)
    /\ UNCHANGED <<reqMu, dialed, upstream, active, closed, reader, panicked>>

ReadClosed(r) ==
    /\ req[r].pc = "read" /\ chan[r] = <<>> /\ r \in closed
    /\ Ends(r, "error")
    /\ UNCHANGED <<reqMu, conn, dialed, open, upstream, active, chan, closed, reader, heard, panicked>>

(* The client goes away; the connection is kept, whatever still comes.      *)
Cancel(r) ==
    /\ "patience" \notin Assume
    /\ req[r].pc = "read"
    /\ Ends(r, "error")
    /\ UNCHANGED <<reqMu, conn, dialed, open, upstream, active, chan, closed, reader, heard, panicked>>

FinishLocked(r) ==  \* mutant: the mutex is kept
    /\ req[r].pc = "finish"
    /\ active' = IF active = r THEN None ELSE active
    /\ chan' = [chan EXCEPT ![r] = <<>>]
    /\ Goto(r, "done")
    /\ UNCHANGED <<reqMu, conn, dialed, open, upstream, closed, reader, heard, panicked>>

(* clearActive, and reqMu is unlocked. *)
Finish(r) ==
    /\ req[r].pc = "finish"
    /\ active' = IF active = r THEN None ELSE active
    /\ chan' = [chan EXCEPT ![r] = <<>>]
    /\ reqMu' = None
    /\ Goto(r, "done")
    /\ UNCHANGED <<conn, dialed, open, upstream, closed, reader, heard, panicked>>

-----------------------------------------------------------------------------
(* readUpstreamLoop takes an event and the active channel, ... *)
ReadMessage(k) ==
    /\ reader[k].pc = "read" /\ upstream[k] # <<>> /\ k \in open
    /\ upstream' = [upstream EXCEPT ![k] = Tail(@)]
    /\ reader' = IF active = None THEN reader
                 ELSE [reader EXCEPT ![k] = [pc |-> "deliver", chan |-> active, event |-> Head(upstream[k])]]
    /\ UNCHANGED <<reqMu, conn, dialed, open, active, chan, closed, req, heard, panicked>>

Put(r, message) == IF req[r].pc = "done" THEN chan ELSE [chan EXCEPT ![r] = Append(@, message)]

(* ... and sends, unless the request has ended; ... *)
Deliver(k) ==
    LET r == reader[k].chan IN
    /\ reader[k].pc = "deliver"
    /\ IF r \in closed THEN panicked' = TRUE /\ UNCHANGED chan
       ELSE chan' = Put(r, [conn |-> k, event |-> reader[k].event]) /\ UNCHANGED panicked
    /\ reader' = [reader EXCEPT ![k] = [NoReader EXCEPT !.pc = "read"]]
    /\ UNCHANGED <<reqMu, conn, dialed, open, upstream, active, closed, req, heard>>

(* ... when reading fails the active channel gets the error ... *)
ReadFails(k) ==
    /\ reader[k].pc = "read" /\ k \notin open
    /\ reader' = [reader EXCEPT ![k].pc = IF active = None THEN "invalidate" ELSE "fail", ![k].chan = active]
    /\ UNCHANGED <<reqMu, conn, dialed, open, upstream, active, chan, closed, req, heard, panicked>>

FailActive(k) ==
    LET r == reader[k].chan IN
    /\ reader[k].pc = "fail"
    /\ IF r \in closed THEN panicked' = TRUE /\ UNCHANGED chan
       ELSE chan' = Put(r, [conn |-> k, event |-> None]) /\ UNCHANGED panicked
    /\ active' = IF active = r THEN None ELSE active
    /\ reader' = [reader EXCEPT ![k].pc = "close"]
    /\ UNCHANGED <<reqMu, conn, dialed, open, upstream, closed, req, heard>>

(* ... and is closed, *)
CloseActive(k) ==
    LET r == reader[k].chan IN
    /\ reader[k].pc = "close"
    /\ panicked' = (panicked \/ r \in closed)
    /\ closed' = closed \cup {r}
    /\ reader' = [reader EXCEPT ![k].pc = "invalidate"]
    /\ UNCHANGED <<reqMu, conn, dialed, open, upstream, active, chan, req, heard>>

(* and the connection is given up. *)
EndReader(k) ==
    /\ reader[k].pc = "invalidate"
    /\ Invalidate(k)
    /\ reader' = [reader EXCEPT ![k] = [NoReader EXCEPT !.pc = "ended"]]
    /\ UNCHANGED <<reqMu, dialed, upstream, active, chan, closed, req, heard, panicked>>

(* The provider or the network closes a connection. *)
Break(k) ==
    /\ k \in open /\ Steady
    /\ open' = open \ {k}
    /\ UNCHANGED <<reqMu, conn, dialed, upstream, active, chan, closed, reader, req, heard, panicked>>

(* The read deadline, where nothing comes. *)
IdleTimeout(k) == upstream[k] = <<>> /\ Break(k)

(* CloseExecutionSession; a later request has another session. *)
CloseSession ==
    /\ conn # None /\ Steady
    /\ conn' = None /\ open' = open \ {conn}
    /\ UNCHANGED <<reqMu, dialed, upstream, active, chan, closed, reader, req, heard, panicked>>

-----------------------------------------------------------------------------
Step(r) ==
    \/ Lock(r) \/ Reuse(r) \/ Dial(r) \/ DialFails(r) \/ UpgradeRefused(r) \/ SetActive(r)
    \/ Write(r) \/ ReadEvent(r) \/ ReadClosed(r) \/ Finish(r)

ReaderStep(k) ==
    \/ ReadMessage(k) \/ Deliver(k) \/ ReadFails(k)
    \/ FailActive(k) \/ CloseActive(k) \/ EndReader(k)

Next ==
    \/ \E r \in Requests : Begin(r) \/ Step(r) \/ Cancel(r)
    \/ \E k \in Conns : ReaderStep(k) \/ Break(k)
    \/ CloseSession

Spec == Init /\ [][Next]_vars

(* Goroutines run, and a connection that stays silent runs into its deadline. *)
Fairness ==
    /\ \A r \in Requests : WF_vars(Step(r))
    /\ \A k \in Conns : WF_vars(ReaderStep(k)) /\ WF_vars(IdleTimeout(k))

FairSpec == Spec /\ Fairness

-----------------------------------------------------------------------------
(* No goroutine sends on a closed channel or closes one twice. *)
NoPanic == ~panicked

(* A request is given events of its own answer only, although the requests   *)
(* of a session share connections and their readers (ev.conn # conn, 669).   *)
OwnAnswerOnly == \A r \in Requests : heard[r] \subseteq {r}

(* Every request of a session returns and lets the next one run (line 42:    *)
(* the HTTP implementation is kept "as a fallback [...] for websocket        *)
(* upgrade failures").                                                       *)
SessionServes == \A r \in Requests : req[r].pc = "lock" ~> req[r].pc \in {"done", "abandoned"}
=============================================================================
