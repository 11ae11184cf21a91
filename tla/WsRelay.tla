------------------------------- MODULE WsRelay -------------------------------
(***************************************************************************)
(* internal/wsrelay: requests relayed to a websocket client (session.go,   *)
(* manager.go) and their callers NonStream and Stream (http.go).           *)
(*                                                                         *)
(* One session: a session's name is random, so none ever replaces another. *)
(* Goroutines: one per caller, one per request that waits for its context  *)
(* or the session's end, the session's reader, and whoever closes the      *)
(* session (the reader, the heartbeat, Manager.Stop).  An operation on the *)
(* sync.Map, on a channel or on the connection is one action.              *)
(***************************************************************************)
EXTENDS Naturals, Sequences

CONSTANTS
    Requests,
    Capacity,   \* of a request's channel: 8
    MaxChunks,  \* chunks the client sends in answer to a request (bound)
    Assume      \* what is assumed of the timing, see Assumptions

Assumptions ==
    {"lookups_apart",   \* what is looked up in the map is not closed before its use,
                        \* and the map is not emptied under a lookup
     "callers_keep_up"} \* no message arrives while the channel of a waiting caller is full

BoundsAssumption ==
    Requests # {} /\ Capacity \in Nat \ {0} /\ MaxChunks \in Nat

VARIABLES
    session,   \* live; or ending: closed, sweeping, reset, gone
    pooled,    \* Manager.sessions has it
    pending,   \* session.pending
    chan,      \* the channels' messages
    shut,      \* the channels that are closed
    cancelled, \* requests whose context is done
    caller,    \* NonStream, Stream and the request they make
    watch,     \* request's goroutine
    client,    \* what the client has answered so far
    reader,    \* session.run and dispatch
    panicked

vars == <<session, pooled, pending, chan, shut, cancelled, caller, watch, client, reader, panicked>>

Terminal == {"response", "error", "end"}
Types == {"start", "chunk"} \cup Terminal
Results == {"none", "ok", "error", "cancelled"}

TypeOK ==
    /\ session \in {"live", "closed", "sweeping", "reset", "gone"}
    /\ pooled \in BOOLEAN /\ panicked \in BOOLEAN
    /\ pending \subseteq Requests /\ shut \subseteq Requests /\ cancelled \subseteq Requests
    /\ chan \in [Requests -> Seq(Types)] /\ \A r \in Requests : Len(chan[r]) <= Capacity
    /\ caller \in [Requests -> [pc : {"new", "store", "check", "write", "wait", "done"},
                                kind : {"NonStream", "Stream"}, streaming : BOOLEAN,
                                got : 0..MaxChunks, result : Results]]
    /\ watch \in [Requests -> {"none", "on", "off"}]
    /\ client \in [Requests -> [state : {"idle", "asked", "streaming", "over"}, sent : 0..MaxChunks]]
    /\ reader \in [pc : {"read", "found", "remove", "ended"}, req : Requests, type : Types]

Init ==
    /\ session = "live" /\ pooled = TRUE /\ panicked = FALSE
    /\ pending = {} /\ shut = {} /\ cancelled = {}
    /\ chan = [r \in Requests |-> <<>>]
    /\ caller = [r \in Requests |-> [pc |-> "new", kind |-> "NonStream", streaming |-> FALSE,
                                    got |-> 0, result |-> "none"]]
    /\ watch = [r \in Requests |-> "none"]
    /\ client = [r \in Requests |-> [state |-> "idle", sent |-> 0]]
    /\ reader = [pc |-> "read", req |-> CHOOSE r \in Requests : TRUE, type |-> "error"]

-----------------------------------------------------------------------------
(* The reader holds a request it has looked up; the caller is about to.    *)
Held(r) == reader.pc = "found" /\ reader.req = r
Looking(r) == caller[r].pc = "check"

MayClose(r) == "lookups_apart" \in Assume => ~Held(r)
KeepsUp(r) ==
    "callers_keep_up" \in Assume /\ caller[r].pc = "wait" => Len(chan[r]) < Capacity
MayReset == "lookups_apart" \in Assume => \A r \in Requests : ~Looking(r)

(* A send without waiting; what nobody will read is not kept in the model.  *)
Deliver(r, type) ==
    IF caller[r].pc # "done" /\ Len(chan[r]) < Capacity THEN [chan EXCEPT ![r] = Append(@, type)]
    ELSE chan

Returns(r, result) == [caller EXCEPT ![r].pc = "done", ![r].result = result]
Drained(r) == [chan EXCEPT ![r] = <<>>]

-----------------------------------------------------------------------------
(* Manager.Send finds the session or does not ... *)
Begin(r) ==
    /\ caller[r].pc = "new"
    /\ \/ /\ pooled
          /\ \E kind \in {"NonStream", "Stream"} :
                caller' = [caller EXCEPT ![r].pc = "store", ![r].kind = kind]
       \/ ~pooled /\ caller' = Returns(r, "error")
    /\ UNCHANGED <<session, pooled, pending, chan, shut, cancelled, watch, client, reader, panicked>>

(* ... and session.request stores the request, ... *)
Store(r) ==
    /\ caller[r].pc = "store"
    /\ pending' = pending \cup {r}
    /\ caller' = [caller EXCEPT ![r].pc = "check"]
    /\ UNCHANGED <<session, pooled, chan, shut, cancelled, watch, client, reader, panicked>>

Refused(r) ==
    /\ caller' = Returns(r, "error")
    /\ pending' = pending \ {r}
    /\ shut' = IF r \in pending THEN shut \cup {r} ELSE shut
    /\ UNCHANGED <<client, watch>>

(* ... looks it up again (a type assertion on what it finds) and sends it,   *)
(* unless the session is closed ...                                          *)
Check(r) ==
    /\ Looking(r)
    /\ panicked' = (panicked \/ r \notin pending)
    /\ IF session = "live"
       THEN caller' = [caller EXCEPT ![r].pc = "write"] /\ UNCHANGED <<pending, shut, client, watch>>
       ELSE Refused(r)
    /\ UNCHANGED <<session, pooled, chan, cancelled, reader>>

(* ... or the connection fails. *)
Write(r) ==
    /\ caller[r].pc = "write"
    /\ \/ /\ session # "gone"
          /\ client' = [client EXCEPT ![r].state = "asked"]
          /\ caller' = [caller EXCEPT ![r].pc = "wait"]
          /\ watch' = [watch EXCEPT ![r] = "on"]
          /\ UNCHANGED <<pending, shut>>
       \/ Refused(r)
    /\ UNCHANGED <<session, pooled, chan, cancelled, reader, panicked>>

(* The request's context is done; nobody looks before the request is sent.  *)
Cancel(r) ==
    /\ caller[r].pc = "wait" /\ r \notin cancelled
    /\ cancelled' = cancelled \cup {r}
    /\ UNCHANGED <<session, pooled, pending, chan, shut, caller, watch, client, reader, panicked>>

WatchTwice(r) ==  \* mutant: a channel is closed without closeOnce
    /\ watch[r] = "on"
    /\ \/ /\ r \in cancelled /\ (r \in pending => MayClose(r))
          /\ pending' = pending \ {r}
          /\ shut' = IF r \in pending THEN shut \cup {r} ELSE shut
          /\ panicked' = (panicked \/ r \in pending \cap shut)
       \/ session # "live" /\ UNCHANGED <<pending, shut, panicked>>
    /\ watch' = [watch EXCEPT ![r] = "off"]
    /\ UNCHANGED <<session, pooled, chan, cancelled, caller, client, reader>>

Watch(r) ==
    /\ watch[r] = "on"
    /\ \/ /\ r \in cancelled /\ (r \in pending => MayClose(r))
          /\ pending' = pending \ {r}
          /\ shut' = IF r \in pending THEN shut \cup {r} ELSE shut
       \/ session # "live" /\ UNCHANGED <<pending, shut>>
    /\ watch' = [watch EXCEPT ![r] = "off"]
    /\ UNCHANGED <<session, pooled, chan, cancelled, caller, client, reader, panicked>>

(* The caller's loop.  NonStream keeps a whole answer: a closed channel ends *)
(* a stream it has begun like its end would.                                 *)
Receive(r) ==
    LET type == Head(chan[r])
        got == [caller EXCEPT ![r].streaming = TRUE,
                   ![r].got = IF type = "start" /\ caller[r].kind = "NonStream" THEN 0
                              ELSE IF type = "chunk" THEN @ + 1 ELSE @]
    IN  /\ caller[r].pc = "wait" /\ chan[r] # <<>>
        /\ chan' = IF type \in Terminal THEN Drained(r) ELSE [chan EXCEPT ![r] = Tail(@)]
        /\ caller' = CASE type = "error" -> Returns(r, "error")
                       [] type \in {"response", "end"} -> Returns(r, "ok")
                       [] OTHER -> got
        /\ UNCHANGED <<session, pooled, pending, shut, cancelled, watch, client, reader, panicked>>

SeeClosed(r) ==
    /\ caller[r].pc = "wait" /\ chan[r] = <<>> /\ r \in shut
    /\ caller' = Returns(r, IF caller[r].streaming /\ caller[r].kind = "NonStream"
                         THEN "ok" ELSE "error")
    /\ UNCHANGED <<session, pooled, pending, chan, shut, cancelled, watch, client, reader, panicked>>

SeeCancelled(r) ==
    /\ caller[r].pc = "wait" /\ r \in cancelled
    /\ caller' = Returns(r, "cancelled")
    /\ chan' = Drained(r)
    /\ UNCHANGED <<session, pooled, pending, shut, cancelled, watch, client, reader, panicked>>

-----------------------------------------------------------------------------
(* The client answers a request: at once, or by a stream, or with an error;  *)
(* the reader takes the message and looks its request up.                    *)
Answer(r, type) ==
    LET c == client[r] IN
    /\ reader.pc = "read" /\ session # "gone"
    /\ "lookups_apart" \in Assume => r \notin pending \cap shut
    /\ CASE type = "response" -> c.state = "asked"
         [] type = "error" -> c.state \in {"asked", "streaming"}
         [] type = "start" -> c.state = "asked"
         [] type = "chunk" -> c.state = "streaming" /\ c.sent < MaxChunks
         [] type = "end" -> c.state = "streaming"
    /\ client' = [client EXCEPT ![r].state = IF type \in Terminal THEN "over" ELSE "streaming",
                                ![r].sent = IF type = "chunk" THEN @ + 1 ELSE @]
    /\ reader' = IF r \in pending THEN [pc |-> "found", req |-> r, type |-> type] ELSE reader
    /\ UNCHANGED <<session, pooled, pending, chan, shut, cancelled, caller, watch, panicked>>

Dispatch ==
    LET r == reader.req IN
    /\ reader.pc = "found"
    /\ KeepsUp(r)
    /\ IF r \in shut THEN panicked' = TRUE /\ UNCHANGED chan
                     ELSE chan' = Deliver(r, reader.type) /\ UNCHANGED panicked
    /\ reader' = [reader EXCEPT !.pc = IF reader.type \in Terminal THEN "remove" ELSE "read"]
    /\ UNCHANGED <<session, pooled, pending, shut, cancelled, caller, watch, client>>

Remove ==
    LET r == reader.req IN
    /\ reader.pc = "remove"
    /\ pending' = pending \ {r}
    /\ shut' = IF r \in pending THEN shut \cup {r} ELSE shut
    /\ reader' = [reader EXCEPT !.pc = "read"]
    /\ UNCHANGED <<session, pooled, chan, cancelled, caller, watch, client, panicked>>

-----------------------------------------------------------------------------
(* cleanup, by the first who calls it: the connection has failed for the    *)
(* reader or the heartbeat, or Manager.Stop has emptied the pool.            *)
Close(stop) ==
    /\ session = "live"
    /\ session' = "closed"
    /\ pooled' = (pooled /\ ~stop)
    /\ UNCHANGED <<pending, chan, shut, cancelled, caller, watch, client, reader, panicked>>

(* Range begins: it visits every request stored by now. *)
Sweep ==
    /\ session = "closed"
    /\ session' = "sweeping"
    /\ UNCHANGED <<pooled, pending, chan, shut, cancelled, caller, watch, client, reader, panicked>>

FailSilently(r) ==  \* mutant: the channel is closed without a message
    /\ session = "sweeping" /\ r \in pending \ shut /\ MayClose(r) /\ KeepsUp(r)
    /\ shut' = shut \cup {r}
    /\ UNCHANGED <<session, pooled, pending, chan, cancelled, caller, watch, client, reader, panicked>>

Fail(r) ==
    /\ session = "sweeping" /\ r \in pending \ shut /\ MayClose(r) /\ KeepsUp(r)
    /\ chan' = Deliver(r, "error")
    /\ shut' = shut \cup {r}
    /\ UNCHANGED <<session, pooled, pending, cancelled, caller, watch, client, reader, panicked>>

Reset ==
    /\ session = "sweeping" /\ pending \subseteq shut /\ MayReset
    /\ pending' = {}
    /\ session' = "reset"
    /\ UNCHANGED <<pooled, chan, shut, cancelled, caller, watch, client, reader, panicked>>

(* conn.Close and handleSessionClosed *)
Disconnect ==
    /\ session = "reset"
    /\ session' = "gone" /\ pooled' = FALSE
    /\ reader' = IF reader.pc = "read" THEN [reader EXCEPT !.pc = "ended"] ELSE reader
    /\ UNCHANGED <<pending, chan, shut, cancelled, caller, watch, client, panicked>>

-----------------------------------------------------------------------------
Proceed(r) == Store(r) \/ Check(r) \/ Write(r)
Wait(r) == Receive(r) \/ SeeClosed(r) \/ SeeCancelled(r)
Cleanup == Sweep \/ (\E r \in Requests : Fail(r)) \/ Reset \/ Disconnect

Next ==
    \/ \E r \in Requests : Begin(r) \/ Proceed(r) \/ Cancel(r) \/ Watch(r) \/ Wait(r)
    \/ \E r \in Requests, type \in Types : Answer(r, type)
    \/ Dispatch \/ Remove
    \/ \E stop \in BOOLEAN : Close(stop)
    \/ Cleanup

Spec == Init /\ [][Next]_vars

(* Goroutines run.  Nobody need begin a request, answer, cancel or close.    *)
Fairness ==
    /\ \A r \in Requests : WF_vars(Proceed(r)) /\ WF_vars(Watch(r)) /\ WF_vars(Wait(r))
    /\ WF_vars(Dispatch) /\ WF_vars(Remove) /\ WF_vars(Cleanup)

FairSpec == Spec /\ Fairness

-----------------------------------------------------------------------------
(* No goroutine of the relay sends on a channel another one has closed, nor  *)
(* finds the map emptied under its hands (session.go 101, 141, 169).         *)
NoPanic == ~panicked

(* A NonStream call or a stream that ends well has all the client has sent:  *)
(* the end of a session must not look like the end of the answer.            *)
SuccessIsComplete ==
    \A r \in Requests \ cancelled :
        caller[r].result = "ok" => client[r].state = "over" /\ caller[r].got = client[r].sent

(* No caller is left waiting: once its context is done, the session is       *)
(* closing or the client's last message has been read, it returns; also the  *)
(* request that comes while the session is being closed.                     *)
CallersReturn ==
    \A r \in Requests :
        (caller[r].pc = "wait" /\ (r \in cancelled \/ session # "live" \/ client[r].state = "over"))
            ~> caller[r].pc = "done"

(* A request whose caller has returned leaves nothing in the session's map.  *)
NothingLeftPending ==
    \A r \in Requests :
        (caller[r].pc = "done" /\ client[r].state \in {"idle", "over"}) ~> r \notin pending
=============================================================================
