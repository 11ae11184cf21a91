-------------------------- MODULE WatcherDispatch --------------------------
(***************************************************************************)
(* From a changed auth file or a websocket client to the manager:          *)
(* internal/watcher (events.go, clients.go, dispatcher.go) and the part of *)
(* sdk/cliproxy/service.go that consumes the updates.                      *)
(*                                                                         *)
(* Goroutines: the one that handles file events; a reload of all clients   *)
(* (at the start, and when a config reload's timer fires), which overlaps  *)
(* with it; one per websocket client that comes and one per client that    *)
(* goes; the dispatch loop; the consumer.  An action is one critical       *)
(* section, one read of the directory or one channel operation.            *)
(*                                                                         *)
(* The state of a credential is [ver, there, content]: "content" is what a *)
(* hash or authEqual can tell apart; "ver" numbers the changes and is kept *)
(* for the refinement only, no guard reads it but through what it bounds.  *)
(***************************************************************************)
EXTENDS Naturals, Sequences, FiniteSets

CONSTANTS
    Files,       \* auth files
    Channels,    \* websocket clients; each connection has an ID of its own
    MaxChanges,  \* changes of all credentials together (bound)
    MaxEvents,   \* file events not handled yet (bound)
    MaxReloads,  \* reloads after the first (bound)
    QueueSize,   \* capacity of the service's channel
    Assume,      \* what is assumed of the environment, see Assumptions
    NoUpdate

Creds == Files \cup Channels

Assumptions ==
    {"refreshes_apart",  \* two refreshes do not overlap, nor does a client go in a forced one
     "removals_apart",   \* a file is not removed twice within the debounce window
     "lasting_files",    \* a file does not go before the event of its coming has been handled
     "steady_reload",    \* no file goes while a reload that cuts currentAuths is about to read them
     "fresh_content",    \* a file is not rewritten with the content it had
     "connected_first"}  \* a client does not go before the service has been told that it came

ASSUME BoundsAssumption ==
    /\ Files \cap Channels = {} /\ IsFiniteSet(Creds)
    /\ MaxChanges \in Nat \ {0} /\ MaxEvents \in Nat \ {0} /\ MaxReloads \in Nat
    /\ QueueSize \in Nat \ {0} /\ Assume \subseteq Assumptions

VARIABLES
    source,    \* the files' contents and the sessions of the relay
    empty,     \* files that exist but hold nothing: a write is under way
    changes,   \* changes of all credentials so far
    events,    \* what fsnotify has reported
    recent,    \* lastRemoveTimes within authRemoveDebounceWindow
    hash,      \* lastAuthHashes
    current,   \* currentAuths
    runtime,   \* runtimeAuths
    handler,   \* the goroutine of processEvents
    reload,    \* the goroutine in reloadClients
    client,    \* the goroutines in wsOnConnected and wsOnDisconnected
    pending,   \* pendingUpdates
    batch,     \* the batch dispatchLoop is sending
    queue,     \* Service.authUpdates
    manager,   \* the manager's entries
    reloads    \* reloads so far

vars == <<source, empty, changes, events, recent, hash, current, runtime, handler, reload,
          client, pending, batch, queue, manager, reloads>>
outside == <<source, empty, changes>>
pipeline == <<batch, queue, manager>>

State == [ver : 0..MaxChanges, there : BOOLEAN, content : 0..MaxChanges]
Gone == [ver |-> 0, there |-> FALSE, content |-> 0]
Same(s, t) == s.there = t.there /\ (s.there => s.content = t.content)

Updates == [Creds -> State \cup {NoUpdate}]
NoUpdates == [c \in Creds |-> NoUpdate]
Blank == [f \in Files |-> Gone]

Refresh == {"snapshot", "prepare", "dispatch"}  \* refreshAuthState
Job == [pc : {"idle", "read", "hash", "settle", "remove", "filter", "rescan"} \cup Refresh,
        file : Files \cup {NoUpdate}, read : State, force : BOOLEAN,
        snap : [Files -> State], updates : Updates]
Idle == [pc |-> "idle", file |-> NoUpdate, read |-> Gone, force |-> FALSE,
         snap |-> Blank, updates |-> NoUpdates]

TypeOK ==
    /\ source \in [Creds -> State]
    /\ empty \subseteq Files /\ recent \subseteq Files /\ changes \in Nat
    /\ events \in Seq([file : Files, op : {"write", "remove"}]) /\ Len(events) <= MaxEvents
    /\ hash \in [Files -> 0..MaxChanges \cup {NoUpdate}]
    /\ current \in [Creds -> State]
    /\ runtime \in [Channels -> State]
    /\ handler \in Job /\ reload \in Job
    /\ client \in [Channels -> [up : {"none", "joined", "kept", "told"},
                                down : {"none", "left", "dropped", "told"}]]
    /\ pending \in Updates /\ batch \in Updates
    /\ queue \in Seq([id : Creds, state : State]) /\ Len(queue) <= QueueSize
    /\ manager \in [Creds -> State]
    /\ reloads \in 0..MaxReloads

(* The manager has loaded the files; reloadClients is about to run in Start, *)
(* the goroutine of processEvents runs already.                             *)
Init ==
    /\ source \in [Creds -> {Gone, [Gone EXCEPT !.there = TRUE]}]
    /\ \A c \in Channels : source[c] = Gone
    /\ empty = {} /\ changes = 0 /\ recent = {} /\ events = <<>>
    /\ hash = [f \in Files |-> NoUpdate]
    /\ current = [c \in Creds |-> Gone]
    /\ runtime = [c \in Channels |-> Gone]
    /\ handler = Idle
    /\ reload = [Idle EXCEPT !.pc = "rescan"]
    /\ client = [c \in Channels |-> [up |-> "none", down |-> "none"]]
    /\ pending = NoUpdates /\ batch = NoUpdates /\ queue = <<>>
    /\ manager = source
    /\ reloads = 0

-----------------------------------------------------------------------------
(* The directory, as others write it.                                      *)
ChangesLeft(n) == changes + n <= MaxChanges

Report(f, op) ==
    /\ Len(events) < MaxEvents
    /\ events' = Append(events, [file |-> f, op |-> op])

Away(c) == [source[c] EXCEPT !.ver = @ + 1, !.there = FALSE]

MayGo == "steady_reload" \in Assume => reload.pc \notin {"rescan", "snapshot"}

(* os.WriteFile opens the file, which empties it, ... *)
Truncate(f) ==
    /\ f \notin empty
    /\ ChangesLeft(IF source[f].there THEN 2 ELSE 1)
    /\ source[f].there => MayGo
    /\ IF source[f].there
       THEN source' = [source EXCEPT ![f] = Away(f)] /\ changes' = changes + 1
       ELSE UNCHANGED <<source, changes>>
    /\ empty' = empty \cup {f}
    /\ Report(f, "write")
    /\ UNCHANGED <<recent, hash, current, runtime, handler, reload, client, pending,
                   pipeline, reloads>>

(* ... and writes it: something new, or what was there before. *)
Fill(f) ==
    /\ f \in empty
    /\ \E content \in {source[f].ver + 1, source[f].content} :
          /\ "fresh_content" \in Assume => content = source[f].ver + 1
          /\ source' = [source EXCEPT ![f] = [ver |-> source[f].ver + 1, there |-> TRUE,
                                             content |-> content]]
    /\ empty' = empty \ {f} /\ changes' = changes + 1
    /\ Report(f, "write")
    /\ UNCHANGED <<recent, hash, current, runtime, handler, reload, client, pending,
                   pipeline, reloads>>

RemoveFile(f) ==
    /\ source[f].there /\ ChangesLeft(1) /\ MayGo
    /\ "lasting_files" \in Assume => hash[f] # NoUpdate
    /\ "removals_apart" \in Assume =>
          f \notin recent /\ \A i \in 1..Len(events) : events[i] # [file |-> f, op |-> "remove"]
    /\ source' = [source EXCEPT ![f] = Away(f)] /\ changes' = changes + 1
    /\ Report(f, "remove")
    /\ UNCHANGED <<empty, recent, hash, current, runtime, handler, reload, client, pending,
                   pipeline, reloads>>

-----------------------------------------------------------------------------
(* addOrUpdateClient reads the file; one that is not there, or is empty, is  *)
(* left alone (authFileUnchanged, which reads it before, decides nothing     *)
(* that the comparison of CompareHash does not).                             *)
AfterRead(f) ==
    IF source[f].there THEN [Idle EXCEPT !.pc = "hash", !.file = f, !.read = source[f]]
    ELSE Idle

(* handleEvent, the event taken from fsnotify's channel.  A second removal   *)
(* within the window is dropped (shouldDebounceRemove).                      *)
TakeEvent ==
    LET e == Head(events) IN
    /\ handler = Idle /\ events # <<>>
    /\ events' = Tail(events)
    /\ \/ e.op = "write" /\ handler' = AfterRead(e.file) /\ UNCHANGED recent
       \/ /\ e.op = "remove" /\ e.file \notin recent
          /\ recent' = recent \cup {e.file}
          /\ handler' = [Idle EXCEPT !.pc = "settle", !.file = e.file]
       \/ e.op = "remove" /\ e.file \in recent /\ UNCHANGED <<handler, recent>>
    /\ UNCHANGED <<outside, hash, current, runtime, reload, client, pending, pipeline, reloads>>

WindowPasses(f) ==
    /\ f \in recent /\ ~(handler.pc = "settle" /\ handler.file = f)
    /\ recent' = recent \ {f}
    /\ UNCHANGED <<outside, events, hash, current, runtime, handler, reload, client, pending,
                   pipeline, reloads>>

(* After replaceCheckDelay: os.Stat and isKnownAuthFile. *)
Settle ==
    LET f == handler.file
        exists == source[f].there \/ f \in empty
    IN  /\ handler.pc = "settle"
        /\ handler' = IF exists THEN [handler EXCEPT !.pc = "read"]
                      ELSE IF hash[f] = NoUpdate THEN Idle
                      ELSE [handler EXCEPT !.pc = "remove"]
        /\ UNCHANGED <<outside, events, recent, hash, current, runtime, reload, client, pending,
                       pipeline, reloads>>

ReadFile ==
    /\ handler.pc = "read"
    /\ handler' = AfterRead(handler.file)
    /\ UNCHANGED <<outside, events, recent, hash, current, runtime, reload, client, pending,
                   pipeline, reloads>>

CompareHash ==
    LET f == handler.file IN
    /\ handler.pc = "hash"
    /\ IF hash[f] = handler.read.content
       THEN handler' = Idle /\ UNCHANGED hash
       ELSE /\ hash' = [hash EXCEPT ![f] = handler.read.content]
            /\ handler' = [Idle EXCEPT !.pc = "snapshot"]
    /\ UNCHANGED <<outside, events, recent, current, runtime, reload, client, pending,
                   pipeline, reloads>>

RemoveClient ==
    /\ handler.pc = "remove"
    /\ hash' = [hash EXCEPT ![handler.file] = NoUpdate]
    /\ handler' = [Idle EXCEPT !.pc = "snapshot"]
    /\ UNCHANGED <<outside, events, recent, current, runtime, reload, client, pending,
                   pipeline, reloads>>

-----------------------------------------------------------------------------
(* reloadClients: the clients of providers whose excluded models changed    *)
(* are struck from currentAuths, so that they will be added again; with     *)
(* rescanAuth the hashes are read anew.                                     *)
BeginReload(cut, rescan, force) ==
    /\ reload = Idle /\ reloads < MaxReloads
    /\ "steady_reload" \in Assume => \A f \in cut : source[f].there
    /\ current' = [c \in Creds |-> IF c \in cut THEN [current[c] EXCEPT !.there = FALSE]
                                   ELSE current[c]]
    /\ reload' = [Idle EXCEPT !.pc = IF rescan THEN "rescan" ELSE "snapshot", !.force = force]
    /\ reloads' = reloads + 1
    /\ UNCHANGED <<outside, events, recent, hash, runtime, handler, client, pending, pipeline>>

Rescan ==
    /\ reload.pc = "rescan"
    /\ hash' = [f \in Files |-> IF source[f].there THEN source[f].content ELSE NoUpdate]
    /\ reload' = [reload EXCEPT !.pc = "snapshot"]
    /\ UNCHANGED <<outside, events, recent, current, runtime, handler, client, pending,
                   pipeline, reloads>>

-----------------------------------------------------------------------------
(* refreshAuthState, in either goroutine: what it does to its job.          *)
SnapshotOf(job) ==
    [job EXCEPT !.pc = "prepare", !.snap = [f \in Files |-> source[f]]]

Listed(job) ==
    [c \in Creds |-> IF c \in Files THEN job.snap[c] ELSE runtime[c]]

(* prepareAuthUpdatesLocked *)
UpdateFor(job, c) ==
    LET new == Listed(job)[c] IN
    IF \/ new.there /\ (job.force \/ ~Same(current[c], new))
       \/ ~new.there /\ current[c].there
    THEN new ELSE NoUpdate

MergeFirst(updates) ==  \* mutant: an update that waits is not replaced
    pending' = [c \in Creds |-> IF pending[c] = NoUpdate THEN updates[c] ELSE pending[c]]

Merge(updates) ==
    pending' = [c \in Creds |-> IF updates[c] # NoUpdate THEN updates[c] ELSE pending[c]]

Apart(other) ==
    "refreshes_apart" \in Assume => other.pc \notin {"prepare", "dispatch"}

(* SnapshotCoreAuths, outside the lock *)
HandlerSnapshot ==
    /\ handler.pc = "snapshot" /\ Apart(reload)
    /\ handler' = SnapshotOf(handler)
    /\ UNCHANGED <<outside, events, recent, hash, current, runtime, reload, client, pending,
                   pipeline, reloads>>

ReloadSnapshot ==
    /\ reload.pc = "snapshot" /\ Apart(handler)
    /\ reload' = SnapshotOf(reload)
    /\ UNCHANGED <<outside, events, recent, hash, current, runtime, handler, client, pending,
                   pipeline, reloads>>

Prepared(job) ==
    [job EXCEPT !.pc = "dispatch", !.snap = Blank,
                !.updates = [c \in Creds |-> UpdateFor(job, c)]]

HandlerPrepare ==
    /\ handler.pc = "prepare"
    /\ handler' = Prepared(handler)
    /\ current' = Listed(handler)
    /\ UNCHANGED <<outside, events, recent, hash, runtime, reload, client, pending, pipeline, reloads>>

ReloadPrepare ==
    /\ reload.pc = "prepare"
    /\ reload' = Prepared(reload)
    /\ current' = Listed(reload)
    /\ UNCHANGED <<outside, events, recent, hash, runtime, handler, client, pending, pipeline, reloads>>

(* dispatchAuthUpdates, after the unlock *)
HandlerDispatch ==
    /\ handler.pc = "dispatch"
    /\ Merge(handler.updates)
    /\ handler' = Idle
    /\ UNCHANGED <<outside, events, recent, hash, current, runtime, reload, client, pipeline, reloads>>

ReloadDispatch ==
    /\ reload.pc = "dispatch"
    /\ Merge(reload.updates)
    /\ reload' = Idle
    /\ UNCHANGED <<outside, events, recent, hash, current, runtime, handler, client, pipeline, reloads>>

-----------------------------------------------------------------------------
(* Websocket clients: handleWebsocket puts the session into the pool ...     *)
Joined == [ver |-> 1, there |-> TRUE, content |-> 1]
Left == [Joined EXCEPT !.ver = 2, !.there = FALSE]

Join(c) ==
    /\ client[c].up = "none" /\ ChangesLeft(1)
    /\ source' = [source EXCEPT ![c] = Joined] /\ changes' = changes + 1
    /\ client' = [client EXCEPT ![c].up = "joined"]
    /\ UNCHANGED <<empty, events, recent, hash, current, runtime, handler, reload, pending,
                   pipeline, reloads>>

(* ... and calls wsOnConnected, which emits an update unless the manager has *)
(* the credential: dispatchRuntimeAuthUpdate under clientsMutex, ...          *)
Keep(c) ==
    /\ client[c].up = "joined"
    /\ IF manager[c].there
       THEN client' = [client EXCEPT ![c].up = "told"] /\ UNCHANGED <<runtime, current>>
       ELSE /\ runtime' = [runtime EXCEPT ![c] = Joined]
            /\ current' = [current EXCEPT ![c] = Joined]
            /\ client' = [client EXCEPT ![c].up = "kept"]
    /\ UNCHANGED <<outside, events, recent, hash, handler, reload, pending, pipeline, reloads>>

(* ... and after it. *)
TellJoined(c) ==
    /\ client[c].up = "kept"
    /\ Merge([NoUpdates EXCEPT ![c] = Joined])
    /\ client' = [client EXCEPT ![c].up = "told"]
    /\ UNCHANGED <<outside, events, recent, hash, current, runtime, handler, reload, pipeline, reloads>>

(* handleSessionClosed: the connection breaks, or Manager.Stop ends it. *)
Leave(c) ==
    /\ source[c].there /\ client[c].down = "none" /\ ChangesLeft(1)
    /\ "connected_first" \in Assume => client[c].up = "told"
    /\ source' = [source EXCEPT ![c] = Left] /\ changes' = changes + 1
    /\ client' = [client EXCEPT ![c].down = "left"]
    /\ UNCHANGED <<empty, events, recent, hash, current, runtime, handler, reload, pending,
                   pipeline, reloads>>

(* wsOnDisconnected *)
DropCurrent(c) ==  \* mutant: runtimeAuths keeps the client
    /\ client[c].down = "left"
    /\ "refreshes_apart" \in Assume => reload.updates[c] = NoUpdate
    /\ current' = [current EXCEPT ![c] = Left]
    /\ client' = [client EXCEPT ![c].down = "dropped"]
    /\ UNCHANGED <<outside, events, recent, hash, runtime, handler, reload, pending, pipeline, reloads>>

Drop(c) ==
    /\ client[c].down = "left"
    /\ "refreshes_apart" \in Assume => reload.updates[c] = NoUpdate
    /\ runtime' = [runtime EXCEPT ![c] = Left]
    /\ current' = [current EXCEPT ![c] = Left]
    /\ client' = [client EXCEPT ![c].down = "dropped"]
    /\ UNCHANGED <<outside, events, recent, hash, handler, reload, pending, pipeline, reloads>>

TellLeft(c) ==
    /\ client[c].down = "dropped"
    /\ Merge([NoUpdates EXCEPT ![c] = Left])
    /\ client' = [client EXCEPT ![c].down = "told"]
    /\ UNCHANGED <<outside, events, recent, hash, current, runtime, handler, reload, pipeline, reloads>>

-----------------------------------------------------------------------------
(* dispatchLoop: everything pending is one batch (nextPendingBatch) ...      *)
TakeBatch ==
    /\ batch = NoUpdates /\ pending # NoUpdates
    /\ batch' = pending /\ pending' = NoUpdates
    /\ UNCHANGED <<outside, events, recent, hash, current, runtime, handler, reload, client,
                   queue, manager, reloads>>

(* ... sent one by one; a batch names a credential once, so its order is     *)
(* nobody's concern.                                                         *)
SendAny(c) ==  \* mutant: entries already sent are sent again, blank
    /\ batch # NoUpdates /\ Len(queue) < QueueSize
    /\ queue' = Append(queue, [id |-> c, state |-> batch[c]])
    /\ batch' = [batch EXCEPT ![c] = NoUpdate]
    /\ UNCHANGED <<outside, events, recent, hash, current, runtime, handler, reload, client,
                   pending, manager, reloads>>

Send(c) ==
    /\ batch[c] # NoUpdate /\ Len(queue) < QueueSize
    /\ queue' = Append(queue, [id |-> c, state |-> batch[c]])
    /\ batch' = [batch EXCEPT ![c] = NoUpdate]
    /\ UNCHANGED <<outside, events, recent, hash, current, runtime, handler, reload, client,
                   pending, manager, reloads>>

(* handleAuthUpdate: applyCoreAuthAddOrUpdate, applyCoreAuthRemoval. *)
Consume ==
    /\ queue # <<>>
    /\ queue' = Tail(queue)
    /\ manager' = [manager EXCEPT ![Head(queue).id] = Head(queue).state]
    /\ UNCHANGED <<outside, events, recent, hash, current, runtime, handler, reload, client,
                   pending, batch, reloads>>

-----------------------------------------------------------------------------
Environment ==
    \/ \E f \in Files : Truncate(f) \/ Fill(f) \/ RemoveFile(f) \/ WindowPasses(f)
    \/ \E cut \in SUBSET Files, rescan, force \in BOOLEAN : BeginReload(cut, rescan, force)
    \/ \E c \in Channels : Join(c) \/ Leave(c)

Handle ==
    \/ TakeEvent \/ Settle \/ ReadFile \/ CompareHash \/ RemoveClient
    \/ HandlerSnapshot \/ HandlerPrepare \/ HandlerDispatch

Reload == Rescan \/ ReloadSnapshot \/ ReloadPrepare \/ ReloadDispatch

Connect(c) == Keep(c) \/ TellJoined(c)
Disconnect(c) == Drop(c) \/ TellLeft(c)

DispatchLoop == TakeBatch \/ \E c \in Creds : Send(c)

Next ==
    \/ Environment \/ Handle \/ Reload \/ DispatchLoop \/ Consume
    \/ \E c \in Channels : Connect(c) \/ Disconnect(c)

Spec == Init /\ [][Next]_vars

(* Every goroutine runs, and who has opened a file writes it.  Nobody has to *)
(* change a file, to come or to go.                                          *)
FairSpec ==
    /\ Spec
    /\ WF_vars(Handle) /\ WF_vars(Reload) /\ WF_vars(DispatchLoop) /\ WF_vars(Consume)
    /\ \A f \in Files : WF_vars(Fill(f))
    /\ \A c \in Channels : WF_vars(Connect(c)) /\ WF_vars(Disconnect(c))

-----------------------------------------------------------------------------
Mirror == INSTANCE CredentialMirror WITH mirror <- manager

(* The watcher, the dispatcher and the consumer implement the mirror.  In    *)
(* two parts: what the manager holds of a credential never goes back to an   *)
(* older state, whatever is merged, batched and queued on the way ...        *)
MirrorsInOrder == Mirror!Lags

(* ... and once a file or a client has come to rest the manager follows it   *)
(* (dispatcher.go 1: "It batches, deduplicates, and delivers auth updates"). *)
MirrorFollows == Mirror!Follows
=============================================================================
