------------------------ MODULE WatcherDispatchProofs ------------------------
(***************************************************************************)
(* Proofs about WatcherDispatch, for any number of files, clients, events, *)
(* changes and reloads and any queue: the types, and that the manager's    *)
(* entries never step back to an older state while refreshes keep apart.   *)
(*                                                                         *)
(* MirrorsInOrder is not inductive: the manager takes what the queue gives *)
(* it.  OInv follows each state from where a refresh or a client's         *)
(* goroutine has read it through the pending updates, the batch and the    *)
(* queue into the manager, and says that what is nearer the manager is     *)
(* never newer than what is further away.                                  *)
(***************************************************************************)
EXTENDS WatcherDispatch, TLAPS

(* The changes are counted, so that none leaves the numbers there are: a    *)
(* file that has been opened has one left for its being written.            *)
Counted ==
    /\ \A c \in Creds : source[c].ver <= changes
    /\ \A f \in empty : ~source[f].there /\ source[f].ver < MaxChanges

(* What the event handler works on is a file. *)
Busy == handler.pc \in {"read", "hash", "settle", "remove"} => handler.file \in Files

(* The goroutines of a websocket client tell in which state its session is. *)
Session(c) ==
    /\ client[c].up = "none" => client[c].down = "none" /\ source[c] = Gone
    /\ client[c].up # "none" /\ client[c].down = "none" => source[c] = Joined
    /\ client[c].down # "none" => source[c] = Left

TInv == TypeOK /\ Counted /\ Busy /\ \A c \in Channels : Session(c)

(* One side of a websocket client's session goes on.                        *)
LEMMA SideTypes ==
    ASSUME TInv, NEW c \in Channels, client[c].up # "none"
    PROVE  /\ \A side \in {"kept", "told"} : client' = [client EXCEPT ![c].up = side] =>
                 /\ client' \in [Channels -> [up : {"none", "joined", "kept", "told"},
                                              down : {"none", "left", "dropped", "told"}]]
                 /\ client'[c].up # "none" /\ client'[c].down = client[c].down
                 /\ \A d \in Channels \ {c} : client'[d] = client[d]
           /\ \A side \in {"dropped", "told"} : client' = [client EXCEPT ![c].down = side] =>
                 /\ client' \in [Channels -> [up : {"none", "joined", "kept", "told"},
                                              down : {"none", "left", "dropped", "told"}]]
                 /\ client'[c].up # "none" /\ client'[c].down # "none"
                 /\ \A d \in Channels \ {c} : client'[d] = client[d]
<1>1. client \in [Channels -> [up : {"none", "joined", "kept", "told"},
                              down : {"none", "left", "dropped", "told"}]]
  BY DEF TInv, TypeOK
<1> QED
  BY <1>1

(* The constant values are of their types. *)
LEMMA Values ==
    /\ Gone \in State /\ Joined \in State
    /\ NoUpdates \in Updates /\ Blank \in [Files -> State] /\ Idle \in Job
<1>1. Gone \in State /\ Joined \in State
  BY BoundsAssumption DEF Gone, Joined, State
<1>2. NoUpdates \in Updates /\ Blank \in [Files -> State]
  BY <1>1 DEF NoUpdates, Updates, Blank
<1> QED
  BY <1>1, <1>2 DEF Idle, Job

(* TInv holds at the start. *)
LEMMA TypeAtStart == Init => TInv
<1> SUFFICES ASSUME Init PROVE TInv
  OBVIOUS
<1>1. source \in [Creds -> State] /\ \A c \in Creds : source[c].ver = 0
  <2> DEFINE there == [Gone EXCEPT !.there = TRUE]
  <2>1. there \in State /\ there.ver = 0 /\ Gone \in State /\ Gone.ver = 0
    BY Values DEF Gone, State
  <2>2. source \in [Creds -> {Gone, there}]
    BY DEF Init
  <2> HIDE DEF there
  <2> QED
    BY <2>1, <2>2
<1>2. reload \in Job
  BY Values DEF Init, Job, Idle
<1>3. TypeOK
  BY <1>1, <1>2, Values, BoundsAssumption DEF Init, TypeOK, Creds
<1>4. \A c \in Channels : Session(c)
  BY DEF Init, Session
<1> QED
  BY <1>1, <1>3, <1>4 DEF Init, TInv, Counted, Busy, Idle

(* The updates a merge leaves are updates. *)
LEMMA MergeTypes ==
    ASSUME pending \in Updates, NEW updates \in Updates, Merge(updates)
    PROVE  pending' \in Updates
BY DEF Merge, Updates

(* The states an update may name. *)
LEMMA UpdateTypes ==
    ASSUME TypeOK, NEW job \in Job
    PROVE  /\ Listed(job) \in [Creds -> State]
           /\ [c \in Creds |-> UpdateFor(job, c)] \in Updates
           /\ Prepared(job) \in Job /\ SnapshotOf(job) \in Job
<1>1. Listed(job) \in [Creds -> State]
  BY DEF Listed, Job, Creds, TypeOK
<1>2. [c \in Creds |-> UpdateFor(job, c)] \in Updates
  BY <1>1 DEF UpdateFor, Updates
<1>3. Prepared(job) \in Job
  BY <1>2, Values DEF Prepared, Job, Refresh
<1>4. SnapshotOf(job) \in Job
  BY DEF SnapshotOf, Job, TypeOK, Refresh, Creds
<1> QED
  BY <1>1, <1>2, <1>3, <1>4

(* The jobs a goroutine takes up. *)
LEMMA JobTypes ==
    /\ \A job \in Job, pc \in {"hash", "snapshot", "settle", "remove", "read", "rescan"} :
          /\ [job EXCEPT !.pc = pc] \in Job
          /\ [job EXCEPT !.pc = pc].pc = pc
          /\ [job EXCEPT !.pc = pc].file = job.file
    /\ \A pc \in {"snapshot", "rescan"}, force \in BOOLEAN :
          [Idle EXCEPT !.pc = pc, !.force = force] \in Job
    /\ \A f \in Files : /\ [Idle EXCEPT !.pc = "settle", !.file = f] \in Job
                        /\ [Idle EXCEPT !.pc = "settle", !.file = f].file = f
    /\ Idle \in Job /\ Idle.pc = "idle"
<1>1. Idle \in Job /\ Idle.pc = "idle"
  BY Values DEF Idle
<1>2. \A job \in Job, pc \in {"hash", "snapshot", "settle", "remove", "read", "rescan"} :
         /\ [job EXCEPT !.pc = pc] \in Job
         /\ [job EXCEPT !.pc = pc].pc = pc
         /\ [job EXCEPT !.pc = pc].file = job.file
  BY DEF Job, Refresh
<1>3. \A pc \in {"snapshot", "rescan"}, force \in BOOLEAN :
         [Idle EXCEPT !.pc = pc, !.force = force] \in Job
  BY Values DEF Job, Refresh
<1>4. \A f \in Files : /\ [Idle EXCEPT !.pc = "settle", !.file = f] \in Job
                       /\ [Idle EXCEPT !.pc = "settle", !.file = f].file = f
  BY Values DEF Job
<1> QED
  BY <1>1, <1>2, <1>3, <1>4, Zenon

(* What the handler does with a file it has read. *)
LEMMA ReadTypes ==
    ASSUME TypeOK, NEW f \in Files
    PROVE  AfterRead(f) \in Job /\ (AfterRead(f).pc = "idle" \/ AfterRead(f).file = f)
<1>1. source[f] \in State
  BY DEF TypeOK, Creds
<1> DEFINE job == [Idle EXCEPT !.pc = "hash", !.file = f, !.read = source[f]]
<1>2. job \in Job /\ job.file = f
  BY <1>1, Values DEF Job
<1>3. AfterRead(f) = job \/ AfterRead(f) = Idle
  BY DEF AfterRead
<1> HIDE DEF job
<1> QED
  BY <1>2, <1>3, JobTypes

(* What a sequence holds, and what it holds without its first. *)
LEMMA Elements ==
    ASSUME NEW S, NEW q \in Seq(S)
    PROVE  /\ Len(q) \in Nat /\ \A i \in 1..Len(q) : q[i] \in S
           /\ q # <<>> => /\ Len(q) # 0 /\ Head(q) \in S /\ q[1] = Head(q)
                          /\ Tail(q) \in Seq(S) /\ Len(Tail(q)) = Len(q) - 1
                          /\ \A i \in 1..(Len(q) - 1) : Tail(q)[i] = q[i + 1]
OBVIOUS

Event == [file : Files, op : {"write", "remove"}]

(* What a step that leaves the world and its clients as they are must keep. *)
LEMMA InsideTypes ==
    ASSUME TInv, UNCHANGED <<outside, client>>,
           events' \in Seq(Event), Len(events') <= MaxEvents, recent' \subseteq Files,
           hash' \in [Files -> 0..MaxChanges \cup {NoUpdate}],
           current' \in [Creds -> State], runtime' \in [Channels -> State],
           handler' \in Job, Busy', reload' \in Job, pending' \in Updates, batch' \in Updates,
           queue' \in Seq([id : Creds, state : State]), Len(queue') <= QueueSize,
           manager' \in [Creds -> State], reloads' \in 0..MaxReloads
    PROVE  TInv'
<1>1. TypeOK'
  BY DEF TInv, TypeOK, outside, Event
<1>2. Counted' /\ \A c \in Channels : Session(c)'
  BY DEF TInv, Counted, Session, outside
<1> QED
  BY <1>1, <1>2 DEF TInv

(* What a step of a client's goroutine must keep. *)
LEMMA ClientTypes ==
    ASSUME TInv, UNCHANGED <<outside, events, recent, hash, handler, reload, pipeline, reloads>>,
           current' \in [Creds -> State], runtime' \in [Channels -> State], pending' \in Updates,
           client' \in [Channels -> [up : {"none", "joined", "kept", "told"},
                                     down : {"none", "left", "dropped", "told"}]],
           \A d \in Channels : Session(d)'
    PROVE  TInv'
<1>1. TypeOK'
  BY DEF TInv, TypeOK, outside, pipeline
<1>2. Counted' /\ Busy'
  BY DEF TInv, Counted, Busy, outside
<1> QED
  BY <1>1, <1>2 DEF TInv

(* What a change of a credential must keep. *)
LEMMA OutsideTypes ==
    ASSUME TInv, NEW c \in Creds, NEW s \in State, s.ver = source[c].ver + 1,
           source' = [source EXCEPT ![c] = s], changes' = changes + 1,
           empty' \subseteq Files,
           \A f \in empty' : ~source'[f].there /\ source'[f].ver < MaxChanges,
           events' \in Seq(Event), Len(events') <= MaxEvents,
           client' \in [Channels -> [up : {"none", "joined", "kept", "told"},
                                     down : {"none", "left", "dropped", "told"}]],
           \A d \in Channels : Session(d)',
           UNCHANGED <<recent, hash, current, runtime, handler, reload, pending, pipeline, reloads>>
    PROVE  TInv'
<1>1. TypeOK'
  BY DEF TInv, TypeOK, pipeline, Event
<1>2. \A d \in Creds : source'[d].ver <= changes'
  <2>1. changes \in Nat /\ \A d \in Creds : source[d] \in State /\ source[d].ver <= changes
    BY DEF TInv, TypeOK, Counted
  <2>2. source'[c] = s /\ \A d \in Creds \ {c} : source'[d] = source[d]
    BY DEF TInv, TypeOK
  <2> QED
    BY <2>1, <2>2, BoundsAssumption DEF State
<1>3. Busy'
  BY DEF TInv, Busy
<1> QED
  BY <1>1, <1>2, <1>3 DEF TInv, Counted

(* An event that fsnotify reports is an event. *)
LEMMA ReportTypes ==
    ASSUME TypeOK, NEW f \in Files, NEW op \in {"write", "remove"}, Report(f, op)
    PROVE  events' \in Seq(Event) /\ Len(events') <= MaxEvents
BY BoundsAssumption DEF TypeOK, Report, Event

(* A state with its credential gone, as it was or with another number. *)
LEMMA AbsentTypes ==
    ASSUME NEW s \in State, NEW n \in 0..MaxChanges
    PROVE  /\ s.ver \in Nat
           /\ [s EXCEPT !.there = FALSE] \in State
           /\ [s EXCEPT !.ver = n, !.there = FALSE] \in State
           /\ [s EXCEPT !.ver = n, !.there = FALSE].ver = n
           /\ [s EXCEPT !.ver = n, !.there = FALSE].there = FALSE
<1>1. s.ver \in Nat
  BY BoundsAssumption DEF State
<1>2. [s EXCEPT !.there = FALSE] \in State
  BY DEF State
<1>3. [s EXCEPT !.ver = n, !.there = FALSE] \in State
  BY DEF State
<1>4. [s EXCEPT !.ver = n, !.there = FALSE].ver = n
  BY DEF State
<1>5. [s EXCEPT !.ver = n, !.there = FALSE].there = FALSE
  BY DEF State
<1> QED
  BY <1>1, <1>2, <1>3, <1>4, <1>5, Zenon

(* A credential that goes, when there is room for n changes more. *)
LEMMA AwayTypes ==
    ASSUME TInv, NEW f \in Files, NEW n \in {1, 2}, ChangesLeft(n)
    PROVE  /\ Away(f) \in State /\ Away(f).ver = source[f].ver + 1 /\ ~Away(f).there
           /\ Away(f).ver + n <= MaxChanges + 1
<1>1. source[f] \in State /\ source[f].ver <= changes /\ changes \in Nat
  BY DEF TInv, TypeOK, Counted, Creds
<1>2. source[f].ver \in Nat /\ source[f].ver + n <= MaxChanges
  BY <1>1, BoundsAssumption DEF State, ChangesLeft
<1> DEFINE s == source[f]
           v == s.ver + 1
<1>3. v \in 0..MaxChanges /\ v + n <= MaxChanges + 1
  BY <1>2, BoundsAssumption
<1>4. Away(f) = [s EXCEPT !.ver = v, !.there = FALSE]
  BY DEF Away
<1>5. v = source[f].ver + 1 /\ s \in State
  BY <1>1
<1> HIDE DEF s, v
<1> DEFINE away == [s EXCEPT !.ver = v, !.there = FALSE]
<1>6. away \in State
  BY <1>3, <1>5, AbsentTypes, Zenon
<1>7. away.ver = v /\ away.there = FALSE
  BY <1>3, <1>5, AbsentTypes, Zenon
<1>8. Away(f) = away
  BY <1>4
<1> HIDE DEF away
<1> QED
  BY <1>3, <1>5, <1>6, <1>7, <1>8

(* A session that goes. *)
LEMMA LeftTypes ==
    ASSUME TInv, NEW c \in Channels, source[c] = Joined, ChangesLeft(1)
    PROVE  Left \in State /\ Left.ver = source[c].ver + 1
<1>1. source[c].ver <= changes /\ changes \in Nat /\ source[c].ver = 1
  BY DEF TInv, TypeOK, Counted, Creds, Joined
<1>2. 2 \in 0..MaxChanges /\ Joined \in State
  BY <1>1, BoundsAssumption, Values DEF ChangesLeft
<1> QED
  <2>1. Left \in State /\ Left.ver = 2
    BY <1>2, AbsentTypes, Zenon DEF Left
  <2> QED
    BY <1>1, <2>1

(* Every step keeps TInv. *)
LEMMA TypeStep == TInv /\ [Next]_vars => TInv'
<1> SUFFICES ASSUME TInv, [Next]_vars PROVE TInv'
  OBVIOUS
<1> USE DEF outside, pipeline
<1>0. TypeOK /\ Busy /\ Files \subseteq Creds /\ Channels \subseteq Creds
  BY DEF TInv, Creds
<1>1. ASSUME NEW f \in Files, Truncate(f) PROVE TInv'
  <2>1. events' \in Seq(Event) /\ Len(events') <= MaxEvents
    BY <1>0, <1>1, ReportTypes DEF Truncate
  <2>2. CASE source[f].there
    <3>1. Away(f) \in State /\ Away(f).ver = source[f].ver + 1 /\ ~Away(f).there
          /\ Away(f).ver < MaxChanges
      <4>1. ChangesLeft(2) /\ Away(f).ver + 2 <= MaxChanges + 1
        BY <1>1, <2>2, AwayTypes DEF Truncate
      <4> QED
        BY <4>1, AwayTypes, BoundsAssumption DEF State
    <3>2. /\ source' = [source EXCEPT ![f] = Away(f)] /\ changes' = changes + 1
          /\ empty' = empty \cup {f} /\ client' = client
      BY <1>1, <2>2 DEF Truncate
    <3>3. \A g \in empty' : ~source'[g].there /\ source'[g].ver < MaxChanges
      BY <3>1, <3>2, <1>0 DEF TInv, TypeOK, Counted
    <3>4. \A d \in Channels : Session(d)'
      BY <3>2, <1>0, BoundsAssumption DEF TInv, TypeOK, Session
    <3> QED
      BY <1>0, <1>1, <2>1, <3>1, <3>2, <3>3, <3>4, OutsideTypes DEF TypeOK, Truncate
  <2>3. CASE ~source[f].there
    <3>1. /\ source' = source /\ changes' = changes /\ empty' = empty \cup {f} /\ client' = client
          /\ source[f].ver < MaxChanges
      BY <1>1, <2>3, <1>0, BoundsAssumption
         DEF Truncate, TInv, TypeOK, Counted, ChangesLeft, State, Creds
    <3>2. Counted' /\ Busy' /\ \A d \in Channels : Session(d)'
      BY <1>1, <2>3, <3>1 DEF TInv, Counted, Session, Busy, Truncate
    <3>3. TypeOK'
      BY <1>0, <1>1, <2>1, <3>1 DEF TypeOK, Truncate, Event
    <3> QED
      BY <3>2, <3>3 DEF TInv
  <2> QED
    BY <2>2, <2>3
<1>2. ASSUME NEW f \in Files, Fill(f) PROVE TInv'
  <2>1. PICK content \in {source[f].ver + 1, source[f].content} :
           source' = [source EXCEPT ![f] = [ver |-> source[f].ver + 1, there |-> TRUE,
                                            content |-> content]]
    BY <1>2 DEF Fill
  <2> DEFINE s == [ver |-> source[f].ver + 1, there |-> TRUE, content |-> content]
  <2>2. s \in State /\ s.ver = source[f].ver + 1
    <3>1. f \in empty /\ source[f].ver \in Nat /\ source[f].ver < MaxChanges
          /\ source[f].content \in 0..MaxChanges
      BY <1>2, <1>0 DEF Fill, TInv, TypeOK, Counted, State, Creds
    <3>2. source[f].ver + 1 \in 0..MaxChanges
      BY <3>1, BoundsAssumption
    <3> QED
      BY <3>1, <3>2 DEF State
  <2>3. source' = [source EXCEPT ![f] = s]
    BY <2>1
  <2> HIDE DEF s
  <2>4. \A g \in empty' : ~source'[g].there /\ source'[g].ver < MaxChanges
    BY <1>2, <2>3, <1>0 DEF TInv, TypeOK, Counted, Fill
  <2>5. \A d \in Channels : Session(d)'
    BY <1>2, <2>3, <1>0, BoundsAssumption DEF TInv, TypeOK, Session, Fill
  <2>6. events' \in Seq(Event) /\ Len(events') <= MaxEvents
    BY <1>0, <1>2, ReportTypes DEF Fill
  <2> QED
    BY <1>0, <1>2, <2>2, <2>3, <2>4, <2>5, <2>6, OutsideTypes DEF Fill, TypeOK
<1>3. ASSUME NEW f \in Files, RemoveFile(f) PROVE TInv'
  <2>1. Away(f) \in State /\ Away(f).ver = source[f].ver + 1
    BY <1>3, AwayTypes DEF RemoveFile
  <2>2. source' = [source EXCEPT ![f] = Away(f)] /\ f \notin empty
    BY <1>3 DEF RemoveFile, TInv, Counted
  <2>3. \A g \in empty' : ~source'[g].there /\ source'[g].ver < MaxChanges
    BY <1>3, <2>2, <1>0 DEF TInv, TypeOK, Counted, RemoveFile
  <2>4. \A d \in Channels : Session(d)'
    BY <1>3, <2>2, <1>0, BoundsAssumption DEF TInv, TypeOK, Session, RemoveFile
  <2>5. events' \in Seq(Event) /\ Len(events') <= MaxEvents
    BY <1>0, <1>3, ReportTypes DEF RemoveFile
  <2> QED
    BY <1>0, <1>3, <2>1, <2>2, <2>3, <2>4, <2>5, OutsideTypes DEF RemoveFile, TypeOK
<1>4. ASSUME NEW f \in Files, WindowPasses(f) PROVE TInv'
  BY <1>4 DEF TInv, TypeOK, Counted, Busy, Session, WindowPasses
<1>5. ASSUME NEW cut \in SUBSET Files, NEW rescan \in BOOLEAN, NEW force \in BOOLEAN,
             BeginReload(cut, rescan, force)
      PROVE TInv'
  <2>1. reload' \in Job
    BY <1>5, JobTypes DEF BeginReload
  <2>2. \A c \in Creds : [current[c] EXCEPT !.there = FALSE] \in State
    <3>1. 0 \in 0..MaxChanges /\ \A c \in Creds : current[c] \in State
      BY <1>0, BoundsAssumption DEF TypeOK
    <3> QED
      BY <3>1, AbsentTypes, Zenon
  <2>3. current' \in [Creds -> State]
    BY <1>0, <1>5, <2>2 DEF TypeOK, BeginReload
  <2>4. reloads' \in 0..MaxReloads
    BY <1>0, <1>5, BoundsAssumption DEF TypeOK, BeginReload
  <2> QED
    BY <1>0, <1>5, <2>1, <2>3, <2>4, InsideTypes DEF BeginReload, TypeOK, Event, Busy
<1>6. ASSUME NEW c \in Channels, Join(c) PROVE TInv'
  <2>1. /\ source' = [source EXCEPT ![c] = Joined] /\ changes' = changes + 1
        /\ client' = [client EXCEPT ![c].up = "joined"]
        /\ source[c] = Gone /\ client[c].down = "none"
    BY <1>6, <1>0 DEF Join, TInv, Session
  <2>2. Joined.ver = source[c].ver + 1
    BY <2>1 DEF Joined, Gone
  <2>3. \A g \in empty' : ~source'[g].there /\ source'[g].ver < MaxChanges
    BY <1>6, <2>1, <1>0, BoundsAssumption DEF TInv, TypeOK, Counted, Join
  <2>4. /\ client' \in [Channels -> [up : {"none", "joined", "kept", "told"},
                                     down : {"none", "left", "dropped", "told"}]]
        /\ client'[c].up = "joined" /\ client'[c].down = "none"
        /\ \A d \in Channels \ {c} : client'[d] = client[d]
    BY <2>1, <1>0 DEF TypeOK
  <2>5. source'[c] = Joined /\ \A d \in Channels \ {c} : source'[d] = source[d]
    BY <2>1, <1>0 DEF TypeOK
  <2>6. \A d \in Channels : Session(d)'
    BY <2>4, <2>5 DEF TInv, Session
  <2>7. /\ empty' \subseteq Files /\ events' \in Seq(Event) /\ Len(events') <= MaxEvents
        /\ UNCHANGED <<recent, hash, current, runtime, handler, reload, pending, pipeline, reloads>>
    BY <1>0, <1>6 DEF Join, TypeOK, Event
  <2>8. Joined \in State /\ c \in Creds
    BY <1>0, <2>2, Values
  <2> HIDE DEF outside, pipeline
  <2> QED
    BY <2>1, <2>2, <2>3, <2>4, <2>6, <2>7, <2>8, OutsideTypes
<1>7. ASSUME NEW c \in Channels, Leave(c) PROVE TInv'
  <2>1. /\ source' = [source EXCEPT ![c] = Left] /\ changes' = changes + 1
        /\ client' = [client EXCEPT ![c].down = "left"]
        /\ source[c] = Joined /\ client[c].up # "none"
    BY <1>7, <1>0 DEF Leave, TInv, Session, Gone
  <2>2. Left.ver = source[c].ver + 1 /\ Left \in State
    BY <1>7, <2>1, LeftTypes DEF Leave
  <2>3. \A g \in empty' : ~source'[g].there /\ source'[g].ver < MaxChanges
    BY <1>7, <2>1, <1>0, BoundsAssumption DEF TInv, TypeOK, Counted, Leave
  <2>4. /\ client' \in [Channels -> [up : {"none", "joined", "kept", "told"},
                                     down : {"none", "left", "dropped", "told"}]]
        /\ client'[c].up = client[c].up /\ client'[c].down = "left"
        /\ \A d \in Channels \ {c} : client'[d] = client[d]
    BY <2>1, <1>0 DEF TypeOK
  <2>5. source'[c] = Left /\ \A d \in Channels \ {c} : source'[d] = source[d]
    BY <2>1, <1>0 DEF TypeOK
  <2>6. \A d \in Channels : Session(d)'
    BY <2>1, <2>4, <2>5 DEF TInv, Session
  <2>7. /\ empty' \subseteq Files /\ events' \in Seq(Event) /\ Len(events') <= MaxEvents
        /\ UNCHANGED <<recent, hash, current, runtime, handler, reload, pending, pipeline, reloads>>
    BY <1>0, <1>7 DEF Leave, TypeOK, Event
  <2>8. Left \in State /\ c \in Creds
    BY <1>0, <2>2, Values
  <2> HIDE DEF outside, pipeline
  <2> QED
    BY <2>1, <2>2, <2>3, <2>4, <2>6, <2>7, <2>8, OutsideTypes
<1>8. CASE TakeEvent
  <2>1. /\ events' = Tail(events) /\ events # <<>> /\ Head(events) \in Event
        /\ events' \in Seq(Event) /\ Len(events') <= MaxEvents
    <3>1. events \in Seq(Event) /\ Len(events) \in Nat /\ Len(events) <= MaxEvents
          /\ events # <<>> /\ events' = Tail(events)
      BY <1>0, <1>8 DEF TakeEvent, TypeOK, Event
    <3>2. Head(events) \in Event /\ Tail(events) \in Seq(Event) /\ Len(Tail(events)) = Len(events) - 1
      BY <3>1, Elements
    <3> QED
      BY <3>1, <3>2, BoundsAssumption
  <2>2. Head(events).file \in Files
    BY <2>1 DEF Event
  <2>3. handler' \in Job /\ Busy' /\ recent' \subseteq Files
    <3> DEFINE f == Head(events).file
    <3>1. CASE handler' = AfterRead(f) /\ recent' = recent
      BY <1>0, <2>2, <3>1, ReadTypes DEF TypeOK, Busy
    <3>2. CASE handler' = [Idle EXCEPT !.pc = "settle", !.file = f] /\ recent' = recent \cup {f}
      BY <1>0, <2>2, <3>2, JobTypes DEF TypeOK, Busy
    <3>3. CASE handler' = handler /\ recent' = recent
      BY <1>0, <3>3 DEF TypeOK, Busy
    <3> QED
      BY <1>8, <3>1, <3>2, <3>3 DEF TakeEvent
  <2> QED
    BY <1>0, <1>8, <2>1, <2>3, InsideTypes DEF TakeEvent, TypeOK
<1>9. CASE Settle
  <2>1. handler' \in Job /\ Busy'
    BY <1>0, <1>9, JobTypes, Values DEF Settle, TypeOK, Busy
  <2> QED
    BY <1>0, <1>9, <2>1, InsideTypes DEF Settle, TypeOK, Event
<1>10. CASE ReadFile
  <2>1. handler' \in Job /\ Busy'
    <3>1. handler.file \in Files /\ handler' = AfterRead(handler.file)
      BY <1>0, <1>10 DEF ReadFile, Busy
    <3> QED
      BY <1>0, <3>1, ReadTypes DEF Busy
  <2> QED
    BY <1>0, <1>10, <2>1, InsideTypes DEF ReadFile, TypeOK, Event
<1>11. CASE CompareHash
  <2>1. handler' \in Job /\ Busy'
    <3>1. handler' = Idle \/ handler' = [Idle EXCEPT !.pc = "snapshot"]
      BY <1>11 DEF CompareHash
    <3>2. CASE handler' = Idle
      BY <3>2, Values DEF Busy, Idle
    <3>3. CASE handler' = [Idle EXCEPT !.pc = "snapshot"]
      <4>1. "snapshot" \in {"hash", "snapshot", "settle", "remove", "read", "rescan"} /\ Idle \in Job
        BY Values
      <4>2. handler' \in Job /\ handler'.pc = "snapshot"
        BY <3>3, <4>1, JobTypes
      <4> QED
        BY <4>2 DEF Busy
    <3> QED
      BY <3>1, <3>2, <3>3
  <2>2. hash' \in [Files -> 0..MaxChanges \cup {NoUpdate}]
    <3>1. handler.read.content \in 0..MaxChanges
      BY <1>0 DEF TypeOK, Job, State
    <3> QED
      BY <1>0, <1>11, <3>1 DEF CompareHash, TypeOK
  <2> QED
    BY <1>0, <1>11, <2>1, <2>2, InsideTypes DEF CompareHash, TypeOK, Event
<1>12. CASE RemoveClient
  <2>1. handler' \in Job /\ Busy'
    BY <1>0, <1>12, JobTypes, Values DEF RemoveClient, TypeOK, Busy
  <2>2. hash' \in [Files -> 0..MaxChanges \cup {NoUpdate}]
    BY <1>0, <1>12 DEF RemoveClient, TypeOK
  <2> QED
    BY <1>0, <1>12, <2>1, <2>2, InsideTypes DEF RemoveClient, TypeOK, Event
<1>13. CASE HandlerSnapshot
  <2>1. handler' \in Job
    BY <1>0, <1>13, UpdateTypes DEF HandlerSnapshot, TypeOK
  <2>2. handler'.pc = "prepare"
    BY <1>0, <1>13 DEF HandlerSnapshot, TypeOK, SnapshotOf, Job
  <2> QED
    BY <1>0, <1>13, <2>1, <2>2, InsideTypes DEF HandlerSnapshot, TypeOK, Event, Busy
<1>14. CASE HandlerPrepare
  <2>1. handler' \in Job /\ current' \in [Creds -> State]
    BY <1>0, <1>14, UpdateTypes DEF HandlerPrepare, TypeOK
  <2>2. handler'.pc = "dispatch"
    BY <1>0, <1>14 DEF HandlerPrepare, TypeOK, Prepared, Job
  <2> QED
    BY <1>0, <1>14, <2>1, <2>2, InsideTypes DEF HandlerPrepare, TypeOK, Event, Busy
<1>15. CASE HandlerDispatch
  <2>1. handler.updates \in Updates
    BY <1>0 DEF TypeOK, Job
  <2>2. pending' \in Updates
    BY <1>0, <1>15, <2>1, MergeTypes DEF HandlerDispatch, TypeOK
  <2>3. handler' \in Job /\ handler'.pc = "idle"
    BY <1>15, Values, JobTypes DEF HandlerDispatch
  <2> QED
    BY <1>0, <1>15, <2>2, <2>3, InsideTypes DEF HandlerDispatch, TypeOK, Event, Busy
<1>16. CASE Rescan
  <2>1. reload' \in Job
    BY <1>0, <1>16, JobTypes DEF Rescan, TypeOK
  <2>2. \A f \in Files : source[f].content \in 0..MaxChanges
    BY <1>0 DEF TypeOK, State
  <2>3. hash' \in [Files -> 0..MaxChanges \cup {NoUpdate}]
    BY <1>16, <2>2 DEF Rescan
  <2> QED
    BY <1>0, <1>16, <2>1, <2>3, InsideTypes DEF Rescan, TypeOK, Event, Busy
<1>17. CASE ReloadSnapshot
  <2>1. reload' \in Job
    BY <1>0, <1>17, UpdateTypes DEF ReloadSnapshot, TypeOK
  <2> QED
    BY <1>0, <1>17, <2>1, InsideTypes DEF ReloadSnapshot, TypeOK, Event, Busy
<1>18. CASE ReloadPrepare
  <2>1. reload' \in Job /\ current' \in [Creds -> State]
    BY <1>0, <1>18, UpdateTypes DEF ReloadPrepare, TypeOK
  <2> QED
    BY <1>0, <1>18, <2>1, InsideTypes DEF ReloadPrepare, TypeOK, Event, Busy
<1>19. CASE ReloadDispatch
  <2>1. reload.updates \in Updates
    BY <1>0 DEF TypeOK, Job
  <2>2. pending' \in Updates
    BY <1>0, <1>19, <2>1, MergeTypes DEF ReloadDispatch, TypeOK
  <2> QED
    BY <1>0, <1>19, <2>2, Values, InsideTypes DEF ReloadDispatch, TypeOK, Event, Busy
<1>20. ASSUME NEW c \in Channels, Keep(c) \/ Drop(c) PROVE TInv'
  <2>1. client[c].up # "none" /\ (client[c].down # "none" => Left \in State)
    BY <1>0, <1>20 DEF Keep, Drop, TInv, Session, TypeOK
  <2>2. /\ client' \in [Channels -> [up : {"none", "joined", "kept", "told"},
                                     down : {"none", "left", "dropped", "told"}]]
        /\ client'[c].up # "none" /\ (client'[c].down = "none" <=> client[c].down = "none")
        /\ \A d \in Channels \ {c} : client'[d] = client[d]
    <3>1. \/ client' = [client EXCEPT ![c].up = "told"]
          \/ client' = [client EXCEPT ![c].up = "kept"]
          \/ client[c].down = "left" /\ client' = [client EXCEPT ![c].down = "dropped"]
      BY <1>20 DEF Keep, Drop
    <3> QED
      BY <2>1, <3>1, SideTypes
  <2>3. runtime' \in [Channels -> State] /\ current' \in [Creds -> State]
    <3>1. \/ runtime' = runtime /\ current' = current
          \/ \E s \in State : /\ runtime' = [runtime EXCEPT ![c] = s]
                              /\ current' = [current EXCEPT ![c] = s]
      BY <1>20, <2>1, Values DEF Keep, Drop
    <3> QED
      BY <1>0, <3>1 DEF TypeOK
  <2>4. \A d \in Channels : Session(d)'
    BY <1>20, <2>1, <2>2 DEF Keep, Drop, TInv, Session
  <2> QED
    BY <1>0, <1>20, <2>2, <2>3, <2>4, ClientTypes DEF Keep, Drop, TypeOK
<1>21. ASSUME NEW c \in Channels, TellJoined(c) \/ TellLeft(c) PROVE TInv'
  <2>1. client[c].up # "none" /\ (client[c].down # "none" => Left \in State)
    BY <1>0, <1>21 DEF TellJoined, TellLeft, TInv, Session, TypeOK
  <2>2. /\ client' \in [Channels -> [up : {"none", "joined", "kept", "told"},
                                     down : {"none", "left", "dropped", "told"}]]
        /\ client'[c].up # "none" /\ (client'[c].down = "none" <=> client[c].down = "none")
        /\ \A d \in Channels \ {c} : client'[d] = client[d]
    <3>1. \/ client' = [client EXCEPT ![c].up = "told"]
          \/ client[c].down = "dropped" /\ client' = [client EXCEPT ![c].down = "told"]
      BY <1>21 DEF TellJoined, TellLeft
    <3> QED
      BY <2>1, <3>1, SideTypes
  <2>3. pending' \in Updates
    <3>1. \A s \in State : [NoUpdates EXCEPT ![c] = s] \in Updates
      BY <1>0, Values DEF Updates
    <3> QED
      BY <1>0, <1>21, <2>1, <3>1, Values, MergeTypes DEF TellJoined, TellLeft, TypeOK
  <2>4. \A d \in Channels : Session(d)'
    BY <1>21, <2>1, <2>2 DEF TellJoined, TellLeft, TInv, Session
  <2> QED
    BY <1>0, <1>21, <2>2, <2>3, <2>4, ClientTypes DEF TellJoined, TellLeft, TypeOK
<1>22. CASE TakeBatch
  BY <1>0, <1>22, Values, InsideTypes DEF TakeBatch, TypeOK, Event, Busy
<1>23. ASSUME NEW c \in Creds, Send(c) PROVE TInv'
  <2>1. batch[c] \in State /\ batch' \in Updates
    BY <1>0, <1>23 DEF Send, TypeOK, Updates
  <2>2. queue' \in Seq([id : Creds, state : State]) /\ Len(queue') <= QueueSize
    BY <1>0, <1>23, <2>1, BoundsAssumption DEF Send, TypeOK
  <2> QED
    BY <1>0, <1>23, <2>1, <2>2, InsideTypes DEF Send, TypeOK, Event, Busy
<1>24. CASE Consume
  <2>1. /\ Head(queue) \in [id : Creds, state : State]
        /\ queue' \in Seq([id : Creds, state : State]) /\ Len(queue') <= QueueSize
    <3>1. /\ queue \in Seq([id : Creds, state : State]) /\ Len(queue) \in Nat
          /\ Len(queue) <= QueueSize /\ queue # <<>> /\ queue' = Tail(queue)
      BY <1>0, <1>24 DEF Consume, TypeOK
    <3>2. /\ Head(queue) \in [id : Creds, state : State]
          /\ Tail(queue) \in Seq([id : Creds, state : State]) /\ Len(Tail(queue)) = Len(queue) - 1
      BY <3>1, Elements
    <3> QED
      BY <3>1, <3>2, BoundsAssumption
  <2>2. manager' \in [Creds -> State]
    BY <1>0, <1>24, <2>1 DEF Consume, TypeOK
  <2> QED
    BY <1>0, <1>24, <2>1, <2>2, InsideTypes DEF Consume, TypeOK, Event, Busy
<1>25. CASE UNCHANGED vars
  BY <1>25 DEF TInv, TypeOK, Counted, Busy, Session, vars
<1> QED
  BY <1>1, <1>2, <1>3, <1>4, <1>5, <1>6, <1>7, <1>8, <1>9, <1>10, <1>11, <1>12, <1>13,
     <1>14, <1>15, <1>16, <1>17, <1>18, <1>19, <1>20, <1>21, <1>22, <1>23, <1>24, <1>25
     DEF Next, Environment, Handle, Reload, DispatchLoop, Connect, Disconnect

(* The world, the goroutines' jobs, what is merged, batched and queued, and  *)
(* the manager's entries stay of their types; no change leaves the numbers.  *)
THEOREM TypeCorrect == Spec => []TypeOK
<1>1. TInv => TypeOK
  BY DEF TInv
<1> QED
  BY <1>1, TypeAtStart, TypeStep, PTL DEF Spec

-----------------------------------------------------------------------------
(* A state is another one or an older one. *)
UpTo(s, t) == s = t \/ s.ver < t.ver
AllUpTo(S, t) == \A s \in S : UpTo(s, t)

(* What the manager holds of a credential, and what is on its way there: the *)
(* states in the queue, in the batch, and pending.                           *)
Sent(c) == {i \in 1..Len(queue) : queue[i].id = c}
Queued(c) == {manager[c]} \cup {queue[i].state : i \in Sent(c)}
Batched(c) == Queued(c) \cup ({batch[c]} \ {NoUpdate})
Underway(c) == Batched(c) \cup ({pending[c]} \ {NoUpdate})

(* What is underway is in order, and none of it is ahead of the source. *)
InLine(c) ==
    /\ \A i \in Sent(c) : /\ UpTo(manager[c], queue[i].state)
                          /\ \A j \in Sent(c) : i < j => UpTo(queue[i].state, queue[j].state)
    /\ batch[c] # NoUpdate => AllUpTo(Queued(c), batch[c])
    /\ pending[c] # NoUpdate => AllUpTo(Batched(c), pending[c])
    /\ AllUpTo(Underway(c), source[c])

(* A refresh that has read the files carries the state of each; what is      *)
(* underway is not ahead of what it carries.                                 *)
Holding(job) == job.pc \in {"prepare", "dispatch"}
Carried(job, f) ==
    IF job.pc = "prepare" THEN {job.snap[f]}
    ELSE IF job.pc = "dispatch" THEN {job.updates[f]} \ {NoUpdate} ELSE {}
FileJob(job, f) == \A s \in Carried(job, f) : UpTo(s, source[f]) /\ AllUpTo(Underway(f), s)

(* A client's update comes from its goroutines, and from a forced refresh    *)
(* while nothing says yet that it has gone.                                  *)
Client(c) ==
    /\ runtime[c] = current[c]
    /\ handler.updates[c] = NoUpdate
    /\ client[c].down # "none" => client[c].up = "told"
    /\ \/ runtime[c] = Gone
       \/ runtime[c] = Joined /\ client[c].up \in {"kept", "told"} /\ client[c].down \in {"none", "left"}
       \/ runtime[c] = Left
    /\ reload.updates[c] # NoUpdate =>
          reload.updates[c] = Joined /\ client[c].up # "none" /\ client[c].down \in {"none", "left"}
    /\ client[c].down # "told" => AllUpTo(Underway(c), Joined)

OneAtATime == ~(Holding(handler) /\ Holding(reload)) /\ handler.force = FALSE

OInv ==
    /\ TInv /\ OneAtATime
    /\ \A c \in Creds : InLine(c)
    /\ \A f \in Files : FileJob(handler, f) /\ FileJob(reload, f)
    /\ \A c \in Channels : Client(c)

Paced == {"refreshes_apart", "connected_first"} \subseteq Assume

(* The states underway are states. *)
LEMMA UnderwayTypes ==
    ASSUME TypeOK, NEW c \in Creds
    PROVE  /\ Queued(c) \subseteq Batched(c) /\ Batched(c) \subseteq Underway(c)
           /\ Underway(c) \subseteq State /\ source[c] \in State /\ manager[c] \in Queued(c)
           /\ batch[c] # NoUpdate => batch[c] \in Batched(c)
           /\ pending[c] # NoUpdate => pending[c] \in Underway(c)
<1>1. \A i \in Sent(c) : queue[i].state \in State
  <2>1. \A i \in 1..Len(queue) : queue[i] \in [id : Creds, state : State]
    BY Elements DEF TypeOK
  <2> QED
    BY <2>1 DEF Sent
<1>2. manager[c] \in State /\ source[c] \in State /\ batch[c] \in State \cup {NoUpdate}
      /\ pending[c] \in State \cup {NoUpdate}
  BY DEF TypeOK, Updates
<1> QED
  BY <1>1, <1>2 DEF Underway, Batched, Queued

(* UpTo is an order. *)
LEMMA UpToOrder ==
    ASSUME NEW s \in State, NEW t \in State, NEW u \in State, UpTo(s, t), UpTo(t, u)
    PROVE  UpTo(s, u)
<1>1. s.ver \in Nat /\ t.ver \in Nat /\ u.ver \in Nat
  BY BoundsAssumption DEF State
<1> QED
  BY <1>1 DEF UpTo

(* A change of a credential leaves what is underway behind it. *)
LEMMA SourceRises ==
    ASSUME OInv, TypeOK', NEW c \in Creds, source'[c].ver = source[c].ver + 1,
           \A d \in Creds \ {c} : source'[d] = source[d],
           UNCHANGED <<handler, reload, pending, pipeline>>
    PROVE  /\ \A d \in Creds : InLine(d)'
           /\ \A f \in Files : FileJob(handler, f)' /\ FileJob(reload, f)'
           /\ OneAtATime'
           /\ \A d \in Creds : Underway(d)' = Underway(d)
<1> USE DEF pipeline
<1>1. \A d \in Creds : /\ Queued(d)' = Queued(d) /\ Batched(d)' = Batched(d)
                       /\ Underway(d)' = Underway(d) /\ Sent(d)' = Sent(d)
  BY DEF Underway, Batched, Queued, Sent
<1>2. \A d \in Creds, s \in State : UpTo(s, source[d]) => UpTo(s, source'[d])
  <2> SUFFICES ASSUME NEW d \in Creds, NEW s \in State, UpTo(s, source[d]) PROVE UpTo(s, source'[d])
    OBVIOUS
  <2>1. s.ver \in Nat /\ source[d].ver \in Nat /\ source[c].ver \in Nat
    BY BoundsAssumption DEF OInv, TInv, TypeOK, State
  <2> QED
    BY <2>1 DEF UpTo
<1>3. ASSUME NEW d \in Creds PROVE InLine(d)'
  <2>1. InLine(d) /\ Underway(d) \subseteq State
    BY UnderwayTypes DEF OInv, TInv
  <2>2. AllUpTo(Underway(d), source'[d])
    BY <1>2, <2>1 DEF InLine, AllUpTo
  <2> QED
    BY <1>1, <2>1, <2>2 DEF InLine, AllUpTo, UpTo
<1>4. ASSUME NEW f \in Files PROVE FileJob(handler, f)' /\ FileJob(reload, f)'
  <2>1. f \in Creds /\ Carried(handler, f) \subseteq State /\ Carried(reload, f) \subseteq State
    BY DEF Creds, OInv, TInv, TypeOK, Job, Carried, Updates
  <2>2. FileJob(handler, f) /\ FileJob(reload, f)
    BY DEF OInv
  <2>3. Carried(handler, f)' = Carried(handler, f) /\ Carried(reload, f)' = Carried(reload, f)
    BY DEF Carried
  <2> QED
    BY <1>1, <1>2, <2>1, <2>2, <2>3 DEF FileJob, AllUpTo, UpTo
<1> QED
  BY <1>1, <1>3, <1>4 DEF OInv, OneAtATime, Holding

(* A step that moves neither source nor pipeline keeps the line. *)
LEMMA LineStays ==
    ASSUME OInv, UNCHANGED <<source, pending, pipeline>>
    PROVE  /\ \A d \in Creds : InLine(d)'
           /\ \A d \in Creds : Underway(d)' = Underway(d)
<1>1. \A d \in Creds : /\ Queued(d)' = Queued(d) /\ Batched(d)' = Batched(d)
                       /\ Underway(d)' = Underway(d) /\ Sent(d)' = Sent(d)
  BY DEF Underway, Batched, Queued, Sent, pipeline
<1> QED
  BY <1>1 DEF OInv, InLine, AllUpTo, UpTo, pipeline

(* A merge of what is ahead of all that is underway keeps the line. *)
LEMMA LineMerged ==
    ASSUME OInv, NEW c \in Creds, NEW s \in State, UNCHANGED <<source, pipeline>>,
           pending'[c] = s, UpTo(s, source[c]), AllUpTo(Underway(c), s)
    PROVE  InLine(c)' /\ Underway(c)' \subseteq Underway(c) \cup {s}
<1> USE DEF pipeline
<1>1. Queued(c)' = Queued(c) /\ Batched(c)' = Batched(c) /\ Sent(c)' = Sent(c)
  BY DEF Batched, Queued, Sent
<1>2. InLine(c) /\ Batched(c) \subseteq Underway(c)
  BY UnderwayTypes DEF OInv, TInv
<1>3. Underway(c)' \subseteq Underway(c) \cup {s}
  BY <1>1, <1>2 DEF Underway
<1>4. AllUpTo(Batched(c), s)
  BY <1>2 DEF AllUpTo
<1>5. \A t \in Underway(c)' : UpTo(t, source'[c])
  BY <1>2, <1>3 DEF InLine, AllUpTo
<1>6. AllUpTo(Underway(c), source[c])'
  BY <1>5 DEF AllUpTo, UpTo
<1>7. (pending[c] # NoUpdate => AllUpTo(Batched(c), pending[c]))'
  BY <1>1, <1>4 DEF AllUpTo, UpTo
<1>8. (batch[c] # NoUpdate => AllUpTo(Queued(c), batch[c]))'
  BY <1>1, <1>2 DEF InLine, AllUpTo, UpTo
<1>9. (\A i \in Sent(c) : /\ UpTo(manager[c], queue[i].state)
                          /\ \A j \in Sent(c) : i < j => UpTo(queue[i].state, queue[j].state))'
  BY <1>1, <1>2 DEF InLine, UpTo
<1> QED
  BY <1>3, <1>6, <1>7, <1>8, <1>9 DEF InLine

(* So does one that merges nothing of a credential. *)
LEMMA LineUnmerged ==
    ASSUME OInv, NEW c \in Creds, UNCHANGED <<source, pipeline>>, pending'[c] = pending[c]
    PROVE  InLine(c)' /\ Underway(c)' = Underway(c)
<1>1. /\ Queued(c)' = Queued(c) /\ Batched(c)' = Batched(c)
      /\ Underway(c)' = Underway(c) /\ Sent(c)' = Sent(c)
  BY DEF Underway, Batched, Queued, Sent, pipeline
<1> QED
  BY <1>1 DEF OInv, InLine, AllUpTo, UpTo, pipeline

(* The batch takes over all that is pending. *)
LEMMA LineBatched ==
    ASSUME OInv, TakeBatch, NEW c \in Creds
    PROVE  InLine(c)' /\ Underway(c)' = Underway(c)
<1>1. batch[c] = NoUpdate /\ batch'[c] = pending[c] /\ pending'[c] = NoUpdate
  BY DEF TakeBatch, NoUpdates
<1>2. queue' = queue /\ manager' = manager /\ source' = source
  BY DEF TakeBatch, outside
<1>3. Queued(c)' = Queued(c) /\ Sent(c)' = Sent(c)
  BY <1>2 DEF Queued, Sent
<1>4. Batched(c)' = Underway(c) /\ Underway(c)' = Underway(c) /\ Batched(c) = Queued(c)
  BY <1>1, <1>3 DEF Batched, Underway
<1> QED
  BY <1>1, <1>2, <1>3, <1>4 DEF OInv, InLine, AllUpTo, UpTo

(* What the batch held of a credential is the last of it in the queue. *)
LEMMA LineSent ==
    ASSUME OInv, NEW c \in Creds, Send(c), NEW d \in Creds
    PROVE  InLine(d)' /\ Underway(d)' \subseteq Underway(d)
<1> DEFINE n == Len(queue) + 1
           e == [id |-> c, state |-> batch[c]]
<1>1. /\ batch[c] # NoUpdate /\ batch'[c] = NoUpdate
      /\ d # c => batch'[d] = batch[d]
      /\ manager' = manager /\ source' = source /\ pending' = pending
  BY DEF Send, outside, OInv, TInv, TypeOK, Updates
<1>2. /\ n \in Nat /\ Len(queue') = n /\ queue'[n] = e
      /\ \A i \in 1..Len(queue) : queue'[i] = queue[i] /\ i < n
      /\ 1..Len(queue') = (1..Len(queue)) \cup {n}
  <2>1. /\ queue \in Seq([id : Creds, state : State]) /\ queue' = Append(queue, e)
        /\ Len(queue) \in Nat
    BY DEF Send, OInv, TInv, TypeOK
  <2> QED
    BY <2>1
<1>3. e.id = c /\ e.state = batch[c]
  OBVIOUS
<1> HIDE DEF n, e
<1>4. InLine(d) /\ Queued(d) \subseteq Batched(d) /\ Batched(d) \subseteq Underway(d)
  BY UnderwayTypes DEF OInv, TInv
<1>5. CASE d # c
  <2>1. Sent(d)' = Sent(d)
    BY <1>2, <1>3, <1>5 DEF Sent
  <2>2. \A i \in Sent(d) : queue'[i] = queue[i]
    BY <1>2 DEF Sent
  <2>3. Queued(d)' = Queued(d)
    BY <1>1, <2>1, <2>2 DEF Queued
  <2>4. Batched(d)' = Batched(d) /\ Underway(d)' = Underway(d)
    BY <1>1, <1>5, <2>3 DEF Batched, Underway
  <2> QED
    BY <1>1, <1>4, <1>5, <2>1, <2>2, <2>3, <2>4 DEF InLine, AllUpTo, UpTo
<1>6. CASE d = c
  <2>1. Sent(c)' = Sent(c) \cup {n}
    BY <1>2, <1>3 DEF Sent
  <2>2. (\A i \in Sent(c) : queue'[i] = queue[i] /\ i < n) /\ queue'[n].state = batch[c]
    BY <1>2, <1>3 DEF Sent
  <2>3. Queued(c)' = Batched(c)
    BY <1>1, <2>1, <2>2 DEF Queued, Batched
  <2>4. Batched(c)' = Batched(c) /\ Underway(c)' = Underway(c)
    BY <1>1, <2>3 DEF Batched, Underway
  <2>5. \A i \in Sent(c) : UpTo(queue[i].state, batch[c]) /\ ~ n < i
    <3>1. \A i \in Sent(c) : queue[i].state \in Queued(c) /\ i \in Nat /\ i < n
      BY <2>2 DEF Queued, Sent
    <3> QED
      BY <1>1, <1>2, <1>4, <1>6, <3>1 DEF InLine, AllUpTo
  <2>6. UpTo(manager[c], batch[c]) /\ ~ n < n
    BY <1>1, <1>2, <1>4, <1>6 DEF InLine, AllUpTo, Queued
  <2>7. (\A i \in Sent(c) : /\ UpTo(manager[c], queue[i].state)
                            /\ \A j \in Sent(c) : i < j => UpTo(queue[i].state, queue[j].state))'
    BY <1>1, <1>4, <1>6, <2>1, <2>2, <2>5, <2>6 DEF InLine, UpTo
  <2> QED
    BY <1>1, <1>4, <1>6, <2>3, <2>4, <2>7 DEF InLine, AllUpTo, UpTo
<1> QED
  BY <1>5, <1>6

(* What the manager takes is the next of its credential. *)
LEMMA LineConsumed ==
    ASSUME OInv, Consume, NEW d \in Creds
    PROVE  /\ InLine(d)' /\ Underway(d)' \subseteq Underway(d)
           /\ UpTo(manager[d], manager'[d]) /\ UpTo(manager'[d], source[d])
           /\ d # Head(queue).id => manager'[d] = manager[d]
<1> DEFINE n == Len(queue)
           c == Head(queue).id
           s == Head(queue).state
<1>1. /\ queue \in Seq([id : Creds, state : State]) /\ queue # <<>> /\ queue' = Tail(queue)
      /\ manager' = [manager EXCEPT ![c] = s] /\ manager \in [Creds -> State]
      /\ batch' = batch /\ source' = source /\ pending' = pending
  BY DEF Consume, outside, OInv, TInv, TypeOK
<1>2. /\ n \in Nat \ {0} /\ Len(queue') = n - 1 /\ queue[1] = Head(queue) /\ c \in Creds /\ s \in State
      /\ \A i \in 1..(n - 1) : queue'[i] = queue[i + 1]
  <2>1. Head(queue) \in [id : Creds, state : State]
    BY <1>1, Elements
  <2>2. c \in Creds /\ s \in State
    BY <2>1
  <2> QED
    BY <1>1, <2>2, Elements
<1>3. manager'[c] = s /\ \A b \in Creds \ {c} : manager'[b] = manager[b]
  BY <1>1, <1>2
<1> HIDE DEF n, c, s
<1>4. InLine(d) /\ Queued(d) \subseteq Batched(d) /\ Batched(d) \subseteq Underway(d)
      /\ manager[d] \in Queued(d)
  BY UnderwayTypes DEF OInv, TInv
<1>5. \A i \in Sent(d)' : i + 1 \in Sent(d) /\ queue'[i] = queue[i + 1]
  BY <1>2 DEF Sent, n
<1>6. d = c => 1 \in Sent(d) /\ queue[1].state = s
  BY <1>2 DEF Sent, n, c, s
<1>7. manager'[d] = manager[d] \/ (1 \in Sent(d) /\ manager'[d] = queue[1].state)
  BY <1>3, <1>6
<1>8. manager'[d] \in Queued(d) /\ Queued(d)' \subseteq Queued(d)
  BY <1>5, <1>7 DEF Queued
<1>9. Batched(d)' \subseteq Batched(d) /\ Underway(d)' \subseteq Underway(d)
  BY <1>1, <1>8 DEF Batched, Underway
<1>10. UpTo(manager[d], manager'[d]) /\ UpTo(manager'[d], source[d])
  BY <1>4, <1>7, <1>8 DEF InLine, AllUpTo, UpTo
<1>11. \A i \in Sent(d)' : UpTo(manager'[d], queue'[i].state)
  <2>1. \A i \in Sent(d)' : i \in Nat /\ i > 0 /\ 1 < i + 1
    BY <1>2 DEF Sent
  <2> QED
    BY <1>4, <1>5, <1>7, <2>1 DEF InLine
<1>12. \A i, j \in Sent(d)' : i < j => UpTo(queue'[i].state, queue'[j].state)
  <2>1. \A i, j \in Sent(d)' : i < j => i + 1 < j + 1
    BY <1>2 DEF Sent
  <2> QED
    BY <1>4, <1>5, <2>1 DEF InLine
<1>13. (\A i \in Sent(d) : /\ UpTo(manager[d], queue[i].state)
                           /\ \A j \in Sent(d) : i < j => UpTo(queue[i].state, queue[j].state))'
  BY <1>11, <1>12 DEF UpTo
<1>14. InLine(d)'
  BY <1>1, <1>4, <1>8, <1>9, <1>13 DEF InLine, AllUpTo, UpTo
<1> QED
  BY <1>3, <1>9, <1>10, <1>14 DEF c

(* What the goroutines' jobs say of themselves, as they are changed. *)
Fresh(job) == ~Holding(job) /\ job.force = FALSE /\ job.updates = NoUpdates

LEMMA FreshJobs ==
    /\ Fresh(Idle) /\ Fresh([Idle EXCEPT !.pc = "snapshot"])
    /\ \A f \in Files : Fresh([Idle EXCEPT !.pc = "settle", !.file = f]) /\ Fresh(AfterRead(f))
<1>1. Fresh(Idle) /\ Fresh([Idle EXCEPT !.pc = "snapshot"])
  BY DEF Idle, Fresh, Holding
<1>2. \A f \in Files : Fresh([Idle EXCEPT !.pc = "settle", !.file = f])
  BY DEF Idle, Fresh, Holding
<1>3. \A f \in Files : Fresh([Idle EXCEPT !.pc = "hash", !.file = f, !.read = source[f]])
  BY DEF Idle, Fresh, Holding
<1> QED
  BY <1>1, <1>2, <1>3, Zenon DEF AfterRead

(* The rest of a job stays as a goroutine goes on. *)
LEMMA JobFields ==
    ASSUME NEW job \in Job
    PROVE  /\ \A pc \in {"read", "remove", "snapshot"} :
                 /\ [job EXCEPT !.pc = pc].pc = pc
                 /\ [job EXCEPT !.pc = pc].force = job.force
                 /\ [job EXCEPT !.pc = pc].updates = job.updates
           /\ SnapshotOf(job).pc = "prepare" /\ SnapshotOf(job).force = job.force
           /\ SnapshotOf(job).updates = job.updates
           /\ SnapshotOf(job).snap = [f \in Files |-> source[f]]
           /\ Prepared(job).pc = "dispatch" /\ Prepared(job).force = job.force
           /\ Prepared(job).updates = [c \in Creds |-> UpdateFor(job, c)]
<1>1. \A pc \in {"read", "remove", "snapshot"} :
         /\ [job EXCEPT !.pc = pc].pc = pc
         /\ [job EXCEPT !.pc = pc].force = job.force
         /\ [job EXCEPT !.pc = pc].updates = job.updates
  BY DEF Job
<1>2. /\ SnapshotOf(job).pc = "prepare" /\ SnapshotOf(job).force = job.force
      /\ SnapshotOf(job).updates = job.updates
      /\ SnapshotOf(job).snap = [f \in Files |-> source[f]]
  BY DEF SnapshotOf, Job
<1>3. /\ Prepared(job).pc = "dispatch" /\ Prepared(job).force = job.force
      /\ Prepared(job).updates = [c \in Creds |-> UpdateFor(job, c)]
  BY DEF Prepared, Job
<1> QED
  BY <1>1, <1>2, <1>3, Zenon

(* A client's states in their order. *)
LEMMA ClientStates ==
    /\ Gone.ver = 0 /\ Joined.ver = 1 /\ Left.ver = 2
    /\ Gone.there = FALSE /\ Joined.there = TRUE /\ Left.there = FALSE
    /\ UpTo(Joined, Left)
BY DEF Gone, Joined, Left, UpTo

(* A step within the goroutines keeps OInv when what a refresh carries was   *)
(* carried before or is in the files now, ...                                *)
LEMMA JobsMove ==
    ASSUME OInv, TInv', OneAtATime', UNCHANGED <<source, pending, pipeline, client>>,
           \A c \in Channels : /\ runtime'[c] = runtime[c] /\ current'[c] = current[c]
                               /\ handler'.updates[c] = NoUpdate
                               /\ \/ reload'.updates[c] \in {NoUpdate, reload.updates[c]}
                                  \/ reload'.updates[c] = runtime[c] /\ runtime[c] = Joined,
           \A f \in Files :
              Carried(handler, f)' \cup Carried(reload, f)' \subseteq
                 Carried(handler, f) \cup Carried(reload, f) \cup {source[f]}
    PROVE  OInv'
<1>1. \A d \in Creds : InLine(d)' /\ InLine(d) /\ Underway(d)' = Underway(d)
  BY LineStays DEF OInv
<1>2. ASSUME NEW f \in Files PROVE FileJob(handler, f)' /\ FileJob(reload, f)'
  <2>1. \A s \in Carried(handler, f)' \cup Carried(reload, f)' :
           UpTo(s, source[f]) /\ AllUpTo(Underway(f), s)
    BY <1>1 DEF OInv, FileJob, InLine, AllUpTo, UpTo, Creds
  <2>2. Underway(f)' = Underway(f)
    BY <1>1 DEF Creds
  <2> QED
    BY <2>1, <2>2 DEF FileJob, AllUpTo, UpTo
<1>3. ASSUME NEW c \in Channels PROVE Client(c)'
  <2>1. Client(c) /\ Underway(c)' = Underway(c)
    BY <1>1 DEF OInv, Creds
  <2>2. Joined # Gone /\ Joined # Left
    BY DEF Joined, Gone, Left
  <2> QED
    BY <2>1, <2>2 DEF Client, AllUpTo, UpTo
<1> QED
  BY <1>1, <1>2, <1>3 DEF OInv

(* ... one of the pipeline when it adds nothing to what is underway, ...     *)
LEMMA PipelineMoves ==
    ASSUME OInv, TInv', \A d \in Creds : InLine(d)' /\ Underway(d)' \subseteq Underway(d),
           UNCHANGED <<source, current, runtime, handler, reload, client>>
    PROVE  OInv'
<1>1. ASSUME NEW f \in Files PROVE FileJob(handler, f)' /\ FileJob(reload, f)'
  <2>1. Carried(handler, f)' = Carried(handler, f) /\ Carried(reload, f)' = Carried(reload, f)
    BY DEF Carried
  <2> QED
    BY <2>1 DEF OInv, FileJob, AllUpTo, UpTo, Creds
<1>2. ASSUME NEW c \in Channels PROVE Client(c)'
  BY DEF OInv, Client, AllUpTo, UpTo, Creds
<1> QED
  BY <1>1, <1>2 DEF OInv, OneAtATime, Holding

(* ... and a dispatch, of the one refresh that holds anything.               *)
LEMMA Dispatched ==
    ASSUME OInv, TInv', UNCHANGED <<source, pipeline, client, runtime, current>>,
           NEW job \in {handler, reload}, job.pc = "dispatch", Merge(job.updates),
           \/ job = handler /\ handler' = Idle /\ reload' = reload
           \/ job = reload /\ reload' = Idle /\ handler' = handler
    PROVE  OInv'
<1>1. ~Holding(handler)' /\ ~Holding(reload)' /\ handler'.force = FALSE
  BY FreshJobs DEF OInv, OneAtATime, Holding, Fresh
<1>2. \A f \in Files : Carried(handler, f)' = {} /\ Carried(reload, f)' = {}
  BY <1>1 DEF Carried, Holding
<1>3. job.updates \in Updates
  BY DEF OInv, TInv, TypeOK, Job
<1>4. \A d \in Creds : pending'[d] = IF job.updates[d] # NoUpdate THEN job.updates[d] ELSE pending[d]
  BY DEF Merge
<1>5. ASSUME NEW f \in Files PROVE InLine(f)'
  <2>1. CASE job.updates[f] = NoUpdate
    BY <1>4, <2>1, LineUnmerged DEF Creds
  <2>2. CASE job.updates[f] # NoUpdate
    <3> DEFINE s == job.updates[f]
    <3>1. s \in State /\ f \in Creds /\ pending'[f] = s
      BY <1>3, <1>4, <2>2 DEF Updates, Creds
    <3>2. s \in Carried(job, f)
      BY <2>2 DEF Carried
    <3>3. UpTo(s, source[f]) /\ AllUpTo(Underway(f), s)
      BY <3>2 DEF OInv, FileJob
    <3> QED
      BY <3>1, <3>3, LineMerged
  <2> QED
    BY <2>1, <2>2
<1>6. ASSUME NEW c \in Channels PROVE InLine(c)' /\ Client(c)'
  <2>1. Client(c) /\ Session(c) /\ c \in Creds /\ InLine(c) /\ client[c] = client'[c]
    BY DEF OInv, TInv, Creds
  <2>2. Idle.updates[c] = NoUpdate
    BY FreshJobs DEF NoUpdates, Creds, Fresh
  <2>3. handler'.updates[c] = NoUpdate /\ reload'.updates[c] \in {NoUpdate, reload.updates[c]}
    BY <2>1, <2>2 DEF Client
  <2>4. CASE job.updates[c] = NoUpdate
    <3>1. InLine(c)' /\ Underway(c)' = Underway(c)
      BY <1>4, <2>4, LineUnmerged DEF Creds
    <3> QED
      BY <2>1, <2>3, <3>1 DEF Client, AllUpTo, UpTo
  <2>5. CASE job.updates[c] # NoUpdate
    <3>1. /\ job.updates[c] = Joined /\ client[c].up # "none" /\ client[c].down \in {"none", "left"}
          /\ pending'[c] = Joined
      BY <1>4, <2>1, <2>5 DEF Client
    <3>2. UpTo(Joined, source[c]) /\ AllUpTo(Underway(c), Joined)
      BY <2>1, <3>1, ClientStates DEF Client, Session, UpTo
    <3>3. InLine(c)' /\ Underway(c)' \subseteq Underway(c) \cup {Joined}
      BY <2>1, <3>1, <3>2, LineMerged, Values
    <3>4. \A s \in Underway(c)' : UpTo(s, Joined)
      BY <3>2, <3>3 DEF AllUpTo, UpTo
    <3> QED
      BY <2>1, <2>3, <3>3, <3>4 DEF Client, AllUpTo, UpTo
  <2> QED
    BY <2>4, <2>5
<1> QED
  BY <1>1, <1>2, <1>5, <1>6 DEF OInv, OneAtATime, FileJob, Creds

(* What a client's goroutine does to its own credential keeps OInv: first in *)
(* the watcher, ...                                                          *)
LEMMA ClientKept ==
    ASSUME Paced, OInv, TInv', NEW c \in Channels, Keep(c) \/ Drop(c)
    PROVE  OInv'
<1>1. /\ UNCHANGED <<source, pending, pipeline, handler, reload>>
      /\ \A d \in Channels \ {c} : client'[d] = client[d] /\ runtime'[d] = runtime[d] /\ current'[d] = current[d]
  BY DEF Keep, Drop, outside, OInv, TInv, TypeOK, Creds
<1>2. \A d \in Creds : InLine(d)' /\ Underway(d)' = Underway(d)
  BY <1>1, LineStays
<1>3. ASSUME NEW f \in Files PROVE FileJob(handler, f)' /\ FileJob(reload, f)'
  <2>1. Carried(handler, f)' = Carried(handler, f) /\ Carried(reload, f)' = Carried(reload, f)
    BY <1>1 DEF Carried
  <2> QED
    BY <1>1, <1>2, <2>1 DEF OInv, FileJob, AllUpTo, UpTo, Creds
<1>4. ASSUME NEW d \in Channels \ {c} PROVE Client(d)'
  <2>1. Client(d) /\ Underway(d)' = Underway(d)
    BY <1>2 DEF OInv, Creds
  <2> QED
    BY <1>1, <2>1 DEF Client, AllUpTo, UpTo
<1>5. Client(c) /\ Session(c) /\ Underway(c)' = Underway(c) /\ c \in Creds
  BY <1>2 DEF OInv, TInv, Creds
<1>6. CASE Keep(c)
  <2>1. /\ client[c].up = "joined" /\ client[c].down = "none" /\ client'[c].down = "none"
        /\ client'[c].up \in {"kept", "told"}
        /\ \/ runtime'[c] = runtime[c] /\ current'[c] = current[c]
           \/ runtime'[c] = Joined /\ current'[c] = Joined
    BY <1>5, <1>6 DEF Keep, Client, OInv, TInv, TypeOK
  <2> QED
    BY <1>1, <1>2, <1>3, <1>4, <1>5, <2>1 DEF OInv, Client, AllUpTo, UpTo, OneAtATime, Holding
<1>7. CASE Drop(c)
  <2>1. /\ client[c].down = "left" /\ client[c].up = "told"
        /\ client'[c].down = "dropped" /\ client'[c].up = "told"
        /\ runtime'[c] = Left /\ current'[c] = Left /\ reload.updates[c] = NoUpdate
    BY <1>5, <1>7 DEF Drop, Client, OInv, TInv, TypeOK, Paced
  <2> QED
    BY <1>1, <1>2, <1>3, <1>4, <1>5, <2>1 DEF OInv, Client, AllUpTo, UpTo, OneAtATime, Holding
<1> QED
  BY <1>6, <1>7

(* ... then in what is pending.                                              *)
LEMMA ClientTold ==
    ASSUME OInv, TInv', NEW c \in Channels, TellJoined(c) \/ TellLeft(c)
    PROVE  OInv'
<1> DEFINE s == IF client[c].up = "kept" THEN Joined ELSE Left
<1>1. /\ UNCHANGED <<source, pipeline, handler, reload, runtime, current>>
      /\ \A d \in Channels \ {c} : client'[d] = client[d]
  BY DEF TellJoined, TellLeft, outside, OInv, TInv, TypeOK
<1>2. Client(c) /\ Session(c) /\ c \in Creds /\ InLine(c)
  BY DEF OInv, TInv, Creds
<1>3. \/ /\ client[c].up = "kept" /\ client[c].down = "none" /\ s = Joined /\ source[c] = Joined
         /\ client'[c].up = "told" /\ client'[c].down = "none"
         /\ Merge([NoUpdates EXCEPT ![c] = Joined])
      \/ /\ client[c].up = "told" /\ client[c].down = "dropped" /\ s = Left /\ source[c] = Left
         /\ client'[c].up = "told" /\ client'[c].down = "told"
         /\ Merge([NoUpdates EXCEPT ![c] = Left])
  BY <1>2 DEF TellJoined, TellLeft, Client, Session, OInv, TInv, TypeOK
<1>4. /\ \A d \in Creds \ {c} : pending'[d] = pending[d]
      /\ pending'[c] = s \/ (s = NoUpdate /\ pending'[c] = pending[c])
  BY <1>2, <1>3 DEF Merge, NoUpdates
<1>5. s \in State /\ UpTo(s, source[c]) /\ AllUpTo(Underway(c), s)
  BY <1>2, <1>3, Values DEF InLine, UpTo, OInv, TInv, TypeOK
<1> HIDE DEF s
<1>6. \A d \in Creds \ {c} : InLine(d)' /\ Underway(d)' = Underway(d)
  BY <1>1, <1>4, LineUnmerged
<1>7. InLine(c)' /\ Underway(c)' \subseteq Underway(c) \cup {s}
  <2>1. CASE pending'[c] = s
    BY <1>1, <1>2, <1>5, <2>1, LineMerged
  <2>2. CASE pending'[c] = pending[c]
    BY <1>1, <1>2, <2>2, LineUnmerged
  <2> QED
    BY <1>4, <2>1, <2>2
<1>8. ASSUME NEW f \in Files PROVE FileJob(handler, f)' /\ FileJob(reload, f)'
  <2>1. Carried(handler, f)' = Carried(handler, f) /\ Carried(reload, f)' = Carried(reload, f)
    BY <1>1 DEF Carried
  <2>2. f \in Creds \ {c}
    BY BoundsAssumption DEF Creds
  <2> QED
    BY <1>1, <1>6, <2>1, <2>2 DEF OInv, FileJob, AllUpTo, UpTo
<1>9. ASSUME NEW d \in Channels \ {c} PROVE Client(d)'
  <2>1. Client(d) /\ Underway(d)' = Underway(d)
    BY <1>6 DEF OInv, Creds
  <2> QED
    BY <1>1, <2>1 DEF Client, AllUpTo, UpTo
<1>10. Client(c)'
  <2>1. client'[c].down # "told" => \A t \in Underway(c)' : UpTo(t, Joined)
    BY <1>2, <1>3, <1>7 DEF Client, AllUpTo, UpTo
  <2> QED
    BY <1>1, <1>2, <1>3, <2>1 DEF Client, AllUpTo, UpTo
<1> QED
  BY <1>1, <1>6, <1>7, <1>8, <1>9, <1>10 DEF OInv, OneAtATime, Holding

(* A change of a file keeps OInv. *)
LEMMA FileChanges ==
    ASSUME OInv, TInv', NEW f \in Files, Truncate(f) \/ Fill(f) \/ RemoveFile(f)
    PROVE  /\ OInv'
           /\ source' = source \/ source'[f].ver = source[f].ver + 1
           /\ \A d \in Creds \ {f} : source'[d] = source[d]
           /\ manager' = manager /\ source' \in [Creds -> State]
<1>1. /\ source' = source \/ source'[f].ver = source[f].ver + 1
      /\ \A d \in Creds \ {f} : source'[d] = source[d]
      /\ UNCHANGED <<handler, reload, pending, pipeline, client, runtime, current>>
      /\ f \in Creds /\ source' \in [Creds -> State] /\ manager' = manager
  <2>1. /\ \/ source' = source
           \/ source' = [source EXCEPT ![f] = Away(f)] /\ ChangesLeft(1)
           \/ \E content \in {source[f].ver + 1, source[f].content} :
                 source' = [source EXCEPT ![f] = [ver |-> source[f].ver + 1, there |-> TRUE,
                                                 content |-> content]]
        /\ UNCHANGED <<handler, reload, pending, pipeline, client, runtime, current>>
        /\ manager' = manager
    <3>1. ChangesLeft(2) => ChangesLeft(1)
      BY BoundsAssumption DEF ChangesLeft, OInv, TInv, TypeOK
    <3> QED
      BY <3>1 DEF Truncate, Fill, RemoveFile, pipeline
  <2>2. ChangesLeft(1) => Away(f).ver = source[f].ver + 1
    BY AwayTypes DEF OInv
  <2>3. source \in [Creds -> State] /\ source' \in [Creds -> State] /\ f \in Creds
    BY DEF OInv, TInv, TypeOK, Creds
  <2> QED
    BY <2>1, <2>2, <2>3
<1>2. ASSUME source' = source PROVE OInv'
  <2>1. \A d \in Creds : InLine(d)' /\ Underway(d)' = Underway(d)
    BY <1>1, <1>2, LineStays
  <2> QED
    BY <1>1, <1>2, <2>1, PipelineMoves
<1>3. ASSUME source'[f].ver = source[f].ver + 1 PROVE OInv'
  <2>1. TypeOK'
    BY DEF TInv
  <2>2. /\ \A d \in Creds : InLine(d)'
        /\ \A g \in Files : FileJob(handler, g)' /\ FileJob(reload, g)'
        /\ OneAtATime'
        /\ \A d \in Creds : Underway(d)' = Underway(d)
    BY <1>1, <1>3, <2>1, SourceRises
  <2>3. \A c \in Channels : Client(c)'
    BY <1>1, <2>2 DEF OInv, Client, AllUpTo, UpTo, Creds
  <2> QED
    BY <1>1, <2>2, <2>3 DEF OInv
<1> QED
  BY <1>1, <1>2, <1>3

(* So do a client's coming and going. *)
LEMMA ClientChanges ==
    ASSUME Paced, OInv, TInv', NEW c \in Channels, Join(c) \/ Leave(c)
    PROVE  /\ OInv'
           /\ source'[c].ver = source[c].ver + 1
           /\ \A d \in Creds \ {c} : source'[d] = source[d]
           /\ manager' = manager /\ source' \in [Creds -> State]
<1>1. Client(c) /\ Session(c) /\ c \in Creds
  BY DEF OInv, TInv, Creds
<1>2. /\ UNCHANGED <<handler, reload, pending, pipeline, runtime, current>>
      /\ \A d \in Creds \ {c} : source'[d] = source[d]
      /\ \A d \in Channels \ {c} : client'[d] = client[d]
      /\ source' \in [Creds -> State] /\ manager' = manager
  BY <1>1 DEF pipeline, Join, Leave, OInv, TInv, TypeOK
<1>3. source'[c].ver = source[c].ver + 1
  <2>1. CASE Join(c)
    BY <1>1, <2>1, ClientStates DEF Join, Session, OInv, TInv, TypeOK
  <2>2. CASE Leave(c)
    BY <1>1, <2>2, ClientStates DEF Leave, Session, OInv, TInv, TypeOK
  <2> QED
    BY <2>1, <2>2
<1>4. /\ \A d \in Creds : InLine(d)'
      /\ \A g \in Files : FileJob(handler, g)' /\ FileJob(reload, g)'
      /\ OneAtATime'
      /\ \A d \in Creds : Underway(d)' = Underway(d)
  <2>1. TypeOK'
    BY DEF TInv
  <2> QED
    BY <1>1, <1>2, <1>3, <2>1, SourceRises
<1>5. ASSUME NEW d \in Channels PROVE Client(d)'
  <2>1. CASE d # c
    BY <1>2, <1>4, <2>1 DEF OInv, Client, AllUpTo, UpTo, Creds
  <2>2. CASE d = c
    <3>1. \/ /\ client[c].up = "none" /\ client[c].down = "none"
             /\ client'[c].up = "joined" /\ client'[c].down = "none"
          \/ /\ client[c].up = "told" /\ client[c].down = "none"
             /\ client'[c].up = "told" /\ client'[c].down = "left"
      BY <1>1 DEF Join, Leave, Session, Paced, OInv, TInv, TypeOK
    <3> QED
      BY <1>1, <1>2, <1>4, <2>2, <3>1 DEF Client, AllUpTo, UpTo
  <2> QED
    BY <2>1, <2>2
<1> QED
  BY <1>2, <1>3, <1>4, <1>5 DEF OInv

(* What a refresh computes: of a file the state it carries, of a client      *)
(* nothing, unless it is forced and the client is there.                     *)
LEMMA PreparedUpdates ==
    ASSUME OInv, NEW job \in {handler, reload}, job.pc = "prepare"
    PROVE  /\ \A f \in Files : Prepared(job).updates[f] \in {NoUpdate, job.snap[f]}
           /\ \A c \in Channels : /\ Listed(job)[c] = runtime[c]
                                  /\ \/ Prepared(job).updates[c] = NoUpdate
                                     \/ /\ job.force /\ runtime[c] = Joined
                                        /\ Prepared(job).updates[c] = Joined
<1>1. job \in Job /\ Files \subseteq Creds /\ Channels \subseteq Creds
  BY DEF OInv, TInv, TypeOK, Creds
<1>2. \A c \in Creds : Prepared(job).updates[c] = UpdateFor(job, c)
  <2>1. Prepared(job).updates = [c \in Creds |-> UpdateFor(job, c)]
    BY <1>1, JobFields
  <2> QED
    BY <2>1
<1>3. \A f \in Files : Listed(job)[f] = job.snap[f]
  BY <1>1 DEF Listed
<1>4. \A c \in Channels : Listed(job)[c] = runtime[c]
  BY <1>1, BoundsAssumption DEF Listed
<1>5. ASSUME NEW c \in Channels
      PROVE  \/ UpdateFor(job, c) = NoUpdate
             \/ job.force /\ runtime[c] = Joined /\ UpdateFor(job, c) = Joined
  <2>1. Client(c)
    BY DEF OInv
  <2>2. current[c] = Listed(job)[c] /\ Listed(job)[c] = runtime[c]
    BY <1>4, <2>1 DEF Client
  <2>3. ~Gone.there /\ ~Left.there /\ runtime[c] \in {Gone, Joined, Left}
    BY <2>1, ClientStates DEF Client
  <2> QED
    BY <2>2, <2>3 DEF UpdateFor, Same
<1> QED
  BY <1>1, <1>2, <1>3, <1>4, <1>5 DEF UpdateFor

(* Every step keeps OInv, and is a step of the mirror or none. *)
LEMMA OrderStep ==
    ASSUME Paced, OInv, TInv', [Next]_vars
    PROVE  OInv'
<1>1. /\ TypeOK /\ Files \subseteq Creds /\ Channels \subseteq Creds /\ handler \in Job /\ reload \in Job
      /\ OneAtATime
      /\ \A c \in Channels : handler.updates[c] = NoUpdate
  BY DEF OInv, TInv, TypeOK, Creds, Client
<1>2. \A c \in Channels : NoUpdates[c] = NoUpdate
  BY <1>1 DEF NoUpdates
<1>3. ASSUME TakeEvent \/ Settle \/ ReadFile \/ CompareHash \/ RemoveClient PROVE OInv'
  <2>1. /\ ~Holding(handler') /\ handler'.force = FALSE
        /\ handler'.updates \in {handler.updates, NoUpdates}
    <3>1. CASE TakeEvent
      <4>1. Head(events).file \in Files
        <5>1. Head(events) \in Event
          BY <1>1, <3>1, Elements DEF TakeEvent, TypeOK, Event
        <5> QED
          BY <5>1 DEF Event
      <4>2. \/ handler' = AfterRead(Head(events).file)
            \/ handler' = [Idle EXCEPT !.pc = "settle", !.file = Head(events).file]
            \/ handler' = handler /\ handler = Idle
        BY <3>1 DEF TakeEvent
      <4> QED
        BY <1>1, <4>1, <4>2, FreshJobs DEF Fresh, OneAtATime, Holding
    <3>2. CASE Settle
      <4>1. \/ handler' = Idle
            \/ \E pc \in {"read", "remove"} : handler' = [handler EXCEPT !.pc = pc]
        BY <3>2 DEF Settle
      <4> QED
        <5>1. CASE handler' = Idle
          BY <5>1, FreshJobs DEF Fresh
        <5>2. ASSUME NEW pc \in {"read", "remove"}, handler' = [handler EXCEPT !.pc = pc]
              PROVE  /\ ~Holding(handler') /\ handler'.force = FALSE
                     /\ handler'.updates \in {handler.updates, NoUpdates}
          <6>1. handler'.pc = pc /\ handler'.force = handler.force /\ handler'.updates = handler.updates
            BY <1>1, <5>2, JobFields
          <6> QED
            BY <1>1, <6>1 DEF OneAtATime, Holding
        <5> QED
          BY <4>1, <5>1, <5>2
    <3>3. CASE ReadFile
      <4>1. handler.file \in Files /\ handler' = AfterRead(handler.file)
        BY <3>3 DEF ReadFile, OInv, TInv, Busy
      <4> QED
        BY <4>1, FreshJobs DEF Fresh
    <3>4. CASE CompareHash \/ RemoveClient
      <4>1. handler' = Idle \/ handler' = [Idle EXCEPT !.pc = "snapshot"]
        BY <3>4 DEF CompareHash, RemoveClient
      <4> QED
        BY <4>1, FreshJobs DEF Fresh
    <3> QED
      BY <1>3, <3>1, <3>2, <3>3, <3>4
  <2>2. UNCHANGED <<source, pending, pipeline, client, runtime, current, reload>>
    BY <1>3 DEF TakeEvent, Settle, ReadFile, CompareHash, RemoveClient, outside
  <2>3. OneAtATime' /\ \A f \in Files : Carried(handler, f)' = {} /\ Carried(reload, f)' = Carried(reload, f)
    BY <2>1, <2>2 DEF OneAtATime, Holding, Carried
  <2> QED
    BY <1>1, <1>2, <2>1, <2>2, <2>3, JobsMove
<1>4. ASSUME NEW cut \in SUBSET Files, NEW rescan \in BOOLEAN, NEW force \in BOOLEAN,
             BeginReload(cut, rescan, force)
      PROVE OInv'
  <2>1. reload'.pc \in {"rescan", "snapshot"} /\ reload'.updates = NoUpdates
    BY <1>4 DEF BeginReload, Idle
  <2>2. UNCHANGED <<source, pending, pipeline, client, runtime, handler>>
    BY <1>4 DEF BeginReload, outside
  <2>3. \A c \in Channels : current'[c] = current[c]
    BY <1>1, <1>4, BoundsAssumption DEF BeginReload
  <2>4. OneAtATime' /\ \A f \in Files : Carried(reload, f)' = {} /\ Carried(handler, f)' = Carried(handler, f)
    BY <1>1, <2>1, <2>2 DEF OneAtATime, Holding, Carried
  <2> QED
    BY <1>1, <1>2, <2>1, <2>2, <2>3, <2>4, JobsMove
<1>5. CASE Rescan
  <2>1. reload'.pc = "snapshot" /\ reload'.updates = reload.updates
    BY <1>1, <1>5, JobFields DEF Rescan
  <2>2. UNCHANGED <<source, pending, pipeline, client, runtime, current, handler>>
    BY <1>5 DEF Rescan, outside
  <2>3. OneAtATime' /\ \A f \in Files : Carried(reload, f)' = {} /\ Carried(handler, f)' = Carried(handler, f)
    BY <1>1, <2>1, <2>2 DEF OneAtATime, Holding, Carried
  <2> QED
    BY <1>1, <2>1, <2>2, <2>3, JobsMove
<1>6. CASE HandlerSnapshot
  <2>1. /\ handler'.pc = "prepare" /\ handler'.force = FALSE /\ handler'.updates = handler.updates
        /\ handler'.snap = [f \in Files |-> source[f]]
    BY <1>1, <1>6, JobFields DEF HandlerSnapshot, OneAtATime
  <2>2. UNCHANGED <<source, pending, pipeline, client, runtime, current, reload>> /\ ~Holding(reload)
    BY <1>6 DEF HandlerSnapshot, outside, Apart, Paced, Holding
  <2>3. OneAtATime' /\ \A f \in Files : Carried(handler, f)' = {source[f]} /\ Carried(reload, f)' = Carried(reload, f)
    BY <2>1, <2>2 DEF OneAtATime, Holding, Carried
  <2> QED
    BY <1>1, <2>1, <2>2, <2>3, JobsMove
<1>7. CASE ReloadSnapshot
  <2>1. /\ reload'.pc = "prepare" /\ reload'.updates = reload.updates
        /\ reload'.snap = [f \in Files |-> source[f]]
    BY <1>1, <1>7, JobFields DEF ReloadSnapshot
  <2>2. UNCHANGED <<source, pending, pipeline, client, runtime, current, handler>> /\ ~Holding(handler)
    BY <1>7 DEF ReloadSnapshot, outside, Apart, Paced, Holding
  <2>3. OneAtATime' /\ \A f \in Files : Carried(reload, f)' = {source[f]} /\ Carried(handler, f)' = Carried(handler, f)
    BY <1>1, <2>1, <2>2 DEF OneAtATime, Holding, Carried
  <2> QED
    BY <1>1, <2>1, <2>2, <2>3, JobsMove
<1>8. CASE HandlerPrepare
  <2>1. /\ handler'.pc = "dispatch" /\ handler'.force = FALSE /\ handler' = Prepared(handler)
        /\ handler.pc = "prepare" /\ current' = Listed(handler)
    BY <1>1, <1>8, JobFields DEF HandlerPrepare, OneAtATime
  <2>2. UNCHANGED <<source, pending, pipeline, client, runtime, reload>>
    BY <1>8 DEF HandlerPrepare, outside
  <2>3. \A c \in Channels : /\ current'[c] = current[c] /\ handler'.updates[c] = NoUpdate
    BY <1>1, <2>1, PreparedUpdates DEF OInv, Client, OneAtATime
  <2>4. OneAtATime' /\ \A f \in Files : Carried(handler, f)' \subseteq Carried(handler, f) /\ Carried(reload, f)' = Carried(reload, f)
    BY <1>1, <2>1, <2>2, PreparedUpdates DEF OneAtATime, Holding, Carried
  <2> QED
    BY <1>1, <2>1, <2>2, <2>3, <2>4, JobsMove
<1>9. CASE ReloadPrepare
  <2>1. /\ reload'.pc = "dispatch" /\ reload' = Prepared(reload)
        /\ reload.pc = "prepare" /\ current' = Listed(reload)
    BY <1>1, <1>9, JobFields DEF ReloadPrepare
  <2>2. UNCHANGED <<source, pending, pipeline, client, runtime, handler>>
    BY <1>9 DEF ReloadPrepare, outside
  <2>3. \A c \in Channels :
           /\ current'[c] = current[c]
           /\ reload'.updates[c] = NoUpdate \/ (reload'.updates[c] = runtime[c] /\ runtime[c] = Joined)
    BY <1>1, <2>1, PreparedUpdates DEF OInv, Client
  <2>4. OneAtATime' /\ \A f \in Files : Carried(reload, f)' \subseteq Carried(reload, f) /\ Carried(handler, f)' = Carried(handler, f)
    BY <1>1, <2>1, <2>2, PreparedUpdates DEF OneAtATime, Holding, Carried
  <2> QED
    BY <1>1, <2>1, <2>2, <2>3, <2>4, JobsMove
<1>10. CASE HandlerDispatch
  BY <1>10, Dispatched DEF HandlerDispatch, outside
<1>11. CASE ReloadDispatch
  BY <1>11, Dispatched DEF ReloadDispatch, outside
<1>12. CASE TakeBatch
  <2>1. UNCHANGED <<source, current, runtime, handler, reload, client>>
    BY <1>12 DEF TakeBatch, outside
  <2> QED
    BY <1>12, <2>1, LineBatched, PipelineMoves
<1>13. ASSUME NEW c \in Creds, Send(c) PROVE OInv'
  <2>1. UNCHANGED <<source, current, runtime, handler, reload, client>>
    BY <1>13 DEF Send, outside
  <2> QED
    BY <1>13, <2>1, LineSent, PipelineMoves
<1>14. CASE Consume
  <2>1. UNCHANGED <<source, current, runtime, handler, reload, client>>
    BY <1>14 DEF Consume, outside
  <2> QED
    BY <1>14, <2>1, LineConsumed, PipelineMoves
<1>15. ASSUME NEW f \in Files, WindowPasses(f) \/ UNCHANGED vars PROVE OInv'
  <2>1. UNCHANGED <<source, pending, pipeline, current, runtime, handler, reload, client>>
    BY <1>15 DEF WindowPasses, outside, vars, pipeline
  <2> QED
    BY <2>1, LineStays, PipelineMoves
<1>16. CASE UNCHANGED vars
  <2>1. UNCHANGED <<source, pending, pipeline, current, runtime, handler, reload, client>>
    BY <1>16 DEF outside, vars, pipeline
  <2> QED
    BY <2>1, LineStays, PipelineMoves
<1> QED
  BY <1>3, <1>4, <1>5, <1>6, <1>7, <1>8, <1>9, <1>10, <1>11, <1>12, <1>13, <1>14, <1>15, <1>16,
     FileChanges, ClientChanges, ClientKept, ClientTold
     DEF Next, Environment, Handle, Reload, DispatchLoop, Connect, Disconnect

(* What the manager sees of a step is a step of the mirror. *)
LEMMA MirrorStep ==
    ASSUME Paced, OInv, TInv', [Next]_vars
    PROVE  [Mirror!Next]_(Mirror!vars)
<1> USE DEF Mirror!vars
<1>1. source \in [Creds -> State] /\ manager \in [Creds -> State] /\ manager' \in [Creds -> State]
      /\ Files \subseteq Creds /\ Channels \subseteq Creds
  BY DEF OInv, TInv, TypeOK, Creds
<1>2. Mirror!State = State
  BY DEF Mirror!State, State
<1>3. ASSUME NEW c \in Creds, source'[c].ver = source[c].ver + 1, source' \in [Creds -> State],
             \A d \in Creds \ {c} : source'[d] = source[d], manager' = manager
      PROVE  Mirror!Next
  <2>1. source' = [source EXCEPT ![c] = source'[c]] /\ source'[c] \in State
    BY <1>1, <1>3
  <2>2. Mirror!Change(c)
    BY <1>2, <1>3, <2>1 DEF Mirror!Change
  <2> QED
    BY <2>2 DEF Mirror!Next
<1>4. ASSUME NEW f \in Files, Truncate(f) \/ Fill(f) \/ RemoveFile(f)
      PROVE  [Mirror!Next]_(Mirror!vars)
  <2>1. /\ source' = source \/ source'[f].ver = source[f].ver + 1
        /\ \A d \in Creds \ {f} : source'[d] = source[d]
        /\ manager' = manager /\ source' \in [Creds -> State]
    BY <1>4, FileChanges
  <2> QED
    BY <1>1, <1>3, <2>1
<1>5. ASSUME NEW c \in Channels, Join(c) \/ Leave(c)
      PROVE  [Mirror!Next]_(Mirror!vars)
  <2>1. /\ source'[c].ver = source[c].ver + 1
        /\ \A d \in Creds \ {c} : source'[d] = source[d]
        /\ manager' = manager /\ source' \in [Creds -> State]
    BY <1>5, ClientChanges
  <2> QED
    BY <1>1, <1>3, <2>1
<1>6. CASE Consume
  <2> DEFINE c == Head(queue).id
             s == Head(queue).state
  <2>1. /\ source' = source /\ manager' = [manager EXCEPT ![c] = s] /\ c \in Creds /\ s \in State
        /\ manager'[c] = s
    <3>1. Head(queue) \in [id : Creds, state : State]
      BY <1>6, Elements DEF Consume, OInv, TInv, TypeOK
    <3> QED
      BY <1>1, <1>6, <3>1 DEF Consume, outside
  <2>2. UpTo(manager[c], s) /\ UpTo(s, source[c])
    BY <1>6, <2>1, LineConsumed
  <2> HIDE DEF c, s
  <2>3. CASE manager[c] = s
    <3>1. manager' = manager
      BY <1>1, <2>1, <2>3
    <3> QED
      BY <2>1, <3>1
  <2>4. CASE manager[c] # s
    <3>1. manager[c].ver < s.ver /\ s.ver <= source[c].ver /\ (s.ver = source[c].ver => s = source[c])
      <4>1. s.ver \in Nat /\ source[c].ver \in Nat
        BY <1>1, <2>1, BoundsAssumption DEF State
      <4> QED
        BY <2>2, <2>4, <4>1 DEF UpTo
    <3>2. Mirror!Learn(c)
      BY <1>2, <2>1, <3>1 DEF Mirror!Learn
    <3> QED
      BY <2>1, <3>2 DEF Mirror!Next
  <2> QED
    BY <2>3, <2>4
<1>7. ASSUME \/ \E f \in Files : WindowPasses(f)
             \/ \E cut \in SUBSET Files, rescan, force \in BOOLEAN : BeginReload(cut, rescan, force)
             \/ Handle \/ Reload \/ DispatchLoop \/ UNCHANGED vars
             \/ \E c \in Channels : Connect(c) \/ Disconnect(c)
      PROVE  source' = source /\ manager' = manager
  BY <1>7 DEF WindowPasses, BeginReload, Handle, Reload, DispatchLoop, Connect, Disconnect, vars,
     TakeEvent, Settle, ReadFile, CompareHash, RemoveClient, HandlerSnapshot, HandlerPrepare,
     HandlerDispatch, Rescan, ReloadSnapshot, ReloadPrepare, ReloadDispatch, TakeBatch, Send,
     Keep, TellJoined, Drop, TellLeft, outside, pipeline
<1> QED
  BY <1>4, <1>5, <1>6, <1>7 DEF Next, Environment

(* OInv holds at the start, where nothing is underway. *)
LEMMA OrderAtStart == Init => OInv
<1> SUFFICES ASSUME Init PROVE OInv
  OBVIOUS
<1>1. TInv /\ handler = Idle /\ reload.pc = "rescan" /\ reload.updates = NoUpdates
  BY TypeAtStart DEF Init, Idle
<1>2. /\ batch = NoUpdates /\ pending = NoUpdates /\ queue = <<>> /\ manager = source
      /\ \A d \in Creds : NoUpdates[d] = NoUpdate
  BY DEF Init, NoUpdates
<1>3. \A d \in Creds : Sent(d) = {} /\ Underway(d) = {source[d]}
  BY <1>2 DEF Sent, Underway, Batched, Queued
<1>4. \A d \in Creds : InLine(d)
  BY <1>2, <1>3 DEF InLine, AllUpTo, UpTo
<1>5. \A f \in Files : FileJob(handler, f) /\ FileJob(reload, f)
  BY <1>1, FreshJobs DEF FileJob, Carried, Fresh, Holding
<1>6. OneAtATime
  BY <1>1, FreshJobs DEF OneAtATime, Fresh, Holding
<1>7. ASSUME NEW c \in Channels PROVE Client(c)
  <2>1. /\ runtime[c] = Gone /\ current[c] = Gone /\ source[c] = Gone /\ c \in Creds
        /\ client[c].up = "none" /\ client[c].down = "none"
    BY DEF Init, Creds
  <2>2. handler.updates[c] = NoUpdate /\ reload.updates[c] = NoUpdate
    BY <1>1, <1>2, <2>1, FreshJobs DEF Fresh
  <2>3. UpTo(Gone, Joined)
    BY ClientStates DEF UpTo
  <2> QED
    BY <1>3, <2>1, <2>2, <2>3 DEF Client, AllUpTo
<1> QED
  BY <1>1, <1>4, <1>5, <1>6, <1>7 DEF OInv

(* While no two refreshes overlap, no client goes in a forced one, and none  *)
(* before the service has been told that it came, the manager's entries only *)
(* ever move forward: whatever merging, batching and queueing do, an update  *)
(* overtaken by a newer one never reaches the manager after it.  That is the *)
(* safety half of the refinement; the assumptions on files serve the other.  *)
(* A lemma only: two refreshes can overlap, and the mirror steps back then.  *)
LEMMA NeverStepsBack == Paced => (Spec => MirrorsInOrder)
<1> SUFFICES ASSUME Paced PROVE Spec => MirrorsInOrder
  OBVIOUS
<1>1. Init => OInv
  BY OrderAtStart
<1>2. OInv /\ [Next]_vars => OInv'
  BY OrderStep, TypeStep DEF OInv
<1>3. OInv /\ [Next]_vars => [Mirror!Next]_(Mirror!vars)
  BY MirrorStep, TypeStep DEF OInv
<1>4. Init => Mirror!Init
  <2> SUFFICES ASSUME Init PROVE Mirror!Init
    OBVIOUS
  <2>1. source \in [Creds -> State] /\ manager = source
    BY TypeAtStart DEF Init, TInv, TypeOK
  <2>2. Mirror!State = State
    BY DEF Mirror!State, State
  <2> QED
    BY <2>1, <2>2 DEF Mirror!Init, Mirror!TypeOK
<1> QED
  BY <1>1, <1>2, <1>3, <1>4, PTL DEF Spec, MirrorsInOrder, Mirror!Lags
=============================================================================
