-------------------------------- MODULE Usage --------------------------------
(***************************************************************************)
(* Usage records on their way to the statistics: the queue and its worker  *)
(* (sdk/cliproxy/usage/manager.go), the plugin that counts them            *)
(* (internal/usage/logger_plugin.go), export and import of the counts      *)
(* (management/usage.go), and what a restart loses.                        *)
(*                                                                         *)
(* A record is identified with its detail, as dedupKey does; its tokens    *)
(* are a constant.  Publishers append and signal in two steps, for Signal  *)
(* comes after the unlock.                                                 *)
(***************************************************************************)
EXTENDS Naturals, Sequences, FiniteSets, Functions

CONSTANTS
    Records,
    Failing,    \* the records of failed requests
    Tokens,     \* [Records -> Nat]
    MaxImports, \* imports (bound)
    NoRecord

RecordsAssumption ==
    /\ IsFiniteSet(Records) /\ NoRecord \notin Records
    /\ Failing \subseteq Records /\ Tokens \in [Records -> Nat] /\ MaxImports \in Nat

VARIABLES
    publisher, \* each record's publisher: new, appended, done
    queue,     \* Manager.queue
    closed,    \* Manager.closed
    worker,    \* Manager.run and the record it dispatches
    waiting,   \* the worker sleeps in cond.Wait
    accepted,  \* records the queue has taken from this process (history)
    enabled,   \* statisticsEnabled
    stats,     \* RequestStatistics
    exported,  \* the details of a snapshot that was exported
    imports

vars == <<publisher, queue, closed, worker, waiting, accepted, enabled, stats, exported, imports>>
counting == <<enabled, stats, exported, imports>>

Stats == [total : Nat, success : Nat, failure : Nat, tokens : Nat,
          details : [Records -> Nat]]  \* how often each is in the details
NoStats == [total |-> 0, success |-> 0, failure |-> 0, tokens |-> 0,
            details |-> [r \in Records |-> 0]]

TypeOK ==
    /\ publisher \in [Records -> {"new", "appended", "done"}]
    /\ queue \in Seq(Records) /\ accepted \subseteq Records
    /\ {closed, waiting, enabled} \subseteq BOOLEAN
    /\ worker \in [pc : {"none", "run", "dispatch", "ended"}, record : Records \cup {NoRecord}]
    /\ stats \in Stats /\ exported \subseteq Records /\ imports \in 0..MaxImports

Init ==
    /\ publisher = [r \in Records |-> "new"]
    /\ queue = <<>> /\ accepted = {} /\ exported = {} /\ imports = 0
    /\ closed = FALSE /\ waiting = FALSE /\ enabled = TRUE
    /\ worker = [pc |-> "none", record |-> NoRecord]
    /\ stats = NoStats

-----------------------------------------------------------------------------
Started == IF worker.pc = "none" THEN [worker EXCEPT !.pc = "run"] ELSE worker

(* Start, by Service.Run; Publish starts the worker too. *)
Start ==
    /\ worker.pc = "none"
    /\ worker' = Started
    /\ UNCHANGED <<publisher, queue, closed, waiting, accepted, counting>>

Publish(r) ==
    /\ publisher[r] = "new"
    /\ worker' = Started
    /\ IF closed
       THEN /\ publisher' = [publisher EXCEPT ![r] = "done"]
            /\ UNCHANGED <<queue, accepted>>
       ELSE /\ publisher' = [publisher EXCEPT ![r] = "appended"]
            /\ queue' = Append(queue, r)
            /\ accepted' = accepted \cup {r}
    /\ UNCHANGED <<closed, waiting, counting>>

Signal(r) ==
    /\ publisher[r] = "appended"
    /\ publisher' = [publisher EXCEPT ![r] = "done"]
    /\ waiting' = FALSE
    /\ UNCHANGED <<queue, closed, worker, accepted, counting>>

(* Stop: closed under the lock, then Broadcast; nobody waits for the worker. *)
Stop ==
    /\ ~closed
    /\ closed' = TRUE /\ waiting' = FALSE
    /\ UNCHANGED <<publisher, queue, worker, accepted, counting>>

-----------------------------------------------------------------------------
(* run *)
Sleep ==
    /\ worker.pc = "run" /\ ~waiting /\ ~closed /\ queue = <<>>
    /\ waiting' = TRUE
    /\ UNCHANGED <<publisher, queue, closed, worker, accepted, counting>>

End ==
    /\ worker.pc = "run" /\ ~waiting /\ closed /\ queue = <<>>
    /\ worker' = [worker EXCEPT !.pc = "ended"]
    /\ UNCHANGED <<publisher, queue, closed, waiting, accepted, counting>>

Take ==
    /\ worker.pc = "run" /\ ~waiting /\ queue # <<>>
    /\ worker' = [pc |-> "dispatch", record |-> Head(queue)]
    /\ queue' = Tail(queue)
    /\ UNCHANGED <<publisher, closed, waiting, accepted, counting>>

(* What RequestStatistics.Record counts of a record, or recordImported of  *)
(* the new records of an import.                                           *)
Counted(new) ==
    [total |-> stats.total + Cardinality(new),
     success |-> stats.success + Cardinality(new \ Failing),
     failure |-> stats.failure + Cardinality(new \cap Failing),
     tokens |-> stats.tokens + SumFunctionOnSet(Tokens, new),
     details |-> [r \in Records |-> stats.details[r] + IF r \in new THEN 1 ELSE 0]]

(* dispatch; the plugin's panic would be recovered. *)
Dispatch ==
    /\ worker.pc = "dispatch"
    /\ stats' = IF enabled THEN Counted({worker.record}) ELSE stats
    /\ worker' = [pc |-> "run", record |-> NoRecord]
    /\ UNCHANGED <<publisher, queue, closed, waiting, accepted, enabled, exported, imports>>

-----------------------------------------------------------------------------
(* A configuration is applied (UpdateClients). *)
SetStatisticsEnabled ==
    /\ enabled' = ~enabled
    /\ UNCHANGED <<publisher, queue, closed, worker, waiting, accepted, stats, exported, imports>>

Seen == {r \in Records : stats.details[r] > 0}

(* ExportUsageStatistics *)
Snapshot ==
    /\ exported' = Seen
    /\ UNCHANGED <<publisher, queue, closed, worker, waiting, accepted, enabled, stats, imports>>

MergeAll ==  \* mutant: what the statistics have is not left out
    /\ imports < MaxImports /\ imports' = imports + 1
    /\ stats' = Counted(exported)
    /\ UNCHANGED <<publisher, queue, closed, worker, waiting, accepted, enabled, exported>>

(* ImportUsageStatistics of the snapshot, into this process or a later one. *)
MergeSnapshot ==
    /\ imports < MaxImports /\ imports' = imports + 1
    /\ stats' = Counted(exported \ Seen)
    /\ UNCHANGED <<publisher, queue, closed, worker, waiting, accepted, enabled, exported>>

(* The process ends, after Stop or in a crash, and another one begins.      *)
Restart ==
    /\ publisher' = [r \in Records |-> IF publisher[r] = "new" THEN "new" ELSE "done"]
    /\ queue' = <<>> /\ accepted' = {}
    /\ closed' = FALSE /\ waiting' = FALSE /\ enabled' = TRUE
    /\ worker' = [pc |-> "none", record |-> NoRecord]
    /\ stats' = NoStats
    /\ UNCHANGED <<exported, imports>>

-----------------------------------------------------------------------------
Worker == Sleep \/ End \/ Take \/ Dispatch

Next ==
    \/ Start \/ Stop \/ Worker \/ Restart
    \/ \E r \in Records : Publish(r) \/ Signal(r)
    \/ SetStatisticsEnabled \/ Snapshot \/ MergeSnapshot

Spec == Init /\ [][Next]_vars

Fairness == WF_vars(Worker) /\ \A r \in Records : WF_vars(Signal(r))

FairSpec == Spec /\ Fairness

-----------------------------------------------------------------------------
(* The totals are those of the details, and no request is counted twice,    *)
(* whatever is imported again, before or after a restart, and while records *)
(* are being delivered (logger_plugin.go 290: "duplicate request details    *)
(* are skipped").                                                           *)
EachCountedOnce ==
    /\ \A r \in Records : stats.details[r] <= 1
    /\ stats.total = Cardinality(Seen)
    /\ stats.failure = Cardinality(Seen \cap Failing)
    /\ stats.success + stats.failure = stats.total
    /\ stats.tokens = SumFunctionOnSet(Tokens, Seen)

(* A record the queue has taken is dispatched, also when the manager is      *)
(* stopped behind it, unless the process ends before: no wake-up is lost     *)
(* between the append and the signal (manager.go 80: "Stop stops the         *)
(* dispatcher and drains the queue").                                        *)
Waits(r) == r \in accepted /\ (\E i \in 1..Len(queue) : queue[i] = r)
AcceptedDispatched == \A r \in Records : Waits(r) ~> ~Waits(r)
=============================================================================
