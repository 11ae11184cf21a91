---------------------------- MODULE RegistryLock ----------------------------
(***************************************************************************)
(* How the methods of internal/registry/model_registry.go take the         *)
(* registry's sync.RWMutex, and how a change notification leaves it.       *)
(*                                                                         *)
(* A method is the sequence of lock operations it makes: most queries lock *)
(* for reading once, registrations lock for writing and start a goroutine  *)
(* for the hook, GetFirstAvailableModel holds the read lock while it calls *)
(* two methods that take it again.  The mutex is Go's: a writer that waits *)
(* keeps new readers out, and Unlock lets the waiting readers in.          *)
(***************************************************************************)
EXTENDS Naturals, Sequences, FiniteSets

CONSTANTS
    Readers,  \* goroutines in queries that take the lock once
    Writers,  \* goroutines in RegisterClient and UnregisterClient
    Choosers, \* goroutines in GetFirstAvailableModel
    NoWriter

Hooks == {"hook"} \X Writers
HookOf(w) == <<"hook", w>>
Callers == Readers \cup Writers \cup Choosers
Threads == Callers \cup Hooks

ASSUME RolesAssumption ==
    /\ Readers \cap Writers = {} /\ Readers \cap Choosers = {}
    /\ Writers \cap Choosers = {} /\ Callers \cap Hooks = {}
    /\ NoWriter \notin Threads

VARIABLES
    at,      \* the next operation of a thread's method, 0: not in a method
    holds,   \* how often a thread holds the read lock
    writer,  \* the thread that holds the write lock or waits for readers
    waiting  \* threads asleep in RLock or in Lock

vars == <<at, holds, writer, waiting>>

(* A hook reads the registry when it is called. *)
Query == <<"rlock", "runlock">>
RegisterClient == <<"lock", "hook", "unlock">>
GetFirstAvailableModel == <<"rlock", "rlock", "runlock", "rlock", "runlock", "runlock">>

Method(t) ==
    CASE t \in Writers  -> RegisterClient
      [] t \in Choosers -> GetFirstAvailableModel
      [] OTHER          -> Query

TypeOK ==
    /\ at \in [Threads -> 0..6]
    /\ holds \in [Threads -> 0..2]
    /\ writer \in Writers \cup {NoWriter}
    /\ waiting \subseteq Threads

Init ==
    /\ at = [t \in Threads |-> 0]
    /\ holds = [t \in Threads |-> 0]
    /\ writer = NoWriter
    /\ waiting = {}

-----------------------------------------------------------------------------
Doing(t, operation) ==
    at[t] # 0 /\ t \notin waiting /\ Method(t)[at[t]] = operation

Following(t) == IF at[t] = Len(Method(t)) THEN 0 ELSE at[t] + 1

Advance(t) == at' = [at EXCEPT ![t] = Following(t)]

(* A writer's previous hook has run (bound: one hook goroutine each). *)
Call(t) ==
    /\ at[t] = 0
    /\ t \in Writers => at[HookOf(t)] = 0
    /\ at' = [at EXCEPT ![t] = 1]
    /\ UNCHANGED <<holds, writer, waiting>>

RLock(t) ==
    /\ Doing(t, "rlock")
    /\ IF writer = NoWriter
       THEN /\ holds' = [holds EXCEPT ![t] = @ + 1]
            /\ Advance(t)
            /\ UNCHANGED waiting
       ELSE /\ waiting' = waiting \cup {t}
            /\ UNCHANGED <<holds, at>>
    /\ UNCHANGED writer

RUnlock(t) ==
    /\ Doing(t, "runlock")
    /\ holds' = [holds EXCEPT ![t] = @ - 1]
    /\ Advance(t)
    /\ UNCHANGED <<writer, waiting>>

Lock(t) ==
    /\ Doing(t, "lock")
    /\ writer = NoWriter
    /\ writer' = t
    /\ waiting' = waiting \cup {t}
    /\ UNCHANGED <<at, holds>>

LockGranted(t) ==
    /\ writer = t /\ t \in waiting /\ at[t] = 1
    /\ \A s \in Threads : holds[s] = 0
    /\ waiting' = waiting \ {t}
    /\ Advance(t)
    /\ UNCHANGED <<holds, writer>>

(* Mutant: the hook is called, not started as a goroutine. *)
TriggerHookInline(t) ==
    /\ Doing(t, "hook")
    /\ waiting' = waiting \cup {t}
    /\ UNCHANGED <<at, holds, writer>>

(* triggerModelsRegistered, triggerModelsUnregistered. *)
TriggerHook(t) ==
    /\ Doing(t, "hook")
    /\ at' = [at EXCEPT ![t] = Following(t), ![HookOf(t)] = 1]
    /\ UNCHANGED <<holds, writer, waiting>>

Unlock(t) ==
    /\ Doing(t, "unlock")
    /\ writer' = NoWriter
    /\ waiting' = {}
    /\ holds' = [s \in Threads |-> IF s \in waiting THEN holds[s] + 1 ELSE holds[s]]
    /\ at' = [s \in Threads |-> IF s \in waiting \cup {t} THEN Following(s) ELSE at[s]]

Step(t) ==
    \/ RLock(t) \/ RUnlock(t)
    \/ Lock(t) \/ LockGranted(t) \/ TriggerHook(t) \/ Unlock(t)

Next == (\E t \in Callers : Call(t)) \/ \E t \in Threads : Step(t)

Spec == Init /\ [][Next]_vars

(* Goroutines are scheduled; Go's mutex does not starve a waiting writer.  *)
FairSpec ==
    /\ Spec
    /\ \A t \in Threads : WF_vars(Step(t))
    /\ \A t \in Writers : SF_vars(Lock(t))

-----------------------------------------------------------------------------
(* Asleep in an RLock inside its own read lock. *)
CaughtInside(t) == t \in Choosers \cap waiting /\ at[t] \in {2, 4}

(* The mutex does not keep t from its next operation. *)
MayGoOn(t) ==
    \/ at[t] # 0 /\ t \notin waiting /\ (Method(t)[at[t]] = "lock" => writer = NoWriter)
    \/ writer = t /\ t \in waiting /\ at[t] = 1 /\ \A s \in Threads : holds[s] = 0

(* The nested RLock of GetFirstAvailableModel is the only way the registry  *)
(* locks up: while anybody is in a method somebody can go on, however       *)
(* queries, registrations, the hooks they start and choosers overlap, or a  *)
(* chooser has been caught inside.  Nobody else sleeps while it keeps       *)
(* others out: not the queries, and not a registration with its hook        *)
(* (triggerModelsRegistered starts a goroutine for it).                     *)
OnlyNestingLocksUp ==
    /\ \A t \in waiting : /\ holds[t] # 0 => CaughtInside(t)
                          /\ writer = t => at[t] = 1
    /\ (\E t \in Threads : at[t] # 0) => \E t \in Threads : MayGoOn(t) \/ CaughtInside(t)

(* GetFirstAvailableModel's comment: it "returns the first available model *)
(* for the given handler type" or an error.                                *)
FirstModelReturns == \A t \in Choosers : (at[t] # 0) ~> (at[t] = 0)
=============================================================================
