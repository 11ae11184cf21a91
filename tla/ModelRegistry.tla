---------------------------- MODULE ModelRegistry ---------------------------
(***************************************************************************)
(* The model registry, internal/registry/model_registry.go: which client   *)
(* (credential) provides which models, reference counts per model and per  *)
(* provider, and the quota and suspension marks that MarkResult leaves.    *)
(*                                                                         *)
(* Every method runs under the registry's mutex and is one step.  The      *)
(* calls MarkResult makes come after its own unlock, one by one, from any  *)
(* number of goroutines, so each is a step of its own (Notify), and the    *)
(* client may have been unregistered or re-registered in between.          *)
(*                                                                         *)
(* A client's model list is kept as the number of times it names a model.  *)
(* The age of a quota mark is "fresh" or, from five minutes on, "stale".   *)
(***************************************************************************)
EXTENDS Integers, Sequences, FiniteSetsExt

CONSTANTS
    Clients, Models, Providers,
    Reporters,       \* goroutines in MarkResult
    MaxCopies,       \* [Models -> Nat \ {0}]: how often a list may name each (bound)
    ProviderChoices, \* what RegisterClient is called with
    Outcomes,        \* results that occur
    NoProvider,      \* the empty provider name
    NoModel          \* no entry in "models"

VARIABLES
    models,         \* ModelRegistry.models
    clientModels,   \* ModelRegistry.clientModels, as multiplicities
    clientProvider, \* ModelRegistry.clientProviders
    pending         \* the registry calls each reporter still has to make

vars == <<models, clientModels, clientProvider, pending>>

Lists ==
    {l \in [Models -> 0..Max({MaxCopies[m] : m \in Models})] :
        \A m \in Models : l[m] <= MaxCopies[m]}
EmptyList == [m \in Models |-> 0]

Registration ==
    [count : Nat \ {0}, providers : [Providers -> Nat],
     quota : [Clients -> {"none", "fresh", "stale"}],
     suspended : [Clients -> {"none", "quota", "other"}]]

(* What holds of the constants (a module that instantiates this one assumes *)
(* it there).                                                              *)
SettingsAssumption ==
    /\ IsFiniteSet(Clients) /\ IsFiniteSet(Models) /\ Models # {}
    /\ MaxCopies \in [Models -> Nat \ {0}]
    /\ NoProvider \notin Providers
    /\ ProviderChoices \subseteq Providers \cup {NoProvider}
    /\ Outcomes \subseteq {"success", "quota", "rejected"}
    /\ NoModel \notin Registration

Calls == {"clear_quota", "set_quota", "resume", "suspend_quota", "suspend_other"}
Note == [call : Calls, client : Clients, model : Models]

TypeOK ==
    /\ models \in [Models -> Registration \cup {NoModel}]
    /\ clientModels \in [Clients -> Lists]
    /\ clientProvider \in [Clients -> Providers \cup {NoProvider}]
    /\ pending \in [Reporters -> Seq(Note)]

Init ==
    /\ models = [m \in Models |-> NoModel]
    /\ clientModels = [c \in Clients |-> EmptyList]
    /\ clientProvider = [c \in Clients |-> NoProvider]
    /\ pending = [r \in Reporters |-> <<>>]

-----------------------------------------------------------------------------
Lesser(x, y) == IF x < y THEN x ELSE y

(* A provider counter never goes below zero: the entry is deleted instead. *)
Less(counts, p, n) ==
    [q \in Providers |-> IF q = p THEN counts[q] - Lesser(n, counts[q]) ELSE counts[q]]

More(counts, p, n) == [q \in Providers |-> IF q = p THEN counts[q] + n ELSE counts[q]]

(* addModelRegistration, n times. *)
Added(reg, p, n) ==
    IF n = 0 THEN reg
    ELSE IF reg = NoModel
         THEN [count |-> n, providers |-> More([q \in Providers |-> 0], p, n),
               quota |-> [c \in Clients |-> "none"],
               suspended |-> [c \in Clients |-> "none"]]
         ELSE [reg EXCEPT !.count = @ + n, !.providers = More(@, p, n)]

(* Mutant: the marks of every client are cleared. *)
UnmarkedAll(reg, c) ==
    [reg EXCEPT !.quota = [d \in Clients |-> "none"],
                !.suspended = [d \in Clients |-> "none"]]

Unmarked(reg, c) == [reg EXCEPT !.quota[c] = "none", !.suspended[c] = "none"]

(* Mutant: the provider's counter is not decremented. *)
RemovedProviderStays(reg, c, p, n) ==
    IF n = 0 \/ reg = NoModel THEN reg
    ELSE IF reg.count <= n THEN NoModel
    ELSE [Unmarked(reg, c) EXCEPT !.count = @ - n]

(* removeModelRegistration, n times; unregisterClientInternal has the same *)
(* loop body.                                                              *)
Removed(reg, c, p, n) ==
    IF n = 0 \/ reg = NoModel THEN reg
    ELSE IF reg.count <= n THEN NoModel
    ELSE [Unmarked(reg, c) EXCEPT !.count = @ - n, !.providers = Less(@, p, n)]

(* Mutant: copies a shorter list no longer names stay counted. *)
ReconciledOverage(reg, c, oldP, p, old, new) ==
    LET kept     == Lesser(old, new)
        detached == IF p # oldP /\ kept > 0
                    THEN [reg EXCEPT !.providers = Less(@, oldP, kept)] ELSE reg
        shrunk   == Removed(detached, c, oldP, IF new = 0 THEN old ELSE 0)
        grown    == Added(shrunk, p, IF new > old THEN new - old ELSE 0)
        moved    == IF p # oldP THEN [grown EXCEPT !.providers = More(@, p, kept)] ELSE grown
    IN  IF new = 0 THEN grown ELSE Unmarked(moved, c)

(* Mutant: models named before and after stay with the old provider. *)
ReconciledUnmoved(reg, c, oldP, p, old, new) ==
    LET shrunk == Removed(reg, c, oldP, IF old > new THEN old - new ELSE 0)
        grown  == Added(shrunk, p, IF new > old THEN new - old ELSE 0)
    IN  IF new = 0 THEN grown ELSE Unmarked(grown, c)

(* RegisterClient of a known client, for one model named "old" times       *)
(* before and "new" times now: detach what stays from the old provider,    *)
(* remove, add, then clear the marks and attach what stays to the new one. *)
Reconciled(reg, c, oldP, p, old, new) ==
    LET kept     == Lesser(old, new)
        detached == IF p # oldP /\ kept > 0
                    THEN [reg EXCEPT !.providers = Less(@, oldP, kept)] ELSE reg
        shrunk   == Removed(detached, c, oldP, IF old > new THEN old - new ELSE 0)
        grown    == Added(shrunk, p, IF new > old THEN new - old ELSE 0)
        moved    == IF p # oldP THEN [grown EXCEPT !.providers = More(@, p, kept)] ELSE grown
    IN  IF new = 0 THEN grown ELSE Unmarked(moved, c)

-----------------------------------------------------------------------------
Forget(c) ==
    /\ models' = [m \in Models |->
                    Removed(models[m], c, clientProvider[c], clientModels[c][m])]
    /\ clientModels' = [clientModels EXCEPT ![c] = EmptyList]
    /\ clientProvider' = [clientProvider EXCEPT ![c] = NoProvider]

UnregisterClient(c) == Forget(c) /\ UNCHANGED pending

RegisterClient(c) ==
    /\ \E p \in ProviderChoices, list \in Lists :
          LET old == clientModels[c] IN
          IF list = EmptyList THEN Forget(c)
          ELSE /\ models' = [m \in Models |->
                       IF old = EmptyList THEN Added(models[m], p, list[m])
                       ELSE IF old[m] = 0 /\ list[m] = 0 THEN models[m]
                       ELSE Reconciled(models[m], c, clientProvider[c], p, old[m], list[m])]
               /\ clientModels' = [clientModels EXCEPT ![c] = list]
               /\ clientProvider' = [clientProvider EXCEPT ![c] = p]
    /\ UNCHANGED pending

(* ClientSupportsModel: what the conductor asks before it picks a client. *)
ClientSupportsModel(c, m) == clientModels[c][m] > 0

CallsAfter(outcome) ==
    CASE outcome = "success"  -> <<"clear_quota", "resume">>
      [] outcome = "quota"    -> <<"set_quota", "suspend_quota">>
      [] outcome = "rejected" -> <<"suspend_other">>

(* A call of some client has ended: MarkResult has released its lock. *)
Report(r) ==
    /\ pending[r] = <<>>
    /\ \E c \in Clients, m \in Models, outcome \in Outcomes :
          /\ ClientSupportsModel(c, m)
          /\ LET names == CallsAfter(outcome) IN
             pending' = [pending EXCEPT ![r] =
                [i \in 1..Len(names) |-> [call |-> names[i], client |-> c, model |-> m]]]
    /\ UNCHANGED <<models, clientModels, clientProvider>>

(* SetModelQuotaExceeded, ClearModelQuotaExceeded, SuspendClientModel and  *)
(* ResumeClientModel: they look for the model, not for the client.         *)
Marked(reg, call, c) ==
    CASE call = "set_quota"   -> [reg EXCEPT !.quota[c] = "fresh"]
      [] call = "clear_quota" -> [reg EXCEPT !.quota[c] = "none"]
      [] call = "resume"      -> [reg EXCEPT !.suspended[c] = "none"]
      [] call = "suspend_quota" /\ reg.suspended[c] = "none" ->
             [reg EXCEPT !.suspended[c] = "quota"]
      [] call = "suspend_other" /\ reg.suspended[c] = "none" ->
             [reg EXCEPT !.suspended[c] = "other"]
      [] OTHER -> reg

Notify(r) ==
    /\ pending[r] # <<>>
    /\ LET note == Head(pending[r]) IN
       models' = IF models[note.model] = NoModel THEN models
                 ELSE [models EXCEPT ![note.model] = Marked(@, note.call, note.client)]
    /\ pending' = [pending EXCEPT ![r] = Tail(@)]
    /\ UNCHANGED <<clientModels, clientProvider>>

(* Five minutes have passed since a quota mark. *)
MarkAges(c, m) ==
    /\ models[m] # NoModel
    /\ models[m].quota[c] = "fresh"
    /\ models' = [models EXCEPT ![m].quota[c] = "stale"]
    /\ UNCHANGED <<clientModels, clientProvider, pending>>

CleanupExpiredQuotas ==
    /\ models' = [m \in Models |->
          IF models[m] = NoModel THEN NoModel
          ELSE [models[m] EXCEPT !.quota =
                  [c \in Clients |-> IF @[c] = "stale" THEN "none" ELSE @[c]]]]
    /\ UNCHANGED <<clientModels, clientProvider, pending>>

Next ==
    \/ \E c \in Clients : RegisterClient(c) \/ UnregisterClient(c)
    \/ \E r \in Reporters : Report(r) \/ Notify(r)
    \/ \E c \in Clients, m \in Models : MarkAges(c, m)
    \/ CleanupExpiredQuotas

Spec == Init /\ [][Next]_vars

-----------------------------------------------------------------------------
(* The queries. *)
Marks(m, field, values) ==
    IF models[m] = NoModel THEN {}
    ELSE {c \in Clients : models[m][field][c] \in values}

(* GetAvailableModels lists m. *)
Listed(m) ==
    LET expired   == Cardinality(Marks(m, "quota", {"fresh"}))
        cooldown  == Cardinality(Marks(m, "suspended", {"quota"}))
        other     == Cardinality(Marks(m, "suspended", {"other"}))
    IN  /\ models[m] # NoModel
        /\ \/ models[m].count - expired - other > 0
           \/ (expired > 0 \/ cooldown > 0) /\ other = 0

GetModelProviders(m) ==
    IF models[m] = NoModel THEN {} ELSE {p \in Providers : models[m].providers[p] > 0}

AvailableClients(m) ==
    {c \in Clients : /\ ClientSupportsModel(c, m)
                     /\ c \notin Marks(m, "quota", {"fresh"})
                     /\ c \notin Marks(m, "suspended", {"quota", "other"})}

-----------------------------------------------------------------------------
Mentions(m) == [c \in Clients |-> clientModels[c][m]]

(* The counters that many registrations, re-registrations and removals     *)
(* increment and decrement one by one never drift: a model's Count is the  *)
(* number of entries for it in the clients' lists, and the model is known  *)
(* exactly as long as there is one.                                        *)
CountsMatchClients ==
    \A m \in Models :
        SumFunctionOnSet(Mentions(m), Clients)
            = IF models[m] = NoModel THEN 0 ELSE models[m].count

(* The same for the counters per provider that route a request, across     *)
(* clients that change their provider.                                     *)
ProvidersMatchClients ==
    \A m \in Models, p \in Providers :
        SumFunctionOnSet(Mentions(m), {c \in Clients : clientProvider[c] = p})
            = IF models[m] = NoModel THEN 0 ELSE models[m].providers[p]

(* A model the list endpoint offers can be routed, and every provider the  *)
(* router then tries has a client the conductor may pick: three methods    *)
(* that read three different maps agree, as long as those who serve the     *)
(* model named their provider, which the service always does.              *)
ListedIsServed ==
    \A m \in Models :
        /\ (\A c \in Clients : ClientSupportsModel(c, m) => clientProvider[c] # NoProvider)
               => (Listed(m) => GetModelProviders(m) # {})
        /\ \A p \in GetModelProviders(m) : \E c \in Clients :
               clientProvider[c] = p /\ ClientSupportsModel(c, m)

(* Registering or removing one client leaves the quota and suspension marks *)
(* of every other client that keeps the model alone.                       *)
OthersKeepMarks ==
    [][\A c \in Clients, m \in Models :
          /\ ClientSupportsModel(c, m) /\ ClientSupportsModel(c, m)'
          /\ \E d \in Clients \ {c} : clientModels'[d] # clientModels[d]
          => /\ models'[m] # NoModel
             /\ models'[m].quota[c] = models[m].quota[c]
             /\ models'[m].suspended[c] = models[m].suspended[c]]_vars

(* GetAvailableModels' comment: "returns all models that have at least one *)
(* available client".                                                      *)
AvailableIsListed == \A m \in Models : AvailableClients(m) # {} => Listed(m)
=============================================================================
