------------------------------ MODULE BooksProofs -----------------------------
(***************************************************************************)
(* Proofs about Books, for any settings of its registry and its stores:    *)
(* what ModelRegistryProofs shows of a step of the registry holds of every *)
(* step of the books; and the copies the stores keep are what was          *)
(* acknowledged, or newer.                                                 *)
(***************************************************************************)
EXTENDS Books, TLAPS

Counters == INSTANCE ModelRegistryProofs WITH Models <- RegistryModels, NoModel <- NoState

-----------------------------------------------------------------------------
(* The registry whose steps the lemmas are about is the one of the books:   *)
(* one definition after the other is the same in both instances.            *)
LEMMA SameSettings == Counters!SettingsAssumption
BY RegistryAssumption
   DEF Registry!SettingsAssumption, Registry!Registration, Registry!IsFiniteSet,
       Counters!SettingsAssumption, Counters!Registration, Counters!IsFiniteSet

(* The entry a registration leaves of a model that is newly named, ...      *)
LEMMA SameAdded ==
    ASSUME NEW reg, NEW p, NEW n
    PROVE  Registry!Added(reg, p, n) = Counters!Added(reg, p, n)
BY DEF Registry!Added, Registry!More, Counters!Added, Counters!More

(* ... or was named before.                                                 *)
LEMMA SameReconciled ==
    ASSUME NEW reg, NEW c, NEW oldP, NEW p, NEW old, NEW new
    PROVE  Registry!Reconciled(reg, c, oldP, p, old, new)
             = Counters!Reconciled(reg, c, oldP, p, old, new)
<1>1. \A r, q, k : Registry!Added(r, q, k) = Counters!Added(r, q, k)
  BY SameAdded
<1>2. \A counts, q, k : /\ Registry!Less(counts, q, k) = Counters!Less(counts, q, k)
                       /\ Registry!More(counts, q, k) = Counters!More(counts, q, k)
  BY DEF Registry!Less, Registry!More, Registry!Lesser, Counters!Less, Counters!More,
     Counters!Lesser
<1>3. \A r, d : Registry!Unmarked(r, d) = Counters!Unmarked(r, d)
  BY DEF Registry!Unmarked, Counters!Unmarked
<1>4. \A r, d, q, k : Registry!Removed(r, d, q, k) = Counters!Removed(r, d, q, k)
  BY <1>2, <1>3 DEF Registry!Removed, Counters!Removed
<1>5. Registry!Lesser(old, new) = Counters!Lesser(old, new)
  BY DEF Registry!Lesser, Counters!Lesser
<1> QED
  BY <1>1, <1>2, <1>3, <1>4, <1>5 DEF Registry!Reconciled, Counters!Reconciled

(* The lists a client may have.                                             *)
LEMMA SameLists ==
    Registry!Lists = Counters!Lists /\ Registry!EmptyList = Counters!EmptyList
BY DEF Registry!Lists, Registry!EmptyList, Registry!Max,
       Counters!Lists, Counters!EmptyList, Counters!Max

(* Removing a client.                                                       *)
LEMMA SameForget ==
    ASSUME NEW c
    PROVE  /\ Registry!Forget(c) = Counters!Forget(c)
           /\ Registry!UnregisterClient(c) = Counters!UnregisterClient(c)
BY DEF Registry!UnregisterClient, Registry!Forget, Registry!Removed, Registry!Unmarked,
       Registry!Less, Registry!Lesser, Registry!EmptyList,
       Counters!UnregisterClient, Counters!Forget, Counters!Removed, Counters!Unmarked,
       Counters!Less, Counters!Lesser, Counters!EmptyList

(* Registering one.                                                         *)
LEMMA SameRegister ==
    ASSUME NEW c, Registry!RegisterClient(c)
    PROVE  Counters!RegisterClient(c)
<1>1. PICK p \in ProviderChoices, list \in Registry!Lists :
         /\ list = Registry!EmptyList => Registry!Forget(c)
         /\ list # Registry!EmptyList =>
              /\ models' = [m \in RegistryModels |->
                     IF clientModels[c] = Registry!EmptyList THEN Registry!Added(models[m], p, list[m])
                     ELSE IF clientModels[c][m] = 0 /\ list[m] = 0 THEN models[m]
                     ELSE Registry!Reconciled(models[m], c, clientProvider[c], p,
                                              clientModels[c][m], list[m])]
              /\ clientModels' = [clientModels EXCEPT ![c] = list]
              /\ clientProvider' = [clientProvider EXCEPT ![c] = p]
  BY DEF Registry!RegisterClient
<1>2. UNCHANGED pending
  BY DEF Registry!RegisterClient
<1>3. CASE list = Registry!EmptyList
  BY <1>1, <1>2, <1>3, SameForget, SameLists DEF Counters!RegisterClient
<1>4. CASE list # Registry!EmptyList
  <2>1. models' = [m \in RegistryModels |->
                     IF clientModels[c] = Counters!EmptyList THEN Counters!Added(models[m], p, list[m])
                     ELSE IF clientModels[c][m] = 0 /\ list[m] = 0 THEN models[m]
                     ELSE Counters!Reconciled(models[m], c, clientProvider[c], p,
                                              clientModels[c][m], list[m])]
    BY <1>1, <1>4, SameAdded, SameReconciled, SameLists
  <2>2. list \in Counters!Lists /\ list # Counters!EmptyList
    BY <1>4, SameLists
  <2> QED BY <1>1, <1>2, <1>4, <2>1, <2>2, Zenon DEF Counters!RegisterClient
<1> QED BY <1>3, <1>4

(* The other steps.                                                         *)
LEMMA SameOthers ==
    /\ \A r : Registry!Report(r) = Counters!Report(r)
    /\ \A r : Registry!Notify(r) = Counters!Notify(r)
    /\ \A c, m : Registry!MarkAges(c, m) = Counters!MarkAges(c, m)
    /\ Registry!CleanupExpiredQuotas = Counters!CleanupExpiredQuotas
<1>1. ASSUME NEW r PROVE Registry!Report(r) = Counters!Report(r)
  BY DEF Registry!Report, Registry!ClientSupportsModel, Registry!CallsAfter,
         Counters!Report, Counters!ClientSupportsModel, Counters!CallsAfter
<1>2. ASSUME NEW r PROVE Registry!Notify(r) = Counters!Notify(r)
  BY DEF Registry!Notify, Registry!Marked, Counters!Notify, Counters!Marked
<1>3. ASSUME NEW c, NEW m PROVE Registry!MarkAges(c, m) = Counters!MarkAges(c, m)
  BY DEF Registry!MarkAges, Counters!MarkAges
<1>4. Registry!CleanupExpiredQuotas = Counters!CleanupExpiredQuotas
  BY DEF Registry!CleanupExpiredQuotas, Counters!CleanupExpiredQuotas
<1> QED BY <1>1, <1>2, <1>3, <1>4, Zenon

(* A step of the books is one of the registry or leaves it alone.           *)
LEMMA BooksStep ==
    ASSUME [BooksNext]_<<part, vars, registry, stores>>
    PROVE  [Counters!Next]_(Counters!vars)
<1>1. CASE RegistryPart
  <2>1. Registry!Next
    BY <1>1 DEF RegistryPart
  <2>2. ASSUME NEW c \in Clients, Registry!RegisterClient(c) \/ Registry!UnregisterClient(c)
        PROVE  Counters!RegisterClient(c) \/ Counters!UnregisterClient(c)
    BY <2>2, SameRegister, SameForget
  <2>3. Counters!Next
    BY <2>1, <2>2, SameOthers, Zenon DEF Registry!Next, Counters!Next
  <2> QED BY <2>3
<1>2. CASE UNCHANGED registry
  BY <1>2 DEF registry, Counters!vars
<1>3. RegistryPart \/ UNCHANGED registry
  BY DEF BooksNext, ConductorPart, StoresPart, StoresAtRest
<1> QED BY <1>1, <1>2, <1>3

-----------------------------------------------------------------------------
(* The inductive invariant of the registry's proofs is one of the books.    *)
LEMMA RegistryInv == BooksSpec => []Counters!RInv
<1>1. BooksInit => Counters!RInv
  <2>1. BooksInit => Counters!Init
    BY SameLists DEF BooksInit, Registry!Init, Counters!Init
  <2> QED BY <2>1, SameSettings, Counters!InvInit
<1>2. Counters!RInv /\ [BooksNext]_<<part, vars, registry, stores>> => Counters!RInv'
  BY BooksStep, SameSettings, Counters!InvStep
<1> QED BY <1>1, <1>2, PTL DEF BooksSpec

(* The registry's reference counters never drift from the clients' lists,   *)
(* in all and per provider, and what it lists can be routed, whatever the   *)
(* registry's clients, models, providers and lists and whatever else of the *)
(* books moves (RegisterClient, model_registry.go 211).                     *)
THEOREM BooksMatch == BooksSpec => []BooksMatchClients
<1>1. Counters!RInv => Counters!TypeOK /\ Counters!CountsMatchClients
                       /\ Counters!ProvidersMatchClients /\ Counters!ListedIsServed
  BY SameSettings, Counters!MatchMeans, Counters!MatchServes DEF Counters!RInv
<1>2. Counters!TypeOK => Registry!TypeOK
  BY SameLists
     DEF Registry!TypeOK, Registry!Registration, Registry!Note, Registry!Calls,
         Counters!TypeOK, Counters!Registration, Counters!Note, Counters!Calls
<1>3. Counters!CountsMatchClients => Registry!CountsMatchClients
  BY DEF Registry!CountsMatchClients, Registry!Mentions, Registry!SumFunctionOnSet,
         Registry!FoldFunctionOnSet, Registry!MapThenFoldSet,
         Counters!CountsMatchClients, Counters!Mentions, Counters!SumFunctionOnSet,
         Counters!FoldFunctionOnSet, Counters!MapThenFoldSet
<1>4. Counters!ProvidersMatchClients => Registry!ProvidersMatchClients
  BY DEF Registry!ProvidersMatchClients, Registry!Mentions, Registry!SumFunctionOnSet,
         Registry!FoldFunctionOnSet, Registry!MapThenFoldSet,
         Counters!ProvidersMatchClients, Counters!Mentions, Counters!SumFunctionOnSet,
         Counters!FoldFunctionOnSet, Counters!MapThenFoldSet
<1>5. Counters!ListedIsServed => Registry!ListedIsServed
  BY DEF Registry!ListedIsServed, Registry!ClientSupportsModel, Registry!Listed, Registry!Marks,
         Registry!GetModelProviders, Registry!Cardinality, Registry!IsFiniteSet,
         Counters!ListedIsServed, Counters!ClientSupportsModel, Counters!Listed, Counters!Marks,
         Counters!GetModelProviders, Counters!Cardinality, Counters!IsFiniteSet
<1>6. Counters!RInv => BooksMatchClients
  BY <1>1, <1>2, <1>3, <1>4, <1>5 DEF BooksMatchClients
<1> QED BY <1>6, RegistryInv, PTL

(* Registering or removing a client leaves the quota and suspension marks   *)
(* of every other client that keeps the model (the mark handling of         *)
(* removeModelRegistration, model_registry.go 467).                         *)
THEOREM OtherMarksKept == BooksSpec => OthersKeepMarks
<1> DEFINE Kept == \A c \in Clients, m \in RegistryModels :
          /\ Counters!ClientSupportsModel(c, m) /\ Counters!ClientSupportsModel(c, m)'
          /\ \E d \in Clients \ {c} : clientModels'[d] # clientModels[d]
          => /\ models'[m] # NoState
             /\ models'[m].quota[c] = models[m].quota[c]
             /\ models'[m].suspended[c] = models[m].suspended[c]
<1>1. Counters!RInv /\ [BooksNext]_<<part, vars, registry, stores>> => Kept
  BY BooksStep, SameSettings, Counters!MarksStay
<1>2. Kept => [\A c \in Clients, m \in RegistryModels :
          /\ Registry!ClientSupportsModel(c, m) /\ Registry!ClientSupportsModel(c, m)'
          /\ \E d \in Clients \ {c} : clientModels'[d] # clientModels[d]
          => /\ models'[m] # NoState
             /\ models'[m].quota[c] = models[m].quota[c]
             /\ models'[m].suspended[c] = models[m].suspended[c]]_(Registry!vars)
  BY DEF Registry!ClientSupportsModel, Counters!ClientSupportsModel
<1> QED BY <1>1, <1>2, RegistryInv, PTL DEF BooksSpec, OthersKeepMarks, Registry!OthersKeepMarks
-----------------------------------------------------------------------------

(* The copy of data in a store of kind b, and a file that agrees with it.   *)
CopyIn(b, f, data) ==
    CASE b = "postgres" -> Stores!PostgresCopy(f, data)
      [] b = "object" -> Stores!ObjectCopy(data)
      [] b = "git" -> data

Agree(b, f, rem, hd, sp) == rem = CopyIn(b, f, sp) /\ (b = "git" => hd = sp)

(* Where a call is, and whether it is under the lock.                       *)
Doing(c, step) == c.steps # <<>> /\ Head(c.steps) = step
Inside(c) == c.steps # <<>> /\ Head(c.steps) \notin {"open", "lock"}

(* What a call that saves or deletes asks for may be in the copy, and a     *)
(* call that is about to copy has what may be there, what a copy is, and,   *)
(* unless the file has changed behind it, what the file is.                 *)
CallFine(b, c, allow, hd, sp, clean) ==
    /\ c.steps # <<>> /\ c.kind \in {"save", "delete"} => CopyIn(b, c.file, c.content) \in allow
    /\ Doing(c, "open") \/ Doing(c, "lock") \/ Doing(c, "remove")
          => (c.kind = "delete" => c.content = Stores!Absent)
    /\ Doing(c, "copy") =>
          /\ c.content \in allow
          /\ CopyIn(b, c.file, c.content) = c.content
          /\ b = "git" => hd = c.content
          /\ clean => c.content = CopyIn(b, c.file, sp)

(* A copy is one that may be there, and so is what git would push.          *)
CopyFine(b, f, rem, hd, sp, allow) ==
    /\ rem \in allow /\ CopyIn(b, f, rem) = rem
    /\ b = "git" => hd \in allow /\ sp \in allow

(* The inductive invariant: a call has the rest of its steps before it,     *)
(* only one call is under the lock, and a file that is not dirty agrees     *)
(* with its copy or is about to be copied.                                  *)
WayInv ==
    \A k \in Requests : tCall[k].steps \in Stores!Suffixes(Stores!Steps[tBackend][tCall[k].kind])
LockInv == \A k \in Requests : Inside(tCall[k]) => tLock = k
CallInv ==
    \A k \in Requests :
        CallFine(tBackend, tCall[k], tAllowed[tCall[k].file], tHead[tCall[k].file],
                 tSpool[tCall[k].file], tCall[k].file \notin tDirty)
CopyInv == \A f \in Stores!Files :
    CopyFine(tBackend, f, tRemote[f], tHead[f], tSpool[f], tAllowed[f])
CleanInv ==
    \A f \in Stores!Files \ tDirty :
        \/ Agree(tBackend, f, tRemote[f], tHead[f], tSpool[f])
        \/ \E k \in Requests : Doing(tCall[k], "copy") /\ tCall[k].file = f

StoresInv == Stores!TypeOK /\ WayInv /\ LockInv /\ CallInv /\ CopyInv /\ CleanInv

-----------------------------------------------------------------------------
(* What copies are.                                                         *)
LEMMA CopyFacts ==
    ASSUME Stores!BoundsAssumption, NEW b \in StoreBackends, NEW f \in Stores!Files
    PROVE  /\ \A d \in Stores!Data : /\ CopyIn(b, f, d) \in Stores!Data
                                     /\ CopyIn(b, f, CopyIn(b, f, d)) = CopyIn(b, f, d)
                                     /\ b = "git" => CopyIn(b, f, d) = d
           /\ CopyIn(b, f, Stores!Absent) = Stores!Absent
<1>1. b \in {"postgres", "object", "git"}
  BY DEF Stores!BoundsAssumption
<1> QED BY <1>1
       DEF CopyIn, Stores!PostgresCopy, Stores!ObjectCopy, Stores!Data, Stores!Absent,
           Stores!Empty

LEMMA CopyOfIs ==
    ASSUME NEW f, NEW d PROVE Stores!CopyOf(f, d) = CopyIn(tBackend, f, d)
BY DEF Stores!CopyOf, CopyIn

(* The steps of the calls of each store: which comes first, and which comes *)
(* after which.                                                             *)
Follows(b, kind, t) ==
    /\ t \in Seq(Stores!StepNames) /\ Len(t) > 0 /\ t[1] \in {"open", "lock"}
    /\ \A l \in 1..Len(t) :
          /\ t[l] \in {"open", "lock", "write", "remove", "read", "commit", "copy"}
          /\ t[l] = "open" => l < Len(t) /\ t[l + 1] = "lock"
          /\ t[l] = "lock" => l < Len(t) /\ t[l + 1] \in {"write", "remove", "read", "commit"}
          /\ t[l] = "write" => kind = "save" /\ l < Len(t) /\ t[l + 1] \in {"read", "commit"}
          /\ t[l] = "remove" => /\ kind = "delete" /\ l < Len(t)
                                /\ t[l + 1] = (IF b = "git" THEN "commit" ELSE "copy")
          /\ t[l] = "read" => kind # "delete" /\ b # "git" /\ l < Len(t) /\ t[l + 1] = "copy"
          /\ t[l] = "commit" => b = "git" /\ l < Len(t) /\ t[l + 1] = "copy"

LEMMA StepsFollow ==
    ASSUME NEW b \in {"postgres", "object", "git"}, NEW kind \in Stores!CallKinds
    PROVE  Follows(b, kind, Stores!Steps[b][kind])
<1>1. CASE b = "postgres"
  <2>1. Follows(b, "save", Stores!PostgresSave)
    <3>1. Stores!PostgresSave \in Seq(Stores!StepNames) /\ Len(Stores!PostgresSave) = 4
      BY DEF Stores!PostgresSave, Stores!StepNames
    <3>2. /\ Stores!PostgresSave[1] = "lock" /\ Stores!PostgresSave[2] = "write"
          /\ Stores!PostgresSave[3] = "read" /\ Stores!PostgresSave[4] = "copy"
      BY DEF Stores!PostgresSave
    <3>3. \A l \in 1..4 : l \in {1, 2, 3, 4}
      OBVIOUS
    <3> QED BY <1>1, <3>1, <3>2, <3>3 DEF Follows, Stores!StepNames
  <2>2. Follows(b, "delete", Stores!PostgresDelete)
    <3>1. Stores!PostgresDelete \in Seq(Stores!StepNames) /\ Len(Stores!PostgresDelete) = 3
      BY DEF Stores!PostgresDelete, Stores!StepNames
    <3>2. /\ Stores!PostgresDelete[1] = "lock" /\ Stores!PostgresDelete[2] = "remove"
          /\ Stores!PostgresDelete[3] = "copy"
      BY DEF Stores!PostgresDelete
    <3>3. \A l \in 1..3 : l \in {1, 2, 3}
      OBVIOUS
    <3> QED BY <1>1, <3>1, <3>2, <3>3 DEF Follows, Stores!StepNames
  <2>3. Follows(b, "auths", Stores!PostgresPersistAuth)
    <3>1. Stores!PostgresPersistAuth \in Seq(Stores!StepNames)
          /\ Len(Stores!PostgresPersistAuth) = 3
      BY DEF Stores!PostgresPersistAuth, Stores!StepNames
    <3>2. /\ Stores!PostgresPersistAuth[1] = "lock" /\ Stores!PostgresPersistAuth[2] = "read"
          /\ Stores!PostgresPersistAuth[3] = "copy"
      BY DEF Stores!PostgresPersistAuth
    <3>3. \A l \in 1..3 : l \in {1, 2, 3}
      OBVIOUS
    <3> QED BY <1>1, <3>1, <3>2, <3>3 DEF Follows, Stores!StepNames
  <2>4. Follows(b, "config", Stores!PostgresPersistConfig)
    <3>1. Stores!PostgresPersistConfig \in Seq(Stores!StepNames)
          /\ Len(Stores!PostgresPersistConfig) = 3
      BY DEF Stores!PostgresPersistConfig, Stores!StepNames
    <3>2. /\ Stores!PostgresPersistConfig[1] = "lock" /\ Stores!PostgresPersistConfig[2] = "read"
          /\ Stores!PostgresPersistConfig[3] = "copy"
      BY DEF Stores!PostgresPersistConfig
    <3>3. \A l \in 1..3 : l \in {1, 2, 3}
      OBVIOUS
    <3> QED BY <1>1, <3>1, <3>2, <3>3 DEF Follows, Stores!StepNames
  <2> QED BY <1>1, <2>1, <2>2, <2>3, <2>4 DEF Stores!Steps, Stores!CallKinds
<1>2. CASE b = "object"
  <2>1. Follows(b, "save", Stores!ObjectSave)
    <3>1. Stores!ObjectSave \in Seq(Stores!StepNames) /\ Len(Stores!ObjectSave) = 4
      BY DEF Stores!ObjectSave, Stores!StepNames
    <3>2. /\ Stores!ObjectSave[1] = "lock" /\ Stores!ObjectSave[2] = "write"
          /\ Stores!ObjectSave[3] = "read" /\ Stores!ObjectSave[4] = "copy"
      BY DEF Stores!ObjectSave
    <3>3. \A l \in 1..4 : l \in {1, 2, 3, 4}
      OBVIOUS
    <3> QED BY <1>2, <3>1, <3>2, <3>3 DEF Follows, Stores!StepNames
  <2>2. Follows(b, "delete", Stores!ObjectDelete)
    <3>1. Stores!ObjectDelete \in Seq(Stores!StepNames) /\ Len(Stores!ObjectDelete) = 3
      BY DEF Stores!ObjectDelete, Stores!StepNames
    <3>2. Stores!ObjectDelete[1] = "lock" /\ Stores!ObjectDelete[2] = "remove"
          /\ Stores!ObjectDelete[3] = "copy"
      BY DEF Stores!ObjectDelete
    <3>3. \A l \in 1..3 : l \in {1, 2, 3}
      OBVIOUS
    <3> QED BY <1>2, <3>1, <3>2, <3>3 DEF Follows, Stores!StepNames
  <2>3. Follows(b, "auths", Stores!ObjectPersistAuth)
    <3>1. Stores!ObjectPersistAuth \in Seq(Stores!StepNames) /\ Len(Stores!ObjectPersistAuth) = 3
      BY DEF Stores!ObjectPersistAuth, Stores!StepNames
    <3>2. /\ Stores!ObjectPersistAuth[1] = "lock" /\ Stores!ObjectPersistAuth[2] = "read"
          /\ Stores!ObjectPersistAuth[3] = "copy"
      BY DEF Stores!ObjectPersistAuth
    <3>3. \A l \in 1..3 : l \in {1, 2, 3}
      OBVIOUS
    <3> QED BY <1>2, <3>1, <3>2, <3>3 DEF Follows, Stores!StepNames
  <2>4. Follows(b, "config", Stores!ObjectPersistConfig)
    <3>1. Stores!ObjectPersistConfig \in Seq(Stores!StepNames)
          /\ Len(Stores!ObjectPersistConfig) = 3
      BY DEF Stores!ObjectPersistConfig, Stores!StepNames
    <3>2. /\ Stores!ObjectPersistConfig[1] = "lock" /\ Stores!ObjectPersistConfig[2] = "read"
          /\ Stores!ObjectPersistConfig[3] = "copy"
      BY DEF Stores!ObjectPersistConfig
    <3>3. \A l \in 1..3 : l \in {1, 2, 3}
      OBVIOUS
    <3> QED BY <1>2, <3>1, <3>2, <3>3 DEF Follows, Stores!StepNames
  <2> QED BY <1>2, <2>1, <2>2, <2>3, <2>4 DEF Stores!Steps, Stores!CallKinds
<1>3. CASE b = "git"
  <2>1. Follows(b, "save", Stores!GitSave)
    <3>1. Stores!GitSave \in Seq(Stores!StepNames) /\ Len(Stores!GitSave) = 5
      BY DEF Stores!GitSave, Stores!StepNames
    <3>2. /\ Stores!GitSave[1] = "open" /\ Stores!GitSave[2] = "lock"
          /\ Stores!GitSave[3] = "write"
          /\ Stores!GitSave[4] = "commit" /\ Stores!GitSave[5] = "copy"
      BY DEF Stores!GitSave
    <3>3. \A l \in 1..5 : l \in {1, 2, 3, 4, 5}
      OBVIOUS
    <3> QED BY <1>3, <3>1, <3>2, <3>3 DEF Follows, Stores!StepNames
  <2>2. Follows(b, "delete", Stores!GitDelete)
    <3>1. Stores!GitDelete \in Seq(Stores!StepNames) /\ Len(Stores!GitDelete) = 5
      BY DEF Stores!GitDelete, Stores!StepNames
    <3>2. /\ Stores!GitDelete[1] = "open" /\ Stores!GitDelete[2] = "lock"
          /\ Stores!GitDelete[3] = "remove"
          /\ Stores!GitDelete[4] = "commit" /\ Stores!GitDelete[5] = "copy"
      BY DEF Stores!GitDelete
    <3>3. \A l \in 1..5 : l \in {1, 2, 3, 4, 5}
      OBVIOUS
    <3> QED BY <1>3, <3>1, <3>2, <3>3 DEF Follows, Stores!StepNames
  <2>3. Follows(b, "auths", Stores!GitPersistAuth)
    <3>1. Stores!GitPersistAuth \in Seq(Stores!StepNames) /\ Len(Stores!GitPersistAuth) = 4
      BY DEF Stores!GitPersistAuth, Stores!StepNames
    <3>2. /\ Stores!GitPersistAuth[1] = "open" /\ Stores!GitPersistAuth[2] = "lock"
          /\ Stores!GitPersistAuth[3] = "commit" /\ Stores!GitPersistAuth[4] = "copy"
      BY DEF Stores!GitPersistAuth
    <3>3. \A l \in 1..4 : l \in {1, 2, 3, 4}
      OBVIOUS
    <3> QED BY <1>3, <3>1, <3>2, <3>3 DEF Follows, Stores!StepNames
  <2>4. Follows(b, "config", Stores!GitPersistConfig)
    <3>1. Stores!GitPersistConfig \in Seq(Stores!StepNames) /\ Len(Stores!GitPersistConfig) = 4
      BY DEF Stores!GitPersistConfig, Stores!StepNames
    <3>2. /\ Stores!GitPersistConfig[1] = "open" /\ Stores!GitPersistConfig[2] = "lock"
          /\ Stores!GitPersistConfig[3] = "commit" /\ Stores!GitPersistConfig[4] = "copy"
      BY DEF Stores!GitPersistConfig
    <3>3. \A l \in 1..4 : l \in {1, 2, 3, 4}
      OBVIOUS
    <3> QED BY <1>3, <3>1, <3>2, <3>3 DEF Follows, Stores!StepNames
  <2> QED BY <1>3, <2>1, <2>2, <2>3, <2>4 DEF Stores!Steps, Stores!CallKinds
<1> QED BY <1>1, <1>2, <1>3

(* A sequence is empty when its length is zero. *)
LEMMA Emptiness ==
    ASSUME NEW S, NEW s \in Seq(S)
    PROVE  /\ s = <<>> <=> Len(s) = 0
           /\ Len(s) > 0 => Head(s) = s[1]
OBVIOUS

(* The rest of a sequence of steps.                                         *)
LEMMA SuffixSteps ==
    ASSUME NEW t \in Seq(Stores!StepNames), Len(t) > 0
    PROVE  /\ t \in Stores!Suffixes(t) /\ <<>> \in Stores!Suffixes(t) /\ t # <<>>
           /\ Head(t) = t[1]
           /\ \A s \in Stores!Suffixes(t) : s \in Seq(Stores!StepNames) /\
                 (s # <<>> =>
                    /\ Tail(s) \in Stores!Suffixes(t)
                    /\ \E l \in 1..Len(t) :
                          /\ Head(s) = t[l]
                          /\ l < Len(t) => Tail(s) # <<>> /\ Head(Tail(s)) = t[l + 1])
<1>1. t = SubSeq(t, 1, Len(t))
  OBVIOUS
<1>2. ASSUME NEW l \in 1..Len(t), NEW s, s = SubSeq(t, l, Len(t))
      PROVE  /\ s \in Seq(Stores!StepNames) /\ s # <<>> /\ Head(s) = t[l]
             /\ l < Len(t) => /\ Tail(s) = SubSeq(t, l + 1, Len(t)) /\ Tail(s) # <<>>
                              /\ Head(Tail(s)) = t[l + 1]
             /\ l = Len(t) => Tail(s) = <<>>
  <2>1. s \in Seq(Stores!StepNames) /\ Len(s) = Len(t) - l + 1
        /\ \A i \in 1..Len(s) : s[i] = t[l + i - 1]
    BY <1>2
  <2>2. s # <<>> /\ Head(s) = t[l]
    BY <2>1
  <2>3. /\ Tail(s) \in Seq(Stores!StepNames) /\ Len(Tail(s)) = Len(s) - 1
        /\ \A i \in 1..Len(Tail(s)) : Tail(s)[i] = s[i + 1]
    BY <2>1, <2>2
  <2>4. ASSUME l < Len(t) PROVE Tail(s) # <<>> /\ Head(Tail(s)) = t[l + 1]
    <3>1. Len(Tail(s)) > 0 /\ Tail(s)[1] = s[2] /\ s[2] = t[l + 1]
      BY <2>1, <2>3, <2>4
    <3> DEFINE r == Tail(s)
    <3>2. r \in Seq(Stores!StepNames) /\ Len(r) > 0 /\ r[1] = t[l + 1]
      BY <2>3, <3>1
    <3> HIDE DEF r
    <3>3. r # <<>> /\ Head(r) = t[l + 1]
      BY <3>2, Emptiness
    <3> QED BY <3>3 DEF r
  <2>5. ASSUME l < Len(t) PROVE Tail(s) = SubSeq(t, l + 1, Len(t))
    <3> DEFINE r == SubSeq(t, l + 1, Len(t))
    <3>1. r \in Seq(Stores!StepNames) /\ Len(r) = Len(t) - l
          /\ \A i \in 1..Len(r) : r[i] = t[l + i]
      BY <2>5
    <3>2. \A i \in 1..Len(t) - l : Tail(s)[i] = t[l + i]
      BY <2>1, <2>3
    <3> HIDE DEF r
    <3> QED BY <2>1, <2>3, <3>1, <3>2
  <2>6. ASSUME l = Len(t) PROVE Tail(s) = <<>>
    <3>1. Tail(s) \in Seq(Stores!StepNames) /\ Len(Tail(s)) = 0
      BY <2>1, <2>3, <2>6
    <3> QED BY <3>1, Emptiness
  <2> QED BY <2>1, <2>2, <2>4, <2>5, <2>6
<1>3. ASSUME NEW s \in Stores!Suffixes(t), s # <<>>
      PROVE  /\ s \in Seq(Stores!StepNames) /\ Tail(s) \in Stores!Suffixes(t)
             /\ \E l \in 1..Len(t) :
                   /\ Head(s) = t[l]
                   /\ l < Len(t) => Tail(s) # <<>> /\ Head(Tail(s)) = t[l + 1]
  <2>1. PICK l \in 1..Len(t) : s = SubSeq(t, l, Len(t))
    BY <1>3 DEF Stores!Suffixes
  <2>2. l < Len(t) => l + 1 \in 1..Len(t)
    OBVIOUS
  <2>3. /\ s \in Seq(Stores!StepNames) /\ Head(s) = t[l]
        /\ l < Len(t) => /\ Tail(s) = SubSeq(t, l + 1, Len(t)) /\ Tail(s) # <<>>
                         /\ Head(Tail(s)) = t[l + 1]
        /\ l = Len(t) => Tail(s) = <<>>
    BY <1>2, <2>1
  <2>4. Tail(s) \in Stores!Suffixes(t)
    <3>1. <<>> \in Stores!Suffixes(t)
          /\ \A m \in 1..Len(t) : SubSeq(t, m, Len(t)) \in Stores!Suffixes(t)
      BY DEF Stores!Suffixes
    <3>2. l < Len(t) \/ l = Len(t)
      OBVIOUS
    <3> QED BY <2>2, <2>3, <3>1, <3>2
  <2> QED BY <2>3, <2>4
<1>4. 1 \in 1..Len(t) /\ t \in Stores!Suffixes(t) /\ <<>> \in Stores!Suffixes(t)
  BY <1>1 DEF Stores!Suffixes
<1>5. t # <<>> /\ Head(t) = t[1]
  BY Emptiness
<1>6. <<>> \in Seq(Stores!StepNames)
  OBVIOUS
<1> QED BY <1>3, <1>4, <1>5, <1>6

CallRec == [steps : Seq(Stores!StepNames), kind : Stores!CallKinds, file : Stores!Files,
    content : Stores!Data]

(* Where a call goes from where it is. *)
LEMMA NextStep ==
    ASSUME Stores!BoundsAssumption, Stores!TypeOK, WayInv, NEW k \in Requests,
           tCall[k].steps # <<>>
    PROVE  /\ Tail(tCall[k].steps) \in Stores!Suffixes(Stores!Steps[tBackend][tCall[k].kind])
           /\ Tail(tCall[k].steps) \in Seq(Stores!StepNames)
           /\ LET next == Tail(tCall[k].steps) IN
              /\ Stores!At(k, "open") => next # <<>> /\ Head(next) = "lock"
              /\ Stores!At(k, "lock") => next # <<>>
                     /\ Head(next) \in {"write", "remove", "read", "commit"}
              /\ Stores!At(k, "write") => /\ tCall[k].kind = "save" /\ next # <<>>
                                          /\ Head(next) \in {"read", "commit"}
              /\ Stores!At(k, "remove") => /\ tCall[k].kind = "delete" /\ next # <<>>
                                           /\ Head(next)
                                                = IF tBackend = "git" THEN "commit" ELSE "copy"
              /\ Stores!At(k, "read") => /\ tCall[k].kind # "delete" /\ tBackend # "git"
                                         /\ next # <<>> /\ Head(next) = "copy"
              /\ Stores!At(k, "commit") => tBackend = "git" /\ next # <<>> /\ Head(next) = "copy"
<1> DEFINE t == Stores!Steps[tBackend][tCall[k].kind]
           next == Tail(tCall[k].steps)
<1>1. tBackend \in {"postgres", "object", "git"} /\ tCall[k].kind \in Stores!CallKinds
  BY DEF Stores!TypeOK, Stores!BoundsAssumption
<1>2. Follows(tBackend, tCall[k].kind, t)
  BY <1>1, StepsFollow
<1>3. t \in Seq(Stores!StepNames) /\ Len(t) > 0
  BY <1>2 DEF Follows
<1>4. tCall[k].steps \in Stores!Suffixes(t)
  BY DEF WayInv
<1> HIDE DEF t
<1>5. /\ next \in Stores!Suffixes(t)
      /\ \E l \in 1..Len(t) : /\ Head(tCall[k].steps) = t[l]
                              /\ l < Len(t) => next # <<>> /\ Head(next) = t[l + 1]
  BY <1>3, <1>4, SuffixSteps
<1>6. next \in Seq(Stores!StepNames)
  BY <1>3, <1>5, SuffixSteps
<1>7. PICK l \in 1..Len(t) : /\ Head(tCall[k].steps) = t[l]
                             /\ l < Len(t) => next # <<>> /\ Head(next) = t[l + 1]
  BY <1>5
<1>8. Stores!At(k, "open") => next # <<>> /\ Head(next) = "lock"
  BY <1>2, <1>7 DEF Follows, Stores!At
<1>9. Stores!At(k, "lock") => next # <<>> /\ Head(next) \in {"write", "remove", "read", "commit"}
  BY <1>2, <1>7 DEF Follows, Stores!At
<1>10. Stores!At(k, "write") => tCall[k].kind = "save" /\ next # <<>>
           /\ Head(next) \in {"read", "commit"}
  BY <1>2, <1>7 DEF Follows, Stores!At
<1>11. Stores!At(k, "remove") => /\ tCall[k].kind = "delete" /\ next # <<>>
                                 /\ Head(next) = IF tBackend = "git" THEN "commit" ELSE "copy"
  BY <1>2, <1>7 DEF Follows, Stores!At
<1>12. Stores!At(k, "read") => /\ tCall[k].kind # "delete" /\ tBackend # "git" /\ next # <<>>
                               /\ Head(next) = "copy"
  BY <1>2, <1>7 DEF Follows, Stores!At
<1>13. Stores!At(k, "commit") => tBackend = "git" /\ next # <<>> /\ Head(next) = "copy"
  BY <1>2, <1>7 DEF Follows, Stores!At
<1> QED BY <1>5, <1>6, <1>8, <1>9, <1>10, <1>11, <1>12, <1>13 DEF t

(* The first step of a call. *)
LEMMA FirstStep ==
    ASSUME Stores!BoundsAssumption, Stores!TypeOK, NEW kind \in Stores!CallKinds
    PROVE  LET t == Stores!Steps[tBackend][kind] IN
           /\ t \in Seq(Stores!StepNames) /\ t \in Stores!Suffixes(t) /\ t # <<>>
           /\ Head(t) \in {"open", "lock"}
           /\ <<>> \in Stores!Suffixes(t)
<1> DEFINE t == Stores!Steps[tBackend][kind]
<1>1. tBackend \in {"postgres", "object", "git"}
  BY DEF Stores!TypeOK, Stores!BoundsAssumption
<1>2. t \in Seq(Stores!StepNames) /\ Len(t) > 0 /\ t[1] \in {"open", "lock"}
  BY <1>1, StepsFollow DEF Follows
<1> HIDE DEF t
<1>3. t \in Stores!Suffixes(t) /\ <<>> \in Stores!Suffixes(t) /\ t # <<>> /\ Head(t) = t[1]
  BY <1>2, SuffixSteps
<1>4. /\ t \in Seq(Stores!StepNames) /\ t \in Stores!Suffixes(t) /\ t # <<>>
      /\ Head(t) \in {"open", "lock"}
      /\ <<>> \in Stores!Suffixes(t)
  BY <1>2, <1>3
<1> QED BY <1>4 DEF t

(* A step of one call keeps the invariant when it keeps what is said of     *)
(* that call, of the others, and of the files.                              *)
FineThen(c) ==
    CallFine(tBackend, c, tAllowed'[c.file], tHead'[c.file], tSpool'[c.file],
        c.file \notin tDirty')

(* What is kept of the files has its types. *)
FilesTyped ==
    /\ tSpool \in [Stores!Files -> Stores!Data] /\ tHead \in [Stores!Files -> Stores!Data]
    /\ tRemote \in [Stores!Files -> Stores!Data]
    /\ tDirty \subseteq Stores!Files /\ tAllowed \in [Stores!Files -> SUBSET Stores!Data]

LEMMA StepKeeps ==
    ASSUME Stores!BoundsAssumption, StoresInv, NEW k \in Requests, NEW c \in CallRec,
           c.steps \in Stores!Suffixes(Stores!Steps[tBackend][c.kind]),
               tCall' = [tCall EXCEPT ![k] = c],
           UNCHANGED tBackend,
           tCounts' \in [calls : 0..MaxStoreCalls, writes : 0..MaxStoreWrites,
               restarts : 0..MaxStoreRestarts],
           FilesTyped',
           tLock' \in {tLock, k, NoState}, tLock' = tLock \/ tLock \in {k, NoState},
           Inside(c) => tLock' = k,
           FineThen(c), \A j \in Requests \ {k} : FineThen(tCall[j]),
           CopyInv', CleanInv'
    PROVE  StoresInv'
<1>1. tCall \in [Requests -> CallRec] /\ tLock \in Requests \cup {NoState}
  BY DEF StoresInv, Stores!TypeOK, CallRec
<1>2. tCall'[k] = c /\ (\A j \in Requests \ {k} : tCall'[j] = tCall[j])
          /\ tCall' \in [Requests -> CallRec]
  BY <1>1
<1>3. Stores!TypeOK' /\ WayInv'
  <2>1. WayInv'
    BY <1>2 DEF StoresInv, WayInv
  <2>2. tLock' \in Requests \cup {NoState}
    BY <1>1
  <2> QED BY <1>2, <2>1, <2>2 DEF StoresInv, Stores!TypeOK, CallRec, FilesTyped
<1>4. LockInv'
  <2> SUFFICES ASSUME NEW j \in Requests, Inside(tCall'[j]) PROVE tLock' = j
    BY DEF LockInv
  <2>1. CASE j = k
    BY <1>2, <2>1
  <2>2. CASE j # k
    <3>1. tLock = j
      BY <1>2, <2>2 DEF StoresInv, LockInv
    <3> QED BY <2>2, <3>1 DEF Stores!BoundsAssumption
  <2> QED BY <2>1, <2>2
<1>5. CallInv'
  <2> SUFFICES ASSUME NEW j \in Requests
               PROVE  CallFine(tBackend', tCall'[j], tAllowed'[tCall'[j].file],
                          tHead'[tCall'[j].file],
                               tSpool'[tCall'[j].file], tCall'[j].file \notin tDirty')
    BY DEF CallInv
  <2> QED BY <1>2 DEF FineThen
<1> QED BY <1>3, <1>4, <1>5 DEF StoresInv

(* Who has the lock is the only one inside. *)
LEMMA OnlyInside ==
    ASSUME Stores!BoundsAssumption, StoresInv, NEW k \in Requests, tLock \in {k, NoState},
           NEW j \in Requests \ {k}
    PROVE  ~Inside(tCall[j]) /\ ~Doing(tCall[j], "copy") /\ ~Doing(tCall[j], "remove")
<1>1. ~Inside(tCall[j])
  BY DEF StoresInv, LockInv, Stores!BoundsAssumption
<1> QED BY <1>1 DEF Inside, Doing

(* What may be in a copy only grows: the others stay fine. *)
LEMMA OthersStay ==
    ASSUME StoresInv, NEW k \in Requests, UNCHANGED <<tHead, tSpool, tDirty>>,
           \A f \in Stores!Files : tAllowed[f] \subseteq tAllowed'[f]
    PROVE  \A j \in Requests \ {k} : FineThen(tCall[j])
<1> SUFFICES ASSUME NEW j \in Requests \ {k} PROVE FineThen(tCall[j])
  OBVIOUS
<1>1. tCall[j].file \in Stores!Files
  BY DEF StoresInv, Stores!TypeOK
<1>2. CallFine(tBackend, tCall[j], tAllowed[tCall[j].file], tHead[tCall[j].file],
               tSpool[tCall[j].file], tCall[j].file \notin tDirty)
  BY DEF StoresInv, CallInv
<1> QED BY <1>1, <1>2 DEF FineThen, CallFine

(* Under the lock the others only need what they ask for to be allowed, *)
StillAllowed(k) ==
    \A j \in Requests \ {k} :
        tCall[j].steps # <<>> /\ tCall[j].kind \in {"save", "delete"}
            => CopyIn(tBackend, tCall[j].file, tCall[j].content) \in tAllowed'[tCall[j].file]

LEMMA OthersWait ==
    ASSUME Stores!BoundsAssumption, StoresInv, NEW k \in Requests, tLock = k,
           StillAllowed(k)
    PROVE  \A j \in Requests \ {k} : FineThen(tCall[j])
<1> SUFFICES ASSUME NEW j \in Requests \ {k} PROVE FineThen(tCall[j])
  OBVIOUS
<1>1. CallFine(tBackend, tCall[j], tAllowed[tCall[j].file], tHead[tCall[j].file],
               tSpool[tCall[j].file], tCall[j].file \notin tDirty)
  BY DEF StoresInv, CallInv
<1>2. ~Doing(tCall[j], "copy")
  BY OnlyInside
<1> QED BY <1>1, <1>2 DEF FineThen, CallFine, StillAllowed

(* ... which growing allows, *)
LEMMA GrowingAllows ==
    ASSUME StoresInv, NEW k \in Requests,
           \A f \in Stores!Files : tAllowed[f] \subseteq tAllowed'[f]
    PROVE  StillAllowed(k)
<1> SUFFICES ASSUME NEW j \in Requests, tCall[j].steps # <<>>,
        tCall[j].kind \in {"save", "delete"}
             PROVE  CopyIn(tBackend, tCall[j].file, tCall[j].content) \in tAllowed'[tCall[j].file]
  BY DEF StillAllowed
<1>1. tCall[j].file \in Stores!Files
  BY DEF StoresInv, Stores!TypeOK
<1>2. CopyIn(tBackend, tCall[j].file, tCall[j].content) \in tAllowed[tCall[j].file]
  BY DEF StoresInv, CallInv, CallFine
<1> QED BY <1>1, <1>2

(* ... and acknowledging too. *)
LEMMA AcknowledgeDoes ==
    ASSUME Stores!BoundsAssumption, StoresInv, NEW k \in Requests, NEW f \in Stores!Files,
           NEW data \in Stores!Data,
           Stores!Acknowledge(k, f, data), tSpool' \in [Stores!Files -> Stores!Data]
    PROVE  /\ tAllowed' \in [Stores!Files -> SUBSET Stores!Data]
           /\ CopyIn(tBackend, f, data) \in tAllowed'[f]
           /\ CopyIn(tBackend, f, tSpool'[f]) \in tAllowed'[f]
           /\ \A g \in Stores!Files \ {f} : tAllowed'[g] = tAllowed[g]
           /\ StillAllowed(k)
<1> DEFINE A == {Stores!CopyOf(f, tCall[j].content) :
              j \in {j \in Requests \ {k} : ~ Stores!AtRest(j)
                        /\ tCall[j].kind \in {"save", "delete"} /\ tCall[j].file = f}}
           B == {Stores!CopyOf(f, data), Stores!CopyOf(f, tSpool'[f])} \cup A
<1>1. tAllowed' = [tAllowed EXCEPT ![f] = B]
  BY DEF Stores!Acknowledge
<1>2. tBackend \in StoreBackends /\ tAllowed \in [Stores!Files -> SUBSET Stores!Data]
      /\ tSpool'[f] \in Stores!Data
      /\ \A j \in Requests : tCall[j].content \in Stores!Data /\ tCall[j].file \in Stores!Files
  BY DEF StoresInv, Stores!TypeOK
<1>3. \A d \in Stores!Data : Stores!CopyOf(f, d) \in Stores!Data
  BY <1>2, CopyFacts, CopyOfIs
<1>4. B \subseteq Stores!Data
  BY <1>2, <1>3
<1>5. tAllowed'[f] = B /\ \A g \in Stores!Files \ {f} : tAllowed'[g] = tAllowed[g]
  BY <1>1, <1>2
<1>6. tAllowed' \in [Stores!Files -> SUBSET Stores!Data]
  BY <1>1, <1>2, <1>4
<1>7. Stores!CopyOf(f, data) \in B /\ Stores!CopyOf(f, tSpool'[f]) \in B
  OBVIOUS
<1>8. ASSUME NEW j \in Requests \ {k}, tCall[j].steps # <<>>, tCall[j].kind \in {"save", "delete"}
      PROVE  CopyIn(tBackend, tCall[j].file, tCall[j].content) \in tAllowed'[tCall[j].file]
  <2>1. CASE tCall[j].file = f
    <3>1. Stores!CopyOf(f, tCall[j].content) \in B
      BY <1>8, <2>1 DEF Stores!AtRest
    <3> HIDE DEF B
    <3> QED BY <1>5, <2>1, <3>1, CopyOfIs
  <2>2. CASE tCall[j].file # f
    <3>1. CopyIn(tBackend, tCall[j].file, tCall[j].content) \in tAllowed[tCall[j].file]
      BY <1>8 DEF StoresInv, CallInv, CallFine
    <3> HIDE DEF B
    <3> QED BY <1>2, <1>5, <2>2, <3>1
  <2> QED BY <2>1, <2>2
<1> HIDE DEF A, B
<1> QED BY <1>5, <1>6, <1>7, <1>8, CopyOfIs DEF StillAllowed

(* What is not about the call keeps the copies fine, *)
LEMMA CopiesStay ==
    ASSUME StoresInv, UNCHANGED <<tBackend, tRemote, tHead, tSpool>>,
           \A f \in Stores!Files : tAllowed[f] \subseteq tAllowed'[f]
    PROVE  CopyInv'
BY DEF StoresInv, CopyInv, CopyFine

(* ... and clean what is clean, unless the call was about to copy. *)
LEMMA CleanStays ==
    ASSUME StoresInv, NEW k \in Requests, NEW c, tCall' = [tCall EXCEPT ![k] = c],
           ~Doing(tCall[k], "copy"), UNCHANGED tBackend,
           \A f \in Stores!Files \ tDirty' :
              \/ /\ f \notin tDirty
                 /\ tRemote'[f] = tRemote[f] /\ tHead'[f] = tHead[f] /\ tSpool'[f] = tSpool[f]
              \/ Agree(tBackend, f, tRemote'[f], tHead'[f], tSpool'[f])
              \/ Doing(c, "copy") /\ c.file = f
    PROVE  CleanInv'
<1> SUFFICES ASSUME NEW f \in Stores!Files, f \notin tDirty'
             PROVE  \/ Agree(tBackend, f, tRemote'[f], tHead'[f], tSpool'[f])
                    \/ \E j \in Requests : Doing(tCall'[j], "copy") /\ tCall'[j].file = f
  BY DEF CleanInv
<1>1. tCall'[k] = c /\ \A j \in Requests \ {k} : tCall'[j] = tCall[j]
  BY DEF StoresInv, Stores!TypeOK
<1>2. CASE /\ f \notin tDirty
           /\ tRemote'[f] = tRemote[f] /\ tHead'[f] = tHead[f] /\ tSpool'[f] = tSpool[f]
  <2>1. \/ Agree(tBackend, f, tRemote[f], tHead[f], tSpool[f])
        \/ \E j \in Requests : Doing(tCall[j], "copy") /\ tCall[j].file = f
    BY <1>2 DEF StoresInv, CleanInv
  <2>2. CASE Agree(tBackend, f, tRemote[f], tHead[f], tSpool[f])
    BY <1>2, <2>2
  <2>3. ASSUME NEW j \in Requests, Doing(tCall[j], "copy") /\ tCall[j].file = f
        PROVE  \E i \in Requests : Doing(tCall'[i], "copy") /\ tCall'[i].file = f
    <3>1. j # k
      BY <2>3
    <3> QED BY <1>1, <2>3, <3>1
  <2> QED BY <2>1, <2>2, <2>3
<1>3. CASE Doing(c, "copy") /\ c.file = f
  BY <1>1, <1>3
<1> QED BY <1>2, <1>3

(* What a call knows of itself. *)
LEMMA CallTypes ==
    ASSUME StoresInv, NEW k \in Requests
    PROVE  /\ tCall[k] \in CallRec /\ tCall[k].file \in Stores!Files
           /\ tCall[k].content \in Stores!Data
           /\ tCall[k].kind \in Stores!CallKinds /\ <<>> \in Seq(Stores!StepNames)
           /\ CallFine(tBackend, tCall[k], tAllowed[tCall[k].file], tHead[tCall[k].file],
                       tSpool[tCall[k].file], tCall[k].file \notin tDirty)
           /\ tCall[k].steps \in Stores!Suffixes(Stores!Steps[tBackend][tCall[k].kind])
<1>1. tCall[k] \in CallRec
  BY DEF StoresInv, Stores!TypeOK, CallRec
<1> QED BY <1>1 DEF StoresInv, Stores!TypeOK, WayInv, CallInv, CallRec

(* A call that ends has nothing more to promise. *)
End(c) == [c EXCEPT !.steps = <<>>]
Went(c, data) == [c EXCEPT !.steps = Tail(c.steps), !.content = data]

LEMMA Ended ==
    ASSUME Stores!BoundsAssumption, StoresInv, NEW k \in Requests
    PROVE  LET c == End(tCall[k]) IN
           /\ c \in CallRec /\ c.steps \in Stores!Suffixes(Stores!Steps[tBackend][c.kind])
           /\ c.file = tCall[k].file /\ ~Inside(c) /\ ~Doing(c, "copy") /\ FineThen(c)
<1> DEFINE c == End(tCall[k])
<1>1. c \in CallRec /\ c.steps = <<>> /\ c.kind = tCall[k].kind /\ c.file = tCall[k].file
  BY CallTypes DEF CallRec, End
<1> HIDE DEF c
<1>2. <<>> \in Stores!Suffixes(Stores!Steps[tBackend][c.kind])
  BY <1>1, FirstStep DEF StoresInv, CallRec
<1>3. /\ c \in CallRec /\ c.steps \in Stores!Suffixes(Stores!Steps[tBackend][c.kind])
      /\ c.file = tCall[k].file /\ ~Inside(c) /\ ~Doing(c, "copy") /\ FineThen(c)
  BY <1>1, <1>2 DEF Inside, Doing, FineThen, CallFine
<1> QED BY <1>3 DEF c

(* A call that goes on. *)
LEMMA GoesOn ==
    ASSUME Stores!BoundsAssumption, StoresInv, NEW k \in Requests, tCall[k].steps # <<>>,
           NEW data \in Stores!Data
    PROVE  LET c == Went(tCall[k], data) IN
           /\ c \in CallRec /\ c.steps \in Stores!Suffixes(Stores!Steps[tBackend][c.kind])
           /\ c.file = tCall[k].file /\ c.kind = tCall[k].kind /\ c.content = data
           /\ c.steps = Tail(tCall[k].steps)
<1> DEFINE c == Went(tCall[k], data)
<1>1. /\ Tail(tCall[k].steps) \in Stores!Suffixes(Stores!Steps[tBackend][tCall[k].kind])
      /\ Tail(tCall[k].steps) \in Seq(Stores!StepNames)
  BY NextStep DEF StoresInv
<1>2. tCall[k] \in CallRec
  BY CallTypes
<1>3. /\ c \in CallRec /\ c.file = tCall[k].file /\ c.kind = tCall[k].kind /\ c.content = data
      /\ c.steps = Tail(tCall[k].steps)
  BY <1>1, <1>2 DEF CallRec, Went
<1> HIDE DEF c
<1>4. /\ c \in CallRec /\ c.steps \in Stores!Suffixes(Stores!Steps[tBackend][c.kind])
      /\ c.file = tCall[k].file /\ c.kind = tCall[k].kind /\ c.content = data
      /\ c.steps = Tail(tCall[k].steps)
  BY <1>1, <1>3
<1> QED BY <1>4 DEF c

(* Going on with the same content is advancing. *)
LEMMA Advances ==
    ASSUME StoresInv, NEW k \in Requests, Stores!Advance(k)
    PROVE  tCall' = [tCall EXCEPT ![k] = Went(tCall[k], tCall[k].content)]
<1>1. Went(tCall[k], tCall[k].content) = [tCall[k] EXCEPT !.steps = Tail(tCall[k].steps)]
  BY CallTypes DEF Went, CallRec
<1> QED BY <1>1 DEF Stores!Advance

LEMMA BeginKeeps ==
    ASSUME Stores!BoundsAssumption, StoresInv, NEW k \in Requests, NEW kind \in Stores!CallKinds,
           NEW f \in Stores!Files,
           NEW content \in Stores!Data, kind = "delete" => content = Stores!Absent,
               Stores!Begin(k, kind, f, content)
    PROVE  StoresInv'
<1> DEFINE c == [steps |-> Stores!Steps[tBackend][kind], kind |-> kind, file |-> f, content |->
               content]
<1>1. /\ Stores!Steps[tBackend][kind] \in Seq(Stores!StepNames)
      /\ Stores!Steps[tBackend][kind] # <<>>
      /\ Stores!Steps[tBackend][kind] \in Stores!Suffixes(Stores!Steps[tBackend][kind])
      /\ Head(Stores!Steps[tBackend][kind]) \in {"open", "lock"}
  BY FirstStep DEF StoresInv
<1>2. c \in CallRec /\ c.steps \in Stores!Suffixes(Stores!Steps[tBackend][c.kind]) /\ c.file = f
      /\ c.kind = kind
      /\ c.content = content /\ c.steps # <<>> /\ Head(c.steps) \in {"open", "lock"}
  BY <1>1 DEF CallRec
<1>3. tCall' = [tCall EXCEPT ![k] = c]
      /\ UNCHANGED <<tBackend, tSpool, tHead, tRemote, tLock, tDirty>> /\ tCall[k].steps = <<>>
      /\ tCounts' = [tCounts EXCEPT !.calls = @ + 1] /\ tCounts.calls < MaxStoreCalls
  BY DEF Stores!Begin, Stores!AtRest
<1> HIDE DEF c
<1>4. /\ tAllowed' \in [Stores!Files -> SUBSET Stores!Data]
      /\ \A g \in Stores!Files : tAllowed[g] \subseteq tAllowed'[g]
      /\ kind \in {"save", "delete"} => CopyIn(tBackend, f, content) \in tAllowed'[f]
  <2>1. Stores!CopyOf(f, content) = CopyIn(tBackend, f, content)
        /\ Stores!CopyOf(f, content) \in Stores!Data
    BY CopyOfIs, CopyFacts DEF StoresInv, Stores!TypeOK
  <2> QED BY <2>1 DEF Stores!Begin, StoresInv, Stores!TypeOK
<1>5. FineThen(c)
  BY <1>2, <1>4 DEF FineThen, CallFine, Doing
<1>6. \A j \in Requests \ {k} : FineThen(tCall[j])
  BY <1>3, <1>4, OthersStay
<1>7. CopyInv'
  BY <1>3, <1>4, CopiesStay
<1>8. CleanInv'
  BY <1>3, CleanStays DEF Doing
<1>9. ~Inside(c)
  BY <1>2 DEF Inside
<1>10. /\ tCounts' \in [calls : 0..MaxStoreCalls, writes : 0..MaxStoreWrites,
              restarts : 0..MaxStoreRestarts]
       /\ FilesTyped'
  <2>1. tCounts \in [calls : 0..MaxStoreCalls, writes : 0..MaxStoreWrites,
            restarts : 0..MaxStoreRestarts]
    BY DEF StoresInv, Stores!TypeOK
  <2>2. tCounts.calls + 1 \in 0..MaxStoreCalls
    BY <1>3, <2>1 DEF Stores!BoundsAssumption
  <2>3. tCounts' \in [calls : 0..MaxStoreCalls, writes : 0..MaxStoreWrites,
            restarts : 0..MaxStoreRestarts]
    BY <1>3, <2>1, <2>2
  <2>4. FilesTyped'
    BY <1>3, <1>4 DEF StoresInv, Stores!TypeOK, FilesTyped
  <2> QED BY <2>3, <2>4
<1> QED BY <1>2, <1>3, <1>4, <1>5, <1>6, <1>7, <1>8, <1>9, <1>10, StepKeeps

LEMMA EnsureRepositoryKeeps ==
    ASSUME Stores!BoundsAssumption, StoresInv, NEW k \in Requests, Stores!EnsureRepository(k)
    PROVE  StoresInv'
<1> DEFINE go == Went(tCall[k], tCall[k].content)
           end == End(tCall[k])
<1>1. /\ tCall[k].steps # <<>> /\ Head(tCall[k].steps) = "open"
      /\ tCall[k].content \in Stores!Data
      /\ Tail(tCall[k].steps) # <<>> /\ Head(Tail(tCall[k].steps)) = "lock"
  BY CallTypes, NextStep DEF Stores!EnsureRepository, Stores!At, StoresInv
<1>2. tCall' = [tCall EXCEPT ![k] = go] \/ tCall' = [tCall EXCEPT ![k] = end]
  BY Advances DEF Stores!EnsureRepository, End
<1>3. /\ go \in CallRec /\ go.steps \in Stores!Suffixes(Stores!Steps[tBackend][go.kind])
      /\ go.file = tCall[k].file /\ go.kind = tCall[k].kind /\ go.content = tCall[k].content
      /\ go.steps # <<>> /\ Head(go.steps) = "lock"
  BY <1>1, GoesOn
<1>4. /\ end \in CallRec /\ end.steps \in Stores!Suffixes(Stores!Steps[tBackend][end.kind])
      /\ ~Inside(end)
      /\ FineThen(end)
  BY Ended
<1>5. UNCHANGED <<tBackend, tSpool, tHead, tRemote, tLock, tCounts, tDirty, tAllowed>>
  BY DEF Stores!EnsureRepository
<1> HIDE DEF go, end
<1>6. FineThen(go) /\ ~Inside(go)
  BY <1>1, <1>3, <1>5, CallTypes DEF FineThen, CallFine, Doing, Inside
<1>7. \A j \in Requests \ {k} : FineThen(tCall[j])
  BY <1>5, OthersStay
<1>8. CopyInv'
  BY <1>5, CopiesStay
<1>9. CleanInv'
  BY <1>1, <1>2, <1>5, CleanStays DEF Doing
<1>10. /\ tCounts' \in [calls : 0..MaxStoreCalls, writes : 0..MaxStoreWrites,
              restarts : 0..MaxStoreRestarts]
       /\ FilesTyped'
  BY <1>5 DEF StoresInv, Stores!TypeOK, FilesTyped
<1>11. CASE tCall' = [tCall EXCEPT ![k] = go]
  BY <1>3, <1>5, <1>6, <1>7, <1>8, <1>9, <1>10, <1>11, StepKeeps
<1>12. CASE tCall' = [tCall EXCEPT ![k] = end]
  BY <1>4, <1>5, <1>7, <1>8, <1>9, <1>10, <1>12, StepKeeps
<1> QED BY <1>2, <1>11, <1>12

LEMMA SaveOfGoneKeeps ==
    ASSUME Stores!BoundsAssumption, StoresInv, NEW k \in Requests, Stores!SaveOfGone(k)
    PROVE  StoresInv'
<1> DEFINE end == End(tCall[k])
<1>1. tCall' = [tCall EXCEPT ![k] = end]
      /\ UNCHANGED <<tBackend, tSpool, tHead, tRemote, tLock, tCounts, tDirty, tAllowed>>
  BY DEF Stores!SaveOfGone, End
<1>2. /\ end \in CallRec /\ end.steps \in Stores!Suffixes(Stores!Steps[tBackend][end.kind])
      /\ ~Inside(end) /\ FineThen(end)
  BY Ended
<1>3. ~Doing(tCall[k], "copy")
  <2>1. tBackend \in {"postgres", "object", "git"} /\ "save" \in Stores!CallKinds
    BY DEF StoresInv, Stores!TypeOK, Stores!BoundsAssumption, Stores!CallKinds
  <2>2. Follows(tBackend, "save", Stores!Steps[tBackend]["save"])
    BY <2>1, StepsFollow
  <2>3. tCall[k].steps = Stores!Steps[tBackend]["save"]
    BY DEF Stores!SaveOfGone
  <2>4. Head(tCall[k].steps) \in {"open", "lock"}
    BY <2>2, <2>3 DEF Follows
  <2> QED BY <2>4 DEF Doing
<1> HIDE DEF end
<1>4. \A j \in Requests \ {k} : FineThen(tCall[j])
  BY <1>1, OthersStay
<1>5. CopyInv'
  BY <1>1, CopiesStay
<1>6. CleanInv'
  BY <1>1, <1>3, CleanStays
<1>7. /\ tCounts' \in [calls : 0..MaxStoreCalls, writes : 0..MaxStoreWrites,
              restarts : 0..MaxStoreRestarts]
      /\ FilesTyped'
  BY <1>1 DEF StoresInv, Stores!TypeOK, FilesTyped
<1> QED BY <1>1, <1>2, <1>4, <1>5, <1>6, <1>7, StepKeeps

(* A step of a call that stays under the lock, ... *)
LEMMA StaysKeeps ==
    ASSUME Stores!BoundsAssumption, StoresInv, NEW k \in Requests, Inside(tCall[k]),
           NEW c \in CallRec,
           c.steps \in Stores!Suffixes(Stores!Steps[tBackend][c.kind]),
               tCall' = [tCall EXCEPT ![k] = c],
           UNCHANGED <<tBackend, tCounts>>, FilesTyped', tLock' = tLock,
           FineThen(c), CopyInv', CleanInv', StillAllowed(k)
    PROVE  StoresInv'
<1>1. tLock = k
  BY DEF StoresInv, LockInv
<1>2. \A j \in Requests \ {k} : FineThen(tCall[j])
  BY <1>1, OthersWait
<1>3. tCounts' \in [calls : 0..MaxStoreCalls, writes : 0..MaxStoreWrites,
          restarts : 0..MaxStoreRestarts]
  BY DEF StoresInv, Stores!TypeOK
<1>4. tLock' \in {tLock, k, NoState} /\ (tLock' = tLock \/ tLock \in {k, NoState})
      /\ (Inside(c) => tLock' = k)
  BY <1>1
<1> QED BY <1>2, <1>3, <1>4, StepKeeps

(* ... or leaves it. *)
LEMMA LeavesKeeps ==
    ASSUME Stores!BoundsAssumption, StoresInv, NEW k \in Requests, Inside(tCall[k]),
           NEW c \in CallRec,
           c.steps \in Stores!Suffixes(Stores!Steps[tBackend][c.kind]),
               tCall' = [tCall EXCEPT ![k] = c],
           UNCHANGED <<tBackend, tCounts>>, FilesTyped', tLock' = NoState, ~Inside(c),
           FineThen(c), CopyInv', CleanInv', StillAllowed(k)
    PROVE  StoresInv'
<1>1. tLock = k
  BY DEF StoresInv, LockInv
<1>2. \A j \in Requests \ {k} : FineThen(tCall[j])
  BY <1>1, OthersWait
<1>3. tCounts' \in [calls : 0..MaxStoreCalls, writes : 0..MaxStoreWrites,
          restarts : 0..MaxStoreRestarts]
  BY DEF StoresInv, Stores!TypeOK
<1>4. tLock' \in {tLock, k, NoState} /\ (tLock' = tLock \/ tLock \in {k, NoState})
      /\ (Inside(c) => tLock' = k)
  BY <1>1
<1> QED BY <1>2, <1>3, <1>4, StepKeeps

LEMMA LockKeeps ==
    ASSUME Stores!BoundsAssumption, StoresInv, NEW k \in Requests, Stores!Lock(k)
    PROVE  StoresInv'
<1> DEFINE go == Went(tCall[k], tCall[k].content)
<1>1. /\ tCall[k].steps # <<>> /\ Head(tCall[k].steps) = "lock"
      /\ tCall[k].content \in Stores!Data
      /\ Tail(tCall[k].steps) # <<>>
      /\ Head(Tail(tCall[k].steps)) \in {"write", "remove", "read", "commit"}
  BY CallTypes, NextStep DEF Stores!Lock, Stores!At, StoresInv
<1>2. tCall' = [tCall EXCEPT ![k] = go]
  BY Advances DEF Stores!Lock
<1>3. /\ go \in CallRec /\ go.steps \in Stores!Suffixes(Stores!Steps[tBackend][go.kind])
      /\ go.file = tCall[k].file /\ go.kind = tCall[k].kind /\ go.content = tCall[k].content
      /\ go.steps # <<>> /\ Head(go.steps) \in {"write", "remove", "read", "commit"}
  BY <1>1, GoesOn
<1>4. UNCHANGED <<tBackend, tSpool, tHead, tRemote, tCounts, tDirty, tAllowed>>
      /\ tLock = NoState /\ tLock' = k
  BY DEF Stores!Lock
<1> HIDE DEF go
<1>5. FineThen(go)
  BY <1>1, <1>3, <1>4, CallTypes DEF FineThen, CallFine, Doing
<1>6. \A j \in Requests \ {k} : FineThen(tCall[j])
  BY <1>4, OthersStay
<1>7. CopyInv'
  BY <1>4, CopiesStay
<1>8. CleanInv'
  BY <1>1, <1>2, <1>4, CleanStays DEF Doing
<1>9. /\ tCounts' \in [calls : 0..MaxStoreCalls, writes : 0..MaxStoreWrites,
             restarts : 0..MaxStoreRestarts]
      /\ FilesTyped'
  BY <1>4 DEF StoresInv, Stores!TypeOK, FilesTyped
<1> QED BY <1>2, <1>3, <1>4, <1>5, <1>6, <1>7, <1>8, <1>9, StepKeeps

LEMMA WriteFileKeeps ==
    ASSUME Stores!BoundsAssumption, StoresInv, NEW k \in Requests, Stores!WriteFile(k)
    PROVE  StoresInv'
<1> DEFINE go == Went(tCall[k], tCall[k].content)
           f == tCall[k].file
<1>1. /\ tCall[k].steps # <<>> /\ Head(tCall[k].steps) = "write"
      /\ tCall[k].content \in Stores!Data
      /\ tCall[k].kind = "save" /\ Tail(tCall[k].steps) # <<>>
      /\ Head(Tail(tCall[k].steps)) \in {"read", "commit"} /\ f \in Stores!Files
  BY CallTypes, NextStep DEF Stores!WriteFile, Stores!At, StoresInv
<1>2. tCall' = [tCall EXCEPT ![k] = go]
  BY Advances DEF Stores!WriteFile
<1>3. /\ go \in CallRec /\ go.steps \in Stores!Suffixes(Stores!Steps[tBackend][go.kind])
      /\ go.file = f /\ go.kind = "save" /\ go.content = tCall[k].content
      /\ go.steps # <<>> /\ Head(go.steps) \in {"read", "commit"}
  BY <1>1, GoesOn
<1>4. UNCHANGED <<tBackend, tHead, tRemote, tLock, tCounts, tAllowed>>
      /\ tDirty' = tDirty \cup {f}
      /\ tSpool' = [tSpool EXCEPT ![f] = tCall[k].content]
  BY DEF Stores!WriteFile
<1>5. CopyIn(tBackend, f, tCall[k].content) \in tAllowed[f]
  BY <1>1, CallTypes DEF CallFine
<1> HIDE DEF go, f
<1>6. /\ FilesTyped'
      /\ tSpool'[f] = tCall[k].content /\ \A g \in Stores!Files \ {f} : tSpool'[g] = tSpool[g]
  BY <1>1, <1>4 DEF StoresInv, Stores!TypeOK, FilesTyped
<1>7. FineThen(go)
  BY <1>1, <1>3, <1>4, <1>5 DEF FineThen, CallFine, Doing
<1>8. CopyInv'
  <2>1. tBackend = "git" => CopyIn(tBackend, f, tCall[k].content) = tCall[k].content
    BY <1>1, CopyFacts DEF StoresInv, Stores!TypeOK
  <2> QED BY <1>4, <1>5, <1>6, <2>1 DEF StoresInv, CopyInv, CopyFine
<1>9. CleanInv'
  BY <1>1, <1>2, <1>4, <1>6, CleanStays DEF Doing
<1>10. Inside(tCall[k]) /\ Inside(go)
  BY <1>1, <1>3, <1>4 DEF Inside
<1>11. UNCHANGED <<tBackend, tCounts, tLock>> /\ StillAllowed(k)
  BY <1>4, GrowingAllows
<1>12. FilesTyped'
  BY <1>6
<1> QED BY <1>2, <1>3, <1>7, <1>8, <1>9, <1>10, <1>11, <1>12, StaysKeeps

LEMMA FileFailsKeeps ==
    ASSUME Stores!BoundsAssumption, StoresInv, NEW k \in Requests, Stores!FileFails(k)
    PROVE  StoresInv'
<1> DEFINE end == End(tCall[k])
<1>1. Inside(tCall[k]) /\ ~Doing(tCall[k], "copy")
  BY DEF Stores!FileFails, Stores!At, Inside, Doing
<1>2. tCall' = [tCall EXCEPT ![k] = end]
  BY DEF Stores!FileFails, Stores!Unlock, End
<1>3. /\ end \in CallRec /\ end.steps \in Stores!Suffixes(Stores!Steps[tBackend][end.kind])
      /\ ~Inside(end)
      /\ FineThen(end)
  BY Ended
<1>4. UNCHANGED <<tBackend, tSpool, tHead, tRemote, tCounts, tDirty, tAllowed>>
      /\ tLock' = NoState
  BY DEF Stores!FileFails, Stores!Unlock
<1> HIDE DEF end
<1>5. CopyInv'
  BY <1>4, CopiesStay
<1>6. CleanInv'
  BY <1>1, <1>2, <1>4, CleanStays
<1>7. FilesTyped'
  BY <1>4 DEF StoresInv, Stores!TypeOK, FilesTyped
<1>8. StillAllowed(k)
  BY <1>4, GrowingAllows
<1> QED BY <1>1, <1>2, <1>3, <1>4, <1>5, <1>6, <1>7, <1>8, LeavesKeeps

LEMMA ReadFileKeeps ==
    ASSUME Stores!BoundsAssumption, StoresInv, NEW k \in Requests, Stores!ReadFile(k)
    PROVE  StoresInv'
<1> DEFINE f == tCall[k].file
           data == Stores!CopyOf(f, tSpool[f])
           go == Went(tCall[k], data)
<1>1. /\ tCall[k].steps # <<>> /\ Head(tCall[k].steps) = "read" /\ f \in Stores!Files
      /\ tCall[k].kind # "delete" /\ tBackend # "git" /\ Tail(tCall[k].steps) # <<>>
      /\ Head(Tail(tCall[k].steps)) = "copy"
  BY CallTypes, NextStep DEF Stores!ReadFile, Stores!At, StoresInv
<1>2. data \in Stores!Data /\ data = CopyIn(tBackend, f, tSpool[f])
      /\ CopyIn(tBackend, f, data) = data
  <2>1. tBackend \in StoreBackends /\ tSpool[f] \in Stores!Data
    BY <1>1 DEF StoresInv, Stores!TypeOK
  <2>2. data = CopyIn(tBackend, f, tSpool[f])
    BY CopyOfIs
  <2> HIDE DEF data, f
  <2> QED BY <1>1, <2>1, <2>2, CopyFacts
<1>3. tCall' = [tCall EXCEPT ![k] = go]
  BY DEF Stores!ReadFile, Went
<1>4. /\ go \in CallRec /\ go.steps \in Stores!Suffixes(Stores!Steps[tBackend][go.kind])
      /\ go.file = f /\ go.kind = tCall[k].kind /\ go.content = data
      /\ go.steps # <<>> /\ Head(go.steps) = "copy"
  BY <1>1, <1>2, GoesOn
<1>5. /\ UNCHANGED <<tBackend, tSpool, tHead, tRemote, tLock, tCounts>> /\ tDirty' = tDirty \ {f}
      /\ tAllowed' = [tAllowed EXCEPT ![f] = tAllowed[f] \cup {data}]
  BY DEF Stores!ReadFile
<1> HIDE DEF go, f, data
<1>6. /\ FilesTyped'
      /\ data \in tAllowed'[f] /\ \A g \in Stores!Files : tAllowed[g] \subseteq tAllowed'[g]
  BY <1>1, <1>2, <1>5 DEF StoresInv, Stores!TypeOK, FilesTyped
<1>7. FineThen(go)
  BY <1>1, <1>2, <1>4, <1>5, <1>6 DEF FineThen, CallFine, Doing
<1>8. CopyInv'
  BY <1>5, <1>6, CopiesStay
<1>9. CleanInv'
  <2>1. Doing(go, "copy") /\ ~Doing(tCall[k], "copy")
    BY <1>1, <1>4 DEF Doing
  <2> QED BY <1>3, <1>4, <1>5, <2>1, CleanStays
<1>10. Inside(tCall[k]) /\ Inside(go)
  BY <1>1, <1>3, <1>4 DEF Inside
<1>11. UNCHANGED <<tBackend, tCounts, tLock>> /\ StillAllowed(k)
  BY <1>5, <1>6, GrowingAllows
<1> QED BY <1>3, <1>4, <1>6, <1>7, <1>8, <1>9, <1>10, <1>11, StaysKeeps

(* What has been acknowledged is in the copy. *)
LEMMA CopiesAcknowledged ==
    ASSUME Stores!BoundsAssumption, StoresInv, NEW k \in Requests, NEW f \in Stores!Files,
           NEW data \in Stores!Data,
           Stores!Acknowledge(k, f, data), UNCHANGED tBackend, FilesTyped',
           \A g \in Stores!Files \ {f} :
              tRemote'[g] = tRemote[g] /\ tHead'[g] = tHead[g] /\ tSpool'[g] = tSpool[g],
           Agree(tBackend, f, tRemote'[f], tHead'[f], tSpool'[f])
    PROVE  CopyInv'
<1>1. tBackend \in StoreBackends /\ tSpool' \in [Stores!Files -> Stores!Data]
      /\ tSpool'[f] \in Stores!Data
  BY DEF StoresInv, Stores!TypeOK, FilesTyped
<1>2. CopyIn(tBackend, f, tSpool'[f]) \in tAllowed'[f]
      /\ \A g \in Stores!Files \ {f} : tAllowed'[g] = tAllowed[g]
  BY <1>1, AcknowledgeDoes
<1>3. /\ CopyIn(tBackend, f, CopyIn(tBackend, f, tSpool'[f])) = CopyIn(tBackend, f, tSpool'[f])
      /\ tBackend = "git" => CopyIn(tBackend, f, tSpool'[f]) = tSpool'[f]
  BY <1>1, CopyFacts
<1>4. \A g \in Stores!Files : CopyFine(tBackend, g, tRemote[g], tHead[g], tSpool[g], tAllowed[g])
  BY DEF StoresInv, CopyInv
<1>5. CopyFine(tBackend, f, tRemote'[f], tHead'[f], tSpool'[f], tAllowed'[f])
  BY <1>2, <1>3 DEF Agree, CopyFine
<1> QED BY <1>2, <1>4, <1>5 DEF CopyInv

LEMMA SettledIs ==
    ASSUME NEW f
    PROVE  Stores!Settled(f) <=> Agree(tBackend, f, tRemote[f], tHead[f], tSpool[f])
BY CopyOfIs DEF Stores!Settled, Agree

(* A call that finds the file as it wants it is answered at once: the file  *)
(* agrees with its copy, or nothing is promised.                            *)
LEMMA AnswerKeeps ==
    ASSUME Stores!BoundsAssumption, StoresInv, NEW k \in Requests, Inside(tCall[k]),
           ~Doing(tCall[k], "copy"), NEW f \in Stores!Files, NEW data \in Stores!Data,
           Stores!AnswerAtOnce(k, f, data), tCall' = [tCall EXCEPT ![k] = End(tCall[k])],
           UNCHANGED <<tBackend, tRemote, tCounts>>, tLock' = NoState,
           tSpool' \in [Stores!Files -> Stores!Data], tHead' \in [Stores!Files -> Stores!Data],
           \A g \in Stores!Files : tSpool'[g] = tSpool[g] /\ tHead'[g] = tHead[g]
    PROVE  StoresInv'
<1> DEFINE end == End(tCall[k])
<1>1. /\ end \in CallRec /\ end.steps \in Stores!Suffixes(Stores!Steps[tBackend][end.kind])
      /\ ~Inside(end)
      /\ FineThen(end)
  BY Ended
<1>2. tCall' = [tCall EXCEPT ![k] = end]
  OBVIOUS
<1> HIDE DEF end
<1>3. CASE UNCHANGED <<tDirty, tAllowed>>
  <2>1. FilesTyped'
    BY <1>3 DEF StoresInv, Stores!TypeOK, FilesTyped
  <2>2. StillAllowed(k)
    BY <1>3, GrowingAllows
  <2>3. CopyInv'
    BY <1>3 DEF StoresInv, CopyInv, CopyFine
  <2>4. CleanInv'
    BY <1>2, <1>3, CleanStays
  <2> QED BY <1>1, <1>2, <2>1, <2>2, <2>3, <2>4, LeavesKeeps
<1>4. CASE ~Stores!Unkept(f) /\ tDirty' = tDirty \ {f} /\ Stores!Acknowledge(k, f, data)
  <2>1. tAllowed' \in [Stores!Files -> SUBSET Stores!Data] /\ StillAllowed(k)
    BY <1>4, AcknowledgeDoes
  <2>2. FilesTyped'
    BY <1>4, <2>1 DEF StoresInv, Stores!TypeOK, FilesTyped
  <2>3. Agree(tBackend, f, tRemote[f], tHead[f], tSpool[f])
    <3>1. CASE f \in tDirty
      BY <1>4, <3>1, SettledIs DEF Stores!Unkept
    <3>2. CASE f \notin tDirty
      <4>1. tLock = k
        BY DEF StoresInv, LockInv
      <4>2. \A j \in Requests : ~Doing(tCall[j], "copy")
        BY <4>1, OnlyInside
      <4> QED BY <3>2, <4>2 DEF StoresInv, CleanInv
    <3> QED BY <3>1, <3>2
  <2>4. Agree(tBackend, f, tRemote'[f], tHead'[f], tSpool'[f])
    BY <2>3
  <2>5. CopyInv'
    BY <1>4, <2>2, <2>4, CopiesAcknowledged
  <2>6. CleanInv'
    BY <1>2, <1>4, <2>4, CleanStays
  <2> QED BY <1>1, <1>2, <2>1, <2>2, <2>5, <2>6, LeavesKeeps
<1> QED BY <1>3, <1>4 DEF Stores!AnswerAtOnce

LEMMA SaveUnchangedKeeps ==
    ASSUME Stores!BoundsAssumption, StoresInv, NEW k \in Requests,
           Stores!SaveUnchanged(k)
    PROVE  StoresInv'
<1> DEFINE f == tCall[k].file
<1>1. Inside(tCall[k]) /\ ~Doing(tCall[k], "copy") /\ f \in Stores!Files
      /\ tCall[k].content \in Stores!Data
  BY CallTypes DEF Stores!SaveUnchanged, Stores!At, Inside, Doing
<1>2. /\ Stores!AnswerAtOnce(k, f, tCall[k].content)
      /\ tCall' = [tCall EXCEPT ![k] = End(tCall[k])] /\ tLock' = NoState
      /\ UNCHANGED <<tBackend, tSpool, tHead, tRemote, tCounts>>
  BY DEF Stores!SaveUnchanged, Stores!Unlock, End
<1> HIDE DEF f
<1>3. /\ tSpool' \in [Stores!Files -> Stores!Data]
      /\ tHead' \in [Stores!Files -> Stores!Data]
  BY <1>2 DEF StoresInv, Stores!TypeOK
<1> QED BY <1>1, <1>2, <1>3, AnswerKeeps

LEMMA RemoveFileKeeps ==
    ASSUME Stores!BoundsAssumption, StoresInv, NEW k \in Requests,
           Stores!RemoveFile(k)
    PROVE  StoresInv'
<1> DEFINE go == Went(tCall[k], tCall[k].content)
           f == tCall[k].file
<1>1. /\ tCall[k].steps # <<>> /\ Head(tCall[k].steps) = "remove"
      /\ tCall[k].content \in Stores!Data
      /\ tCall[k].kind = "delete" /\ Tail(tCall[k].steps) # <<>>
      /\ Head(Tail(tCall[k].steps)) = (IF tBackend = "git" THEN "commit" ELSE "copy")
             /\ f \in Stores!Files
  BY CallTypes, NextStep DEF Stores!RemoveFile, Stores!At, StoresInv
<1>2. /\ tCall[k].content = Stores!Absent
      /\ CopyIn(tBackend, f, tCall[k].content) \in tAllowed[f]
  BY <1>1, CallTypes DEF CallFine, Doing
<1>4. /\ go \in CallRec /\ go.steps \in Stores!Suffixes(Stores!Steps[tBackend][go.kind])
      /\ go.file = f /\ go.kind = "delete" /\ go.content = Stores!Absent
      /\ go.steps # <<>> /\ Head(go.steps) = (IF tBackend = "git" THEN "commit" ELSE "copy")
  BY <1>1, <1>2, GoesOn
<1>5. UNCHANGED <<tBackend, tHead, tRemote, tCounts>>
      /\ tSpool' = [tSpool EXCEPT ![f] = Stores!Absent]
  BY DEF Stores!RemoveFile
<1>6. \/ /\ tBackend = "git" /\ tSpool[f] = Stores!Absent
         /\ tLock' = NoState /\ tCall' = [tCall EXCEPT ![k] = End(tCall[k])]
         /\ Stores!AnswerAtOnce(k, f, Stores!Absent)
      \/ /\ tDirty' = IF tBackend = "git" THEN tDirty \cup {f} ELSE tDirty \ {f}
         /\ tCall' = [tCall EXCEPT ![k] = go]
         /\ UNCHANGED <<tLock, tAllowed>>
  BY Advances DEF Stores!RemoveFile, Stores!Unlock, End
<1> HIDE DEF go, f
<1>7. Inside(tCall[k]) /\ ~Doing(tCall[k], "copy") /\ Inside(go)
  BY <1>1, <1>4 DEF Inside, Doing
<1>8. /\ tSpool' \in [Stores!Files -> Stores!Data] /\ tSpool'[f] = Stores!Absent
      /\ \A g \in Stores!Files \ {f} : tSpool'[g] = tSpool[g]
  BY <1>1, <1>5 DEF StoresInv, Stores!TypeOK, Stores!Data
<1>9. tBackend \in StoreBackends /\ CopyIn(tBackend, f, Stores!Absent) = Stores!Absent
      /\ Stores!Absent \in Stores!Data
  BY <1>1, CopyFacts DEF StoresInv, Stores!TypeOK, Stores!Data
<1>10. CASE /\ tBackend = "git" /\ tSpool[f] = Stores!Absent
            /\ tLock' = NoState /\ tCall' = [tCall EXCEPT ![k] = End(tCall[k])]
            /\ Stores!AnswerAtOnce(k, f, Stores!Absent)
  <2>1. \A g \in Stores!Files : tSpool'[g] = tSpool[g] /\ tHead'[g] = tHead[g]
    BY <1>5, <1>8, <1>10
  <2>2. tHead' \in [Stores!Files -> Stores!Data]
    BY <1>5 DEF StoresInv, Stores!TypeOK
  <2> QED BY <1>1, <1>5, <1>7, <1>8, <1>9, <1>10, <2>1, <2>2, AnswerKeeps
<1>11. CASE /\ tDirty' = IF tBackend = "git" THEN tDirty \cup {f} ELSE tDirty \ {f}
            /\ tCall' = [tCall EXCEPT ![k] = go]
            /\ UNCHANGED <<tLock, tAllowed>>
  <2>1. FilesTyped'
    BY <1>1, <1>5, <1>8, <1>11 DEF StoresInv, Stores!TypeOK, FilesTyped
  <2>2. FineThen(go)
    BY <1>2, <1>4, <1>8, <1>9, <1>11 DEF FineThen, CallFine, Doing
  <2>3. CopyInv'
    BY <1>2, <1>5, <1>8, <1>9, <1>11 DEF StoresInv, CopyInv, CopyFine
  <2>4. tBackend # "git" => Doing(go, "copy") /\ go.file = f
    BY <1>4 DEF Doing
  <2>5. CleanInv'
    BY <1>5, <1>7, <1>8, <1>11, <2>4, CleanStays
  <2>6. UNCHANGED <<tBackend, tCounts, tLock>> /\ StillAllowed(k)
    BY <1>5, <1>11, GrowingAllows
  <2> QED BY <1>4, <1>7, <1>11, <2>1, <2>2, <2>3, <2>5, <2>6, StaysKeeps
<1> QED BY <1>6, <1>10, <1>11

LEMMA CommitKeeps ==
    ASSUME Stores!BoundsAssumption, StoresInv, NEW k \in Requests,
           Stores!Commit(k)
    PROVE  StoresInv'
<1> DEFINE f == tCall[k].file
           data == tSpool[f]
           go == Went(tCall[k], data)
<1>1. /\ tCall[k].steps # <<>> /\ Head(tCall[k].steps) = "commit" /\ f \in Stores!Files
      /\ tBackend = "git" /\ Tail(tCall[k].steps) # <<>> /\ Head(Tail(tCall[k].steps)) = "copy"
  BY CallTypes, NextStep DEF Stores!Commit, Stores!At, StoresInv
<1>2. data \in Stores!Data /\ tBackend \in StoreBackends
  BY <1>1 DEF StoresInv, Stores!TypeOK
<1>4. /\ go \in CallRec /\ go.steps \in Stores!Suffixes(Stores!Steps[tBackend][go.kind])
      /\ go.file = f /\ go.kind = tCall[k].kind /\ go.content = data
      /\ go.steps # <<>> /\ Head(go.steps) = "copy"
  BY <1>1, <1>2, GoesOn
<1>5. /\ UNCHANGED <<tBackend, tSpool, tRemote, tCounts>> /\ tHead' = [tHead EXCEPT ![f] = data]
      /\ data = tSpool[f]
  BY DEF Stores!Commit
<1>6. \/ /\ tHead[f] = data /\ tLock' = NoState
         /\ tCall' = [tCall EXCEPT ![k] = End(tCall[k])]
         /\ Stores!AnswerAtOnce(k, f, data)
      \/ /\ tCall' = [tCall EXCEPT ![k] = go] /\ tDirty' = tDirty \ {f}
         /\ UNCHANGED <<tLock, tAllowed>>
  BY DEF Stores!Commit, Stores!Unlock, End, Went
<1> HIDE DEF f, data, go
<1>7. Inside(tCall[k]) /\ ~Doing(tCall[k], "copy") /\ Inside(go) /\ Doing(go, "copy")
  BY <1>1, <1>4 DEF Inside, Doing
<1>8. /\ tHead' \in [Stores!Files -> Stores!Data] /\ tSpool' \in [Stores!Files -> Stores!Data]
      /\ tHead'[f] = data
      /\ \A g \in Stores!Files \ {f} : tHead'[g] = tHead[g]
  BY <1>1, <1>2, <1>5 DEF StoresInv, Stores!TypeOK
<1>9. CASE /\ tHead[f] = data /\ tLock' = NoState
           /\ tCall' = [tCall EXCEPT ![k] = End(tCall[k])]
           /\ Stores!AnswerAtOnce(k, f, data)
  <2>1. \A g \in Stores!Files : tSpool'[g] = tSpool[g] /\ tHead'[g] = tHead[g]
    BY <1>5, <1>8, <1>9
  <2> QED BY <1>1, <1>2, <1>5, <1>7, <1>8, <1>9, <2>1, AnswerKeeps
<1>10. CASE /\ tCall' = [tCall EXCEPT ![k] = go] /\ tDirty' = tDirty \ {f}
            /\ UNCHANGED <<tLock, tAllowed>>
  <2>1. FilesTyped'
    BY <1>5, <1>8, <1>10 DEF StoresInv, Stores!TypeOK, FilesTyped
  <2>2. data \in tAllowed[f]
    BY <1>1, <1>5 DEF StoresInv, CopyInv, CopyFine
  <2>3. CopyIn(tBackend, f, data) = data
    BY <1>1, <1>2, CopyFacts
  <2>4. FineThen(go)
    BY <1>4, <1>5, <1>8, <1>10, <2>2, <2>3 DEF FineThen, CallFine, Doing
  <2>5. CopyInv'
    BY <1>5, <1>8, <1>10, <2>2 DEF StoresInv, CopyInv, CopyFine
  <2>6. CleanInv'
    BY <1>4, <1>5, <1>7, <1>8, <1>10, CleanStays
  <2>7. UNCHANGED <<tBackend, tCounts, tLock>> /\ StillAllowed(k)
    BY <1>5, <1>10, GrowingAllows
  <2> QED BY <1>4, <1>7, <1>10, <2>1, <2>4, <2>5, <2>6, <2>7, StaysKeeps
<1> QED BY <1>6, <1>9, <1>10

(* What is copied may be there, and makes the file and its copy agree. *)
LEMMA CopiedIs ==
    ASSUME Stores!BoundsAssumption, StoresInv, NEW k \in Requests, Doing(tCall[k], "copy")
    PROVE  /\ Stores!Copied(k) \in [Stores!Files -> Stores!Data]
           /\ \A f \in Stores!Files :
                 CopyFine(tBackend, f, Stores!Copied(k)[f], tHead[f], tSpool[f], tAllowed[f])
           /\ \A f \in Stores!Files \ tDirty :
                  Agree(tBackend, f, Stores!Copied(k)[f], tHead[f], tSpool[f])
           /\ Stores!Copied(k)[tCall[k].file] = tCall[k].content
<1> DEFINE f == tCall[k].file
           new == Stores!Copied(k)
<1>1. /\ f \in Stores!Files /\ tCall[k].content \in Stores!Data
      /\ tCall[k].content \in tAllowed[f]
      /\ CopyIn(tBackend, f, tCall[k].content) = tCall[k].content
      /\ tBackend = "git" => tHead[f] = tCall[k].content
      /\ f \notin tDirty => tCall[k].content = CopyIn(tBackend, f, tSpool[f])
  BY CallTypes DEF CallFine
<1>2. tBackend \in StoreBackends /\ tRemote \in [Stores!Files -> Stores!Data]
      /\ tHead \in [Stores!Files -> Stores!Data]
      /\ tSpool \in [Stores!Files -> Stores!Data]
  BY DEF StoresInv, Stores!TypeOK
<1>3. \A g \in Stores!Files, d \in Stores!Data : tBackend = "git" => CopyIn(tBackend, g, d) = d
  BY <1>2, CopyFacts
<1>4. \A g \in Stores!Files : CopyFine(tBackend, g, tRemote[g], tHead[g], tSpool[g], tAllowed[g])
  BY DEF StoresInv, CopyInv
<1>5. ASSUME NEW g \in Stores!Files \ tDirty, g # f
          PROVE Agree(tBackend, g, tRemote[g], tHead[g], tSpool[g])
  <2>1. tLock = k
    BY DEF StoresInv, LockInv, Inside, Doing
  <2>2. \A j \in Requests : Doing(tCall[j], "copy") => tCall[j].file # g
    BY <1>5, <2>1, OnlyInside
  <2> QED BY <2>2 DEF StoresInv, CleanInv
<1>6. new = IF tBackend = "git" THEN tHead ELSE [tRemote EXCEPT ![f] = tCall[k].content]
  BY DEF Stores!Copied
<1> HIDE DEF f, new
<1>7. new \in [Stores!Files -> Stores!Data] /\ new[f] = tCall[k].content
      /\ \A g \in Stores!Files \ {f} : new[g] = IF tBackend = "git" THEN tHead[g] ELSE tRemote[g]
  BY <1>1, <1>2, <1>6
<1>8. CopyFine(tBackend, f, new[f], tHead[f], tSpool[f], tAllowed[f])
  BY <1>1, <1>4, <1>7 DEF CopyFine
<1>9. ASSUME NEW g \in Stores!Files, g # f
      PROVE  CopyFine(tBackend, g, new[g], tHead[g], tSpool[g], tAllowed[g])
  <2>1. tHead[g] \in Stores!Data /\ new[g] = IF tBackend = "git" THEN tHead[g] ELSE tRemote[g]
    BY <1>2, <1>7, <1>9
  <2>2. CopyFine(tBackend, g, tRemote[g], tHead[g], tSpool[g], tAllowed[g])
    BY <1>4
  <2>3. tBackend = "git" => CopyIn(tBackend, g, tHead[g]) = tHead[g]
    BY <1>3, <2>1
  <2> QED BY <2>1, <2>2, <2>3 DEF CopyFine
<1>10. f \notin tDirty => Agree(tBackend, f, new[f], tHead[f], tSpool[f])
  <2>1. tBackend = "git" => CopyIn(tBackend, f, tSpool[f]) = tSpool[f]
    BY <1>1, <1>2, <1>3
  <2> QED BY <1>1, <1>7, <2>1 DEF Agree
<1>11. ASSUME NEW g \in Stores!Files \ tDirty, g # f
           PROVE Agree(tBackend, g, new[g], tHead[g], tSpool[g])
  <2>1. new[g] = IF tBackend = "git" THEN tHead[g] ELSE tRemote[g]
    BY <1>7, <1>11
  <2>2. tBackend = "git" => CopyIn(tBackend, g, tSpool[g]) = tSpool[g]
    BY <1>2, <1>3
  <2>3. Agree(tBackend, g, tRemote[g], tHead[g], tSpool[g])
    BY <1>5, <1>11
  <2> QED BY <2>1, <2>2, <2>3 DEF Agree
<1>12. /\ new \in [Stores!Files -> Stores!Data] /\ new[f] = tCall[k].content
       /\ \A g \in Stores!Files : CopyFine(tBackend, g, new[g], tHead[g], tSpool[g], tAllowed[g])
       /\ \A g \in Stores!Files \ tDirty : Agree(tBackend, g, new[g], tHead[g], tSpool[g])
  BY <1>7, <1>8, <1>9, <1>10, <1>11
<1> QED BY <1>12 DEF f, new

LEMMA CopyKeeps ==
    ASSUME Stores!BoundsAssumption, StoresInv, NEW k \in Requests, Stores!Copy(k)
    PROVE  StoresInv'
<1> DEFINE f == tCall[k].file
           end == End(tCall[k])
<1>1. Inside(tCall[k]) /\ Doing(tCall[k], "copy") /\ f \in Stores!Files
      /\ tCall[k].content \in Stores!Data
  BY CallTypes DEF Stores!Copy, Stores!At, Inside, Doing
<1>2. /\ end \in CallRec /\ end.steps \in Stores!Suffixes(Stores!Steps[tBackend][end.kind])
      /\ ~Inside(end)
      /\ FineThen(end)
  BY Ended
<1>3. /\ tRemote' = Stores!Copied(k) /\ tCall' = [tCall EXCEPT ![k] = end] /\ tLock' = NoState
      /\ UNCHANGED <<tBackend, tSpool, tHead, tCounts, tDirty>>
      /\ Stores!Acknowledge(k, f, tCall[k].content)
  BY DEF Stores!Copy, Stores!Unlock, End
<1>4. /\ Stores!Copied(k) \in [Stores!Files -> Stores!Data]
      /\ Stores!Copied(k)[f] = tCall[k].content
      /\ \A g \in Stores!Files :
             CopyFine(tBackend, g, Stores!Copied(k)[g], tHead[g], tSpool[g], tAllowed[g])
      /\ \A g \in Stores!Files \ tDirty :
             Agree(tBackend, g, Stores!Copied(k)[g], tHead[g], tSpool[g])
  BY <1>1, CopiedIs
<1>5. CopyIn(tBackend, f, tCall[k].content) = tCall[k].content
      /\ (tBackend = "git" => tHead[f] = tCall[k].content)
  BY <1>1, CallTypes DEF CallFine
<1> HIDE DEF f, end
<1>6. tSpool' \in [Stores!Files -> Stores!Data] /\ tBackend \in StoreBackends
      /\ tSpool'[f] \in Stores!Data /\ tSpool'[f] = tSpool[f]
  BY <1>1, <1>3 DEF StoresInv, Stores!TypeOK
<1>7. /\ tAllowed' \in [Stores!Files -> SUBSET Stores!Data] /\ StillAllowed(k)
      /\ CopyIn(tBackend, f, tCall[k].content) \in tAllowed'[f]
      /\ CopyIn(tBackend, f, tSpool'[f]) \in tAllowed'[f]
      /\ \A g \in Stores!Files \ {f} : tAllowed'[g] = tAllowed[g]
  BY <1>1, <1>3, <1>6, AcknowledgeDoes
<1>8. FilesTyped'
  BY <1>3, <1>4, <1>7 DEF StoresInv, Stores!TypeOK, FilesTyped
<1>9. CopyInv'
  <2>1. tBackend = "git" => CopyIn(tBackend, f, tSpool'[f]) = tSpool'[f]
    BY <1>1, <1>6, CopyFacts
  <2>2. CopyFine(tBackend, f, Stores!Copied(k)[f], tHead[f], tSpool'[f], tAllowed'[f])
    BY <1>1, <1>4, <1>5, <1>7, <2>1 DEF CopyFine
  <2> QED BY <1>3, <1>4, <1>7, <2>2 DEF CopyInv
<1>10. CleanInv'
  BY <1>3, <1>4 DEF CleanInv
<1> QED BY <1>1, <1>2, <1>3, <1>7, <1>8, <1>9, <1>10, LeavesKeeps

LEMMA CopyFailsKeeps ==
    ASSUME Stores!BoundsAssumption, StoresInv, NEW k \in Requests, Stores!CopyFails(k)
    PROVE  StoresInv'
<1> DEFINE f == tCall[k].file
           end == End(tCall[k])
<1>1. Inside(tCall[k]) /\ Doing(tCall[k], "copy") /\ f \in Stores!Files
  BY CallTypes DEF Stores!CopyFails, Stores!At, Inside, Doing
<1>2. /\ end \in CallRec /\ end.steps \in Stores!Suffixes(Stores!Steps[tBackend][end.kind])
      /\ ~Inside(end)
      /\ FineThen(end)
  BY Ended
<1>3. /\ tRemote' \in {tRemote, Stores!Copied(k)} /\ tCall' = [tCall EXCEPT ![k] = end]
      /\ tLock' = NoState
      /\ UNCHANGED <<tBackend, tSpool, tHead, tCounts, tAllowed>> /\ tDirty' = tDirty \cup {f}
  BY DEF Stores!CopyFails, Stores!Unlock, End
<1>4. /\ Stores!Copied(k) \in [Stores!Files -> Stores!Data]
      /\ \A g \in Stores!Files :
             CopyFine(tBackend, g, Stores!Copied(k)[g], tHead[g], tSpool[g], tAllowed[g])
      /\ \A g \in Stores!Files \ tDirty :
             Agree(tBackend, g, Stores!Copied(k)[g], tHead[g], tSpool[g])
  BY <1>1, CopiedIs
<1>5. tLock = k
  BY <1>1 DEF StoresInv, LockInv
<1>6. \A j \in Requests : Doing(tCall[j], "copy") => tCall[j].file = f
  BY <1>5, OnlyInside
<1> HIDE DEF f, end
<1>7. FilesTyped'
  BY <1>1, <1>3, <1>4 DEF StoresInv, Stores!TypeOK, FilesTyped
<1>8. CopyInv'
  BY <1>3, <1>4 DEF StoresInv, CopyInv
<1>9. CleanInv'
  <2>1. \A g \in Stores!Files \ tDirty' : Agree(tBackend, g, tRemote[g], tHead[g], tSpool[g])
    BY <1>3, <1>6 DEF StoresInv, CleanInv
  <2> QED BY <1>3, <1>4, <2>1 DEF CleanInv
<1>10. UNCHANGED <<tBackend, tCounts>> /\ StillAllowed(k)
  BY <1>3, GrowingAllows
<1> QED BY <1>1, <1>2, <1>3, <1>7, <1>8, <1>9, <1>10, LeavesKeeps

(* Others only make the file dirty. *)
LEMMA WriteBehindKeeps ==
    ASSUME Stores!BoundsAssumption, StoresInv, NEW f \in Stores!Files, NEW data \in Stores!Data,
           Stores!WriteBehind(f, data)
    PROVE  StoresInv'
<1>1. /\ UNCHANGED <<tBackend, tHead, tRemote, tLock, tCall>> /\ tDirty' = tDirty \cup {f}
      /\ tSpool' = [tSpool EXCEPT ![f] = data]
      /\ tAllowed' = [tAllowed EXCEPT ![f] = tAllowed[f] \cup {Stores!CopyOf(f, data)}]
      /\ tCounts' = [tCounts EXCEPT !.writes = @ + 1] /\ tCounts.writes < MaxStoreWrites
  BY DEF Stores!WriteBehind
<1>2. Stores!CopyOf(f, data) = CopyIn(tBackend, f, data) /\ Stores!CopyOf(f, data) \in Stores!Data
      /\ (tBackend = "git" => Stores!CopyOf(f, data) = data)
  BY CopyOfIs, CopyFacts DEF StoresInv, Stores!TypeOK
<1>3. /\ FilesTyped'
      /\ tSpool'[f] = data /\ \A g \in Stores!Files \ {f} : tSpool'[g] = tSpool[g]
      /\ Stores!CopyOf(f, data) \in tAllowed'[f]
      /\ \A g \in Stores!Files : tAllowed[g] \subseteq tAllowed'[g]
  BY <1>1, <1>2 DEF StoresInv, Stores!TypeOK, FilesTyped
<1>4. Stores!TypeOK'
  <2>1. tCounts \in [calls : 0..MaxStoreCalls, writes : 0..MaxStoreWrites,
            restarts : 0..MaxStoreRestarts]
    BY DEF StoresInv, Stores!TypeOK
  <2>2. tCounts.writes + 1 \in 0..MaxStoreWrites
    BY <1>1, <2>1 DEF Stores!BoundsAssumption
  <2>3. tCounts' \in [calls : 0..MaxStoreCalls, writes : 0..MaxStoreWrites,
            restarts : 0..MaxStoreRestarts]
    BY <1>1, <2>1, <2>2
  <2> QED BY <1>1, <1>3, <2>3 DEF StoresInv, Stores!TypeOK, FilesTyped
<1>5. WayInv' /\ LockInv'
  BY <1>1 DEF StoresInv, WayInv, LockInv
<1>6. CallInv'
  <2> SUFFICES ASSUME NEW k \in Requests
               PROVE  CallFine(tBackend, tCall[k], tAllowed'[tCall[k].file], tHead[tCall[k].file],
                               tSpool'[tCall[k].file], tCall[k].file \notin tDirty')
    BY <1>1 DEF CallInv
  <2>1. /\ tCall[k].file \in Stores!Files
        /\ CallFine(tBackend, tCall[k], tAllowed[tCall[k].file], tHead[tCall[k].file],
                    tSpool[tCall[k].file], tCall[k].file \notin tDirty)
    BY CallTypes
  <2>2. tCall[k].file \notin tDirty' => tCall[k].file \notin tDirty
                                      /\ tSpool'[tCall[k].file] = tSpool[tCall[k].file]
    BY <1>1, <1>3, <2>1
  <2>3. tAllowed[tCall[k].file] \subseteq tAllowed'[tCall[k].file]
    BY <1>3, <2>1
  <2> QED BY <2>1, <2>2, <2>3 DEF CallFine
<1>7. CopyInv'
  BY <1>1, <1>2, <1>3 DEF StoresInv, CopyInv, CopyFine
<1>8. CleanInv'
  BY <1>1, <1>3 DEF StoresInv, CleanInv
<1> QED BY <1>4, <1>5, <1>6, <1>7, <1>8 DEF StoresInv

(* The start finds for a file what it can: its copy, or what was there. *)
LEMMA RestartKeeps ==
    ASSUME Stores!BoundsAssumption, StoresInv, Stores!Restart
    PROVE  StoresInv'
<1>1. PICK kept \in {tSpool, IF tBackend = "git" THEN tRemote
          ELSE [f \in Stores!Files |-> Stores!Absent]} :
          LET seeded == IF tBackend = "git" THEN kept[StoredConfig] = Stores!Absent
              ELSE tRemote[StoredConfig] = Stores!Absent
              copied == IF seeded THEN {StoredConfig} ELSE {}
              behind == {f \in Stores!Files : \E k \in Requests : tCall[k].file = f
                  /\ Stores!At(k, "copy")}
          IN /\ tSpool' = Stores!Bootstrapped(kept)
             /\ tHead' = IF tBackend # "git" THEN tHead
                        ELSE [f \in Stores!Files |-> IF f \in copied THEN tSpool'[f]
                                              ELSE IF kept = tSpool THEN tHead[f] ELSE tRemote[f]]
             /\ tRemote' = IF tBackend = "git" /\ seeded THEN tHead'
                          ELSE [f \in Stores!Files |->
                              IF f \in copied THEN Stores!CopyOf(f, tSpool'[f]) ELSE tRemote[f]]
             /\ tAllowed' = [f \in Stores!Files |->
                    IF f \in copied THEN tAllowed[f] \cup {tRemote'[f]} ELSE tAllowed[f]]
             /\ tDirty' = {f \in (tDirty \cup behind) \ copied :
                             CASE tBackend = "postgres" -> FALSE
                               [] tBackend = "object" -> tRemote[f] = Stores!Absent
                               [] tBackend = "git" -> kept = tSpool}
  BY DEF Stores!Restart
<1> DEFINE seeded == IF tBackend = "git" THEN kept[StoredConfig] = Stores!Absent
               ELSE tRemote[StoredConfig] = Stores!Absent
           behind == {f \in Stores!Files : \E k \in Requests : tCall[k].file = f
               /\ Doing(tCall[k], "copy")}
           Copied1(f) == seeded /\ f = StoredConfig
<1>2. tBackend \in StoreBackends /\ tBackend \in {"postgres", "object", "git"}
      /\ tBackend' = tBackend
      /\ StoredConfig \in Stores!Files /\ Stores!Absent \in Stores!Data
      /\ Stores!Empty \in Stores!Data /\ StoredTemplate \in Stores!Data
      /\ StoredTemplate # Stores!Absent /\ StoredTemplate # Stores!Empty
      /\ Stores!Absent # Stores!Empty
  BY DEF Stores!Restart, StoresInv, Stores!TypeOK, Stores!BoundsAssumption, Stores!Data,
     Stores!Files, Stores!Absent, Stores!Empty
<1>3. /\ tSpool \in [Stores!Files -> Stores!Data] /\ tHead \in [Stores!Files -> Stores!Data]
      /\ tRemote \in [Stores!Files -> Stores!Data]
      /\ tAllowed \in [Stores!Files -> SUBSET Stores!Data] /\ tDirty \subseteq Stores!Files
      /\ kept \in [Stores!Files -> Stores!Data]
  BY <1>2 DEF StoresInv, Stores!TypeOK
<1>4. /\ tSpool' = Stores!Bootstrapped(kept)
      /\ tHead' = IF tBackend # "git" THEN tHead
                 ELSE [f \in Stores!Files |-> IF Copied1(f) THEN tSpool'[f]
                                       ELSE IF kept = tSpool THEN tHead[f] ELSE tRemote[f]]
      /\ tRemote' = IF tBackend = "git" /\ seeded THEN tHead'
                   ELSE [f \in Stores!Files |->
                       IF Copied1(f) THEN CopyIn(tBackend, f, tSpool'[f]) ELSE tRemote[f]]
      /\ tAllowed' = [f \in Stores!Files |->
             IF Copied1(f) THEN tAllowed[f] \cup {tRemote'[f]} ELSE tAllowed[f]]
      /\ \A f \in Stores!Files : f \in tDirty' <=>
            /\ f \in tDirty \cup behind /\ ~Copied1(f)
            /\ tBackend = "postgres" => FALSE
            /\ tBackend = "object" => tRemote[f] = Stores!Absent
            /\ tBackend = "git" => kept = tSpool
      /\ tDirty' \subseteq Stores!Files
  <2>1. behind = {f \in Stores!Files : \E k \in Requests : tCall[k].file = f
            /\ Stores!At(k, "copy")}
    BY DEF Stores!At, Doing
  <2>2. \A f : Copied1(f) <=> f \in (IF seeded THEN {StoredConfig} ELSE {})
    OBVIOUS
  <2> DEFINE copied == IF seeded THEN {StoredConfig} ELSE {}
  <2>3. \A f \in Stores!Files : Stores!CopyOf(f, tSpool'[f]) = CopyIn(tBackend, f, tSpool'[f])
    BY CopyOfIs
  <2>4. tSpool' = Stores!Bootstrapped(kept)
    BY <1>1
  <2>5. tHead' = IF tBackend # "git" THEN tHead
                 ELSE [f \in Stores!Files |-> IF Copied1(f) THEN tSpool'[f]
                                       ELSE IF kept = tSpool THEN tHead[f] ELSE tRemote[f]]
    BY <1>1, <2>2
  <2>6. tRemote' = IF tBackend = "git" /\ seeded THEN tHead'
                   ELSE [f \in Stores!Files |->
                       IF Copied1(f) THEN CopyIn(tBackend, f, tSpool'[f]) ELSE tRemote[f]]
    BY <1>1, <2>2, <2>3
  <2>7. tAllowed' = [f \in Stores!Files |->
            IF Copied1(f) THEN tAllowed[f] \cup {tRemote'[f]} ELSE tAllowed[f]]
    BY <1>1, <2>2
  <2>8. tDirty' = {f \in (tDirty \cup behind) \ copied :
                             CASE tBackend = "postgres" -> FALSE
                               [] tBackend = "object" -> tRemote[f] = Stores!Absent
                               [] tBackend = "git" -> kept = tSpool}
    BY <1>1, <2>1
  <2>9. /\ \A f \in Stores!Files : f \in tDirty' <=>
              /\ f \in tDirty \cup behind /\ ~Copied1(f)
              /\ tBackend = "postgres" => FALSE
              /\ tBackend = "object" => tRemote[f] = Stores!Absent
              /\ tBackend = "git" => kept = tSpool
        /\ tDirty' \subseteq Stores!Files
    BY <1>2, <1>3, <2>2, <2>8
  <2> QED BY <2>4, <2>5, <2>6, <2>7, <2>9
<1>5. \A f \in Stores!Files : \A d \in Stores!Data : CopyIn(tBackend, f, d) \in Stores!Data
         /\ CopyIn(tBackend, f, CopyIn(tBackend, f, d)) = CopyIn(tBackend, f, d)
         /\ (tBackend = "git" => CopyIn(tBackend, f, d) = d)
  BY <1>2, CopyFacts
<1>6. \A f \in Stores!Files : CopyFine(tBackend, f, tRemote[f], tHead[f], tSpool[f], tAllowed[f])
  BY DEF StoresInv, CopyInv
<1>7. \A f \in Stores!Files :
          f \notin tDirty \cup behind => Agree(tBackend, f, tRemote[f], tHead[f], tSpool[f])
  BY DEF StoresInv, CleanInv
<1>8. \A f \in Stores!Files : tSpool'[f] = IF tBackend = "git" THEN Stores!OpenRepository(kept, f)
                                   ELSE IF f = StoredConfig THEN Stores!SyncConfig(kept)
                                   ELSE IF tBackend = "postgres"
                                       THEN Stores!SyncAuthFromDatabase(kept, f)
                                   ELSE Stores!SyncAuthFromBucket(kept, f)
  BY <1>4 DEF Stores!Bootstrapped
<1>9. \A f \in Stores!Files : tSpool'[f] \in Stores!Data
  BY <1>2, <1>3, <1>8
     DEF Stores!OpenRepository, Stores!SyncConfig, Stores!SyncAuthFromDatabase,
         Stores!SyncAuthFromBucket
<1> HIDE DEF seeded, behind
<1>10. tSpool' \in [Stores!Files -> Stores!Data]
  BY <1>4, <1>9 DEF Stores!Bootstrapped
<1>11. tHead' \in [Stores!Files -> Stores!Data]
  BY <1>3, <1>4, <1>9
<1>12. tRemote' \in [Stores!Files -> Stores!Data]
  BY <1>3, <1>4, <1>5, <1>9, <1>11
<1>13. tAllowed' \in [Stores!Files -> SUBSET Stores!Data]
  BY <1>3, <1>4, <1>12
<1>14. FilesTyped'
  BY <1>4, <1>10, <1>11, <1>12, <1>13 DEF FilesTyped
<1>15. tCall' = [k \in Requests |-> Stores!Idle] /\ tLock' = NoState
       /\ tCounts' = [tCounts EXCEPT !.restarts = @ + 1] /\ tCounts.restarts < MaxStoreRestarts
  BY DEF Stores!Restart
<1>16. Stores!TypeOK' /\ WayInv'
  <2>1. Stores!Idle \in CallRec /\ Stores!Idle.steps = <<>>
        /\ Stores!Idle.kind \in Stores!CallKinds
    BY <1>2 DEF Stores!Idle, CallRec, Stores!CallKinds
  <2>2. <<>> \in Stores!Suffixes(Stores!Steps[tBackend][Stores!Idle.kind])
    BY <2>1, FirstStep DEF StoresInv
  <2>3. tCall' \in [Requests -> CallRec]
        /\ \A k \in Requests :
               tCall'[k].steps \in Stores!Suffixes(Stores!Steps[tBackend'][tCall'[k].kind])
    BY <1>2, <1>15, <2>1, <2>2
  <2>4. tCounts \in [calls : 0..MaxStoreCalls, writes : 0..MaxStoreWrites,
            restarts : 0..MaxStoreRestarts]
    BY DEF StoresInv, Stores!TypeOK
  <2>5. tCounts.restarts + 1 \in 0..MaxStoreRestarts
    BY <1>15, <2>4 DEF Stores!BoundsAssumption
  <2>6. tCounts' \in [calls : 0..MaxStoreCalls, writes : 0..MaxStoreWrites,
            restarts : 0..MaxStoreRestarts]
    BY <1>15, <2>4, <2>5
  <2> QED BY <1>2, <1>14, <1>15, <2>3, <2>6 DEF Stores!TypeOK, WayInv, FilesTyped, CallRec
<1>17. LockInv' /\ CallInv'
  BY <1>15 DEF LockInv, CallInv, Inside, CallFine, Doing, Stores!Idle
<1>18. \A f \in Stores!Files :
          /\ tRemote'[f] = IF tBackend = "git" /\ seeded THEN tHead'[f]
                          ELSE IF Copied1(f) THEN CopyIn(tBackend, f, tSpool'[f]) ELSE tRemote[f]
          /\ tHead'[f] = IF tBackend # "git" THEN tHead[f]
                        ELSE IF Copied1(f) THEN tSpool'[f]
                        ELSE IF kept = tSpool THEN tHead[f] ELSE tRemote[f]
          /\ tAllowed'[f] = IF Copied1(f) THEN tAllowed[f] \cup {tRemote'[f]} ELSE tAllowed[f]
  BY <1>4
<1>19. CopyInv'
  <2> SUFFICES ASSUME NEW f \in Stores!Files
               PROVE  CopyFine(tBackend, f, tRemote'[f], tHead'[f], tSpool'[f], tAllowed'[f])
    BY <1>2 DEF CopyInv
  <2>1. CopyFine(tBackend, f, tRemote[f], tHead[f], tSpool[f], tAllowed[f])
    BY <1>6
  <2>2. tSpool'[f] \in Stores!Data /\ tHead'[f] \in Stores!Data /\ tSpool[f] \in Stores!Data
        /\ tHead[f] \in Stores!Data
        /\ tRemote[f] \in Stores!Data
    BY <1>3, <1>10, <1>11
  <2>3. CASE tBackend # "git"
    BY <1>5, <1>18, <2>1, <2>2, <2>3 DEF CopyFine
  <2>4. CASE tBackend = "git"
    <3>1. CopyIn(tBackend, f, tRemote'[f]) = tRemote'[f]
          /\ CopyIn(tBackend, f, tRemote[f]) = tRemote[f]
      BY <1>5, <1>12, <2>2, <2>4
    <3>2. kept = tSpool \/ kept = tRemote
      BY <1>1, <2>4
    <3>3. CASE Copied1(f)
      <4>1. tHead'[f] = tSpool'[f] /\ tRemote'[f] = tHead'[f] /\ tRemote'[f] \in tAllowed'[f]
        BY <1>18, <2>4, <3>3
      <4> QED BY <3>1, <4>1 DEF CopyFine
    <3>4. CASE ~Copied1(f)
      <4>1. tSpool'[f] = kept[f]
        BY <1>8, <2>4, <3>4 DEF Stores!OpenRepository, seeded
      <4>2. tHead'[f] \in {tHead[f], tRemote[f]} /\ tRemote'[f] \in {tHead'[f], tRemote[f]}
            /\ tAllowed'[f] = tAllowed[f]
        BY <1>18, <2>4, <3>4
      <4>3. tRemote[f] \in tAllowed[f] /\ tHead[f] \in tAllowed[f] /\ tSpool[f] \in tAllowed[f]
        BY <2>1, <2>4 DEF CopyFine
      <4> QED BY <2>4, <3>1, <3>2, <4>1, <4>2, <4>3 DEF CopyFine
    <3> QED BY <3>3, <3>4
  <2> QED BY <2>3, <2>4
<1>20. CleanInv'
  <2> SUFFICES ASSUME NEW f \in Stores!Files, f \notin tDirty'
               PROVE  Agree(tBackend, f, tRemote'[f], tHead'[f], tSpool'[f])
    BY <1>2 DEF CleanInv
  <2>1. CopyFine(tBackend, f, tRemote[f], tHead[f], tSpool[f], tAllowed[f])
        /\ (f \notin tDirty \cup behind => Agree(tBackend, f, tRemote[f], tHead[f], tSpool[f]))
    BY <1>6, <1>7
  <2>2. tSpool'[f] \in Stores!Data /\ tSpool[f] \in Stores!Data /\ tRemote[f] \in Stores!Data
        /\ kept[f] \in Stores!Data
    BY <1>3, <1>10
  <2>3. CASE Copied1(f)
    <3>1. tBackend = "git" => CopyIn(tBackend, f, tSpool'[f]) = tSpool'[f]
      BY <1>5, <2>2
    <3> QED BY <1>18, <2>3, <3>1 DEF Agree
  <2>4. CASE ~Copied1(f) /\ tBackend = "postgres"
    <3>1. tRemote'[f] = tRemote[f] /\ tSpool'[f] = tRemote[f]
      BY <1>8, <1>18, <2>4 DEF Stores!SyncAuthFromDatabase, Stores!SyncConfig, seeded
    <3> QED BY <2>1, <2>4, <3>1 DEF Agree, CopyFine
  <2>5. CASE ~Copied1(f) /\ tBackend = "object"
    <3>1. tRemote'[f] = tRemote[f]
          /\ tSpool'[f] = IF tRemote[f] # Stores!Absent THEN tRemote[f] ELSE kept[f]
      BY <1>8, <1>18, <2>5 DEF Stores!SyncAuthFromBucket, Stores!SyncConfig, seeded
    <3>2. CASE tRemote[f] # Stores!Absent
      BY <2>1, <2>5, <3>1, <3>2 DEF Agree, CopyFine
    <3>3. CASE tRemote[f] = Stores!Absent
      <4>1. f \notin tDirty \cup behind
        BY <1>4, <2>5, <3>3
      <4>2. kept[f] = tSpool[f] \/ kept[f] = Stores!Absent
        BY <1>1, <2>5
      <4>3. CopyIn(tBackend, f, Stores!Absent) = Stores!Absent
        BY <1>2, CopyFacts
      <4> QED BY <2>1, <2>5, <3>1, <3>3, <4>1, <4>2, <4>3 DEF Agree
    <3> QED BY <3>2, <3>3
  <2>6. CASE ~Copied1(f) /\ tBackend = "git"
    <3>1. tSpool'[f] = kept[f] /\ tHead'[f] = (IF kept = tSpool THEN tHead[f] ELSE tRemote[f])
      BY <1>8, <1>18, <2>6 DEF Stores!OpenRepository, seeded
    <3>2. tRemote'[f] = IF seeded THEN tHead'[f] ELSE tRemote[f]
      BY <1>18, <2>6
    <3>3. \A d \in Stores!Data : CopyIn(tBackend, f, d) = d
      BY <1>5, <2>6
    <3>4. CASE kept = tSpool
      <4>1. f \notin tDirty \cup behind
        BY <1>4, <2>6, <3>4
      <4>2. tRemote[f] = tSpool[f] /\ tHead[f] = tSpool[f]
        BY <2>1, <2>2, <2>6, <3>3, <4>1 DEF Agree
      <4> QED BY <2>2, <3>1, <3>2, <3>3, <3>4, <4>2 DEF Agree
    <3>5. CASE kept # tSpool
      <4>1. kept = tRemote
        BY <1>1, <2>6, <3>5
      <4> QED BY <2>2, <3>1, <3>2, <3>3, <3>5, <4>1 DEF Agree
    <3> QED BY <3>4, <3>5
  <2> QED BY <1>2, <2>3, <2>4, <2>5, <2>6
<1> QED BY <1>16, <1>17, <1>19, <1>20 DEF StoresInv

LEMMA InitFine ==
    ASSUME Stores!BoundsAssumption, Stores!Init PROVE StoresInv
<1>1. PICK stored \in [Stores!Files -> {Stores!Absent, StoredTemplate}] :
          /\ stored[StoredConfig] = StoredTemplate
          /\ tSpool = stored /\ tRemote = stored
          /\ tHead = stored
          /\ tAllowed = [f \in Stores!Files |-> {stored[f]}]
  BY DEF Stores!Init
<1>2. /\ tBackend \in StoreBackends /\ tLock = NoState /\ tDirty = {}
      /\ tCall = [k \in Requests |-> Stores!Idle]
      /\ tCounts = [calls |-> 0, writes |-> 0, restarts |-> 0] /\ StoredConfig \in Stores!Files
      /\ Stores!Absent \in Stores!Data /\ StoredTemplate \in Stores!Data
      /\ StoredTemplate # Stores!Empty /\ Stores!Absent # Stores!Empty
      /\ tBackend \in {"postgres", "object", "git"}
  BY DEF Stores!Init, Stores!BoundsAssumption, Stores!Data, Stores!Files, Stores!Absent,
     Stores!Empty
<1>3. \A f \in Stores!Files : CopyIn(tBackend, f, stored[f]) = stored[f]
  BY <1>2 DEF CopyIn, Stores!PostgresCopy, Stores!ObjectCopy
<1>4. Stores!Idle \in CallRec /\ Stores!Idle.steps = <<>> /\ Stores!Idle.kind \in Stores!CallKinds
  BY <1>2 DEF Stores!Idle, CallRec, Stores!CallKinds
<1>5. Stores!TypeOK /\ WayInv
  <2>1. <<>> \in Stores!Suffixes(Stores!Steps[tBackend][Stores!Idle.kind])
    BY DEF Stores!Suffixes
  <2>2. tCall \in [Requests -> CallRec]
        /\ \A k \in Requests :
               tCall[k].steps \in Stores!Suffixes(Stores!Steps[tBackend][tCall[k].kind])
    BY <1>2, <1>4, <2>1
  <2>3. tCounts \in [calls : 0..MaxStoreCalls, writes : 0..MaxStoreWrites,
            restarts : 0..MaxStoreRestarts]
    BY <1>2 DEF Stores!BoundsAssumption
  <2>4. /\ tSpool \in [Stores!Files -> Stores!Data] /\ tHead \in [Stores!Files -> Stores!Data]
        /\ tRemote \in [Stores!Files -> Stores!Data]
        /\ tAllowed \in [Stores!Files -> SUBSET Stores!Data]
    BY <1>1, <1>2
  <2> QED BY <1>2, <2>2, <2>3, <2>4 DEF Stores!TypeOK, WayInv, CallRec
<1>6. LockInv /\ CallInv
  BY <1>2 DEF LockInv, CallInv, Inside, CallFine, Doing, Stores!Idle
<1>7. CopyInv /\ CleanInv
  BY <1>1, <1>2, <1>3 DEF CopyInv, CleanInv, CopyFine, Agree
<1> QED BY <1>5, <1>6, <1>7 DEF StoresInv

LEMMA NextKeeps ==
    ASSUME Stores!BoundsAssumption, StoresInv, Stores!Next PROVE StoresInv'
<1>1. ASSUME NEW k \in Requests, Stores!Save(k) \/ Stores!Delete(k) \/ Stores!PersistAuthFiles(k)
          \/ Stores!PersistConfig(k)
      PROVE  StoresInv'
  <2>1. \A f \in StoredAuths : f \in Stores!Files
    BY DEF Stores!Files
  <2>2. StoredConfig \in Stores!Files /\ Stores!Absent \in Stores!Data
        /\ StoredContents \subseteq Stores!Data
        /\ {"save", "delete", "auths", "config"} = Stores!CallKinds
    BY DEF Stores!Files, Stores!Data, Stores!CallKinds
  <2> QED BY <1>1, <2>1, <2>2, BeginKeeps
          DEF Stores!Save, Stores!Delete, Stores!PersistAuthFiles, Stores!PersistConfig
<1> QED BY <1>1, SaveOfGoneKeeps, EnsureRepositoryKeeps, LockKeeps, WriteFileKeeps,
           SaveUnchangedKeeps, RemoveFileKeeps, FileFailsKeeps, ReadFileKeeps, CommitKeeps,
           CopyKeeps, CopyFailsKeeps, WriteBehindKeeps, RestartKeeps DEF Stores!Next

LEMMA StoresFine ==
    ASSUME StoresInv PROVE Stores!TypeOK /\ Stores!AcknowledgedIsKept /\ Stores!CopiesAgree
<1>1. \A f \in Stores!Files : CopyIn(tBackend, f, tSpool[f]) = Stores!CopyOf(f, tSpool[f])
  BY CopyOfIs
<1>2. Stores!CopiesAgree
  BY <1>1 DEF StoresInv, CleanInv, Stores!CopiesAgree, Stores!AtRest, Doing, Agree, Stores!Settled
<1> QED BY <1>2 DEF StoresInv, CopyInv, CopyFine, Stores!AcknowledgedIsKept

LEMMA StoresStep ==
    ASSUME StoresInv, [BooksNext]_<<part, vars, registry, stores>> PROVE StoresInv'
<1>1. CASE StoresPart
  BY <1>1, StoresAssumption, NextKeeps DEF StoresPart
<1>2. CASE UNCHANGED stores
  <2>1. UNCHANGED <<tBackend, tSpool, tHead, tRemote, tLock, tCall, tCounts, tDirty, tAllowed>>
    BY <1>2 DEF stores
  <2> QED BY <2>1 DEF StoresInv, Stores!TypeOK, WayInv, LockInv, CallInv, CopyInv, CleanInv
<1> QED BY <1>1, <1>2 DEF BooksNext, ConductorPart, RegistryPart, StoresAtRest

(* Whatever files, contents, goroutines and stores there are, and however   *)
(* often calls are made, repeated, fail and are cut by a restart: once a    *)
(* call has answered, the copy is what it asked for or something newer,     *)
(* also after a start, and at rest a file and its copy agree (Save, Delete  *)
(* and PersistAuthFiles of postgresstore.go 189, objectstore.go 159 and     *)
(* gitstore.go 216).  Where the last change of a file has not reached its   *)
(* copy, a call that finds the file as it wants it promises nothing.        *)
THEOREM CopiesStayKept == BooksSpec => []CopiesKept
<1>1. BooksInit => StoresInv
  BY StoresAssumption, InitFine DEF BooksInit
<1>2. StoresInv /\ [BooksNext]_<<part, vars, registry, stores>> => StoresInv'
  BY StoresStep
<1>3. StoresInv => CopiesKept
  BY StoresFine DEF CopiesKept
<1> QED BY <1>1, <1>2, <1>3, PTL DEF BooksSpec
=============================================================================
