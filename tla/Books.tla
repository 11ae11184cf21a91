--------------------------------- MODULE Books --------------------------------
(***************************************************************************)
(* The books kept of every credential: the conductor's own model states    *)
(* (AuthConductor, extended), the registry's counters and marks            *)
(* (ModelRegistry) and the copies of its file that a store keeps           *)
(* (TokenStores).  What the conductor tells the registry after a result    *)
(* may come at any time, after the client is gone or registered anew, so   *)
(* the registry is checked against reports of any client it knew; and what *)
(* a store is asked to save may be anything.  So they are checked beside   *)
(* each other without sharing state: "part" says which of them moves in a  *)
(* behaviour, the others rest in their initial states.                     *)
(***************************************************************************)
EXTENDS MCAuthConductor

CONSTANTS
    \* ModelRegistry, whose models are not the conductor's
    Clients, RegistryModels, Providers, Reporters, MaxCopies, ProviderChoices, Outcomes, NoProvider,
    \* TokenStores
    StoredAuths, StoredConfig, StoredContents, StoredTemplate, StoreBackends,
    MaxStoreCalls, MaxStoreWrites, MaxStoreRestarts

VARIABLES
    part,
    \* ModelRegistry
    models, clientModels, clientProvider, pending,
    \* TokenStores
    tBackend, tSpool, tHead, tRemote, tLock, tCall, tCounts, tDirty, tAllowed

Registry == INSTANCE ModelRegistry WITH Models <- RegistryModels, NoModel <- NoState

ASSUME RegistryAssumption == Registry!SettingsAssumption

(* The goroutines that call a store; like requests they are interchangeable. *)
Stores == INSTANCE TokenStores WITH
    Auths <- StoredAuths, Config <- StoredConfig, Contents <- StoredContents,
    Template <- StoredTemplate, Callers <- Requests, Backends <- StoreBackends,
    MaxCalls <- MaxStoreCalls, MaxWrites <- MaxStoreWrites, MaxRestarts <- MaxStoreRestarts,
    None <- NoState,
    backend <- tBackend, spool <- tSpool, head <- tHead, remote <- tRemote, lock <- tLock,
    call <- tCall, counts <- tCounts, dirty <- tDirty, allowed <- tAllowed

ASSUME StoresAssumption == Stores!BoundsAssumption

registry == <<models, clientModels, clientProvider, pending>>
stores == <<tBackend, tSpool, tHead, tRemote, tLock, tCall, tCounts, tDirty, tAllowed>>

BooksInit ==
    /\ part \in {"conductor", "registry", "stores"}
    /\ Init /\ Registry!Init /\ Stores!Init
    /\ part # "stores" => /\ tBackend = CHOOSE b \in StoreBackends : TRUE
                          /\ \A f \in StoredAuths : tSpool[f] = Stores!Absent

ConductorPart == part = "conductor" /\ Next /\ UNCHANGED <<part, registry, stores>>
RegistryPart == part = "registry" /\ Registry!Next /\ UNCHANGED <<part, vars, stores>>
StoresPart == part = "stores" /\ Stores!Next /\ UNCHANGED <<part, vars, registry>>

(* The calls of the bound are made, and every one of them has ended.        *)
StoresAtRest ==
    /\ part = "stores" /\ tCounts.calls = MaxStoreCalls /\ \A k \in Requests : Stores!AtRest(k)
    /\ UNCHANGED <<part, vars, registry, stores>>

BooksNext == ConductorPart \/ RegistryPart \/ StoresPart \/ StoresAtRest

BooksSpec == BooksInit /\ [][BooksNext]_<<part, vars, registry, stores>>

-----------------------------------------------------------------------------
(* For TLC: a list may name the first of two models twice. *)
FirstTwice == [x |-> 2, y |-> 1]

-----------------------------------------------------------------------------
(* The registry's reference counters never drift from the clients' lists,   *)
(* in all and per provider, and what it lists can be routed (ModelRegistry, *)
(* whose variables keep their types).                                       *)
BooksMatchClients ==
    part = "registry" =>
        /\ Registry!TypeOK
        /\ Registry!CountsMatchClients /\ Registry!ProvidersMatchClients /\ Registry!ListedIsServed

(* A registration leaves the marks of the other clients (ModelRegistry).    *)
OthersKeepMarks == Registry!OthersKeepMarks

(* The copy of a file is what was acknowledged last, or newer, and at rest   *)
(* it agrees with the file (TokenStores, whose variables keep their types). *)
CopiesKept ==
    part = "stores" => Stores!TypeOK /\ Stores!AcknowledgedIsKept /\ Stores!CopiesAgree
=============================================================================
