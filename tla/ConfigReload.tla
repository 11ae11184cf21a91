----------------------------- MODULE ConfigReload -----------------------------
(***************************************************************************)
(* From an edited configuration file to the configuration that is served:  *)
(* internal/watcher (config_reload.go, triggerServerUpdate and its callers *)
(* in clients.go) and reloadCallback of sdk/cliproxy/service.go.           *)
(*                                                                         *)
(* Workers: the goroutine of processEvents, which debounces the reloads    *)
(* and asks for a server update after each change of an auth file; the     *)
(* goroutines of the reload timer, which may overlap; the goroutine of the *)
(* server update's timer.  The file's content is the number of the edit.   *)
(***************************************************************************)
EXTENDS Naturals

CONSTANTS
    Reloaders,  \* goroutines the reload timer may have running
    MaxEdits,   \* edits of the file (bound)
    Assume,     \* what is assumed of the timing, see Assumptions
    NoHash, Default, Handler, Deferred

Assumptions ==
    {"edits_apart",    \* no edit while a reload has read the file and is not done
     "updates_apart"}  \* one configuration at a time on its way to reloadCallback

NamesAssumption ==
    /\ MaxEdits \in Nat /\ Default \notin 0..MaxEdits /\ NoHash \notin 0..MaxEdits
    /\ Handler # Deferred /\ Handler \notin Reloaders /\ Deferred \notin Reloaders

Workers == Reloaders \cup {Handler, Deferred}
Configs == 0..MaxEdits \cup {Default}

Strategy(c) == IF c = Default THEN 0 ELSE c % 2  \* Routing.Strategy, normalised

VARIABLES
    file,      \* what the configuration file holds
    torn,      \* a write is under way: the file is empty
    notified,  \* fsnotify has reported a change of the file
    timer,     \* configReloadTimer is set
    hash,      \* lastConfigHash
    config,    \* the watcher's config
    job,       \* what each worker is doing
    recent,    \* serverUpdateLast is less than serverUpdateDebounce ago
    pend,      \* serverUpdatePend and its timer: none, set, or fired
    owed,      \* an auth file has changed and no callback has begun since
    served,    \* what the callback has set
    stopped,   \* Watcher.Stop
    crossed    \* a callback has begun before another was done

vars == <<file, torn, notified, timer, hash, config, job, recent, pend, owed, served, stopped, crossed>>

Picked == {"trigger", "taken", "reload", "previous", "apply", "serve"}
Job == [pc : {"idle", "check", "compare", "load", "install", "rehash"} \cup Picked,
        seen : 0..MaxEdits, cfg : Configs, prev : 0..1]
Idle == [pc |-> "idle", seen |-> 0, cfg |-> 0, prev |-> 0]

TypeOK ==
    /\ file \in 0..MaxEdits
    /\ {torn, notified, timer, recent, owed, stopped, crossed} \subseteq BOOLEAN
    /\ hash \in 0..MaxEdits \cup {NoHash}
    /\ config \in Configs
    /\ job \in [Workers -> Job]
    /\ pend \in {"none", "set", "fired"}
    /\ served \in [selector : 0..1, server : Configs, service : Configs]

Init ==
    /\ file = 0 /\ hash = NoHash /\ config = 0
    /\ served = [selector |-> 0, server |-> 0, service |-> 0]
    /\ job = [w \in Workers |-> Idle]
    /\ pend = "none"
    /\ torn = FALSE /\ notified = FALSE /\ timer = FALSE
    /\ recent = FALSE /\ owed = FALSE /\ stopped = FALSE /\ crossed = FALSE

-----------------------------------------------------------------------------
(* An editor or a management handler writes the file.                      *)
Truncate ==
    /\ ~torn /\ file < MaxEdits
    /\ "edits_apart" \in Assume => \A r \in Reloaders : job[r].pc = "idle"
    /\ torn' = TRUE /\ notified' = ~stopped
    /\ UNCHANGED <<file, timer, hash, config, job, recent, pend, owed, served, stopped, crossed>>

Write ==
    /\ torn
    /\ torn' = FALSE /\ file' = file + 1 /\ notified' = ~stopped
    /\ UNCHANGED <<timer, hash, config, job, recent, pend, owed, served, stopped, crossed>>

-----------------------------------------------------------------------------
(* scheduleConfigReload replaces the timer, if there is one. *)
ScheduleConfigReload ==
    /\ notified /\ job[Handler] = Idle
    /\ notified' = FALSE /\ timer' = TRUE
    /\ UNCHANGED <<file, torn, hash, config, job, recent, pend, owed, served, stopped, crossed>>

ConfigTimerFires(r) ==
    /\ timer /\ job[r] = Idle
    /\ "edits_apart" \in Assume => ~torn
    /\ timer' = FALSE
    /\ job' = [job EXCEPT ![r].pc = "check"]
    /\ UNCHANGED <<file, torn, notified, hash, config, recent, pend, owed, served, stopped, crossed>>

(* reloadConfigIfChanged reads the file, ... *)
Check(r) ==
    /\ job[r].pc = "check"
    /\ job' = [job EXCEPT ![r] = IF torn THEN Idle ELSE [@ EXCEPT !.pc = "compare", !.seen = file]]
    /\ UNCHANGED <<file, torn, notified, timer, hash, config, recent, pend, owed, served, stopped, crossed>>

Compare(r) ==
    /\ job[r].pc = "compare"
    /\ job' = [job EXCEPT ![r] = IF hash = job[r].seen THEN Idle ELSE [@ EXCEPT !.pc = "load"]]
    /\ UNCHANGED <<file, torn, notified, timer, hash, config, recent, pend, owed, served, stopped, crossed>>

(* ... LoadConfig reads it again (an empty file is a configuration of       *)
(* defaults; one that cannot be read or parsed would install nothing and    *)
(* keep the hash: files here can be), ...                                   *)
Load(r) ==
    /\ job[r].pc = "load"
    /\ job' = [job EXCEPT ![r].pc = "install", ![r].cfg = IF torn THEN Default ELSE file]
    /\ UNCHANGED <<file, torn, notified, timer, hash, config, recent, pend, owed, served, stopped, crossed>>

(* Nobody else has a configuration on its way to the callback. *)
Apart == "updates_apart" \in Assume => \A w \in Workers : job[w].pc \notin Picked

InstallForgotten(r) ==  \* mutant: the watcher keeps the configuration it had
    /\ job[r].pc = "install" /\ Apart
    /\ job' = [job EXCEPT ![r].pc = "reload"]
    /\ UNCHANGED <<file, torn, notified, timer, hash, config, recent, pend, owed, served, stopped, crossed>>

Install(r) ==
    /\ job[r].pc = "install" /\ Apart
    /\ config' = job[r].cfg
    /\ job' = [job EXCEPT ![r].pc = "reload"]
    /\ UNCHANGED <<file, torn, notified, timer, hash, recent, pend, owed, served, stopped, crossed>>

(* Any worker calls reloadCallback, and nothing keeps two calls apart. *)
BeginsCallback == crossed' = (crossed \/ \E w \in Workers : job[w].pc \in {"previous", "apply", "serve"})

(* ... reloadClients takes the configuration there is by then, ... *)
ReloadClients(r) ==
    /\ job[r].pc = "reload"
    /\ job' = [job EXCEPT ![r].pc = "previous", ![r].cfg = config]
    /\ owed' = FALSE /\ BeginsCallback
    /\ UNCHANGED <<file, torn, notified, timer, hash, config, recent, pend, served, stopped>>

(* ... and when the callback and the refresh of the credentials are done    *)
(* the file is read once more, for LoadConfig may have written to it.        *)
Rehash(r) ==
    /\ job[r].pc = "rehash"
    /\ hash' = IF torn THEN job[r].seen ELSE file
    /\ job' = [job EXCEPT ![r] = Idle]
    /\ UNCHANGED <<file, torn, notified, timer, config, recent, pend, owed, served, stopped, crossed>>

-----------------------------------------------------------------------------
(* addOrUpdateClient and removeClient take the configuration under the lock *)
(* and hand it to triggerServerUpdate when the credentials are refreshed.   *)
AuthFileChanged ==
    /\ job[Handler] = Idle /\ ~stopped /\ Apart
    /\ job' = [job EXCEPT ![Handler].pc = "trigger", ![Handler].cfg = config]
    /\ owed' = TRUE
    /\ UNCHANGED <<file, torn, notified, timer, hash, config, recent, pend, served, stopped, crossed>>

TriggerServerUpdate ==
    /\ job[Handler].pc = "trigger"
    /\ \/ /\ ~stopped /\ ~recent
          /\ recent' = TRUE /\ pend' = "none" /\ owed' = FALSE /\ BeginsCallback
          /\ job' = [job EXCEPT ![Handler].pc = "previous"]
       \/ /\ stopped \/ recent
          /\ pend' = IF stopped \/ pend # "none" THEN pend ELSE "set"
          /\ job' = [job EXCEPT ![Handler] = Idle]
          /\ UNCHANGED <<recent, owed, crossed>>
    /\ UNCHANGED <<file, torn, notified, timer, hash, config, served, stopped>>

WindowPasses ==
    /\ recent
    /\ recent' = FALSE
    /\ UNCHANGED <<file, torn, notified, timer, hash, config, job, pend, owed, served, stopped, crossed>>

(* The timer's function takes the latest configuration before the lock ... *)
DeferredFires ==
    /\ pend = "set" /\ job[Deferred] = Idle /\ Apart
    /\ pend' = "fired"
    /\ job' = [job EXCEPT ![Deferred].pc = "taken", ![Deferred].cfg = config]
    /\ UNCHANGED <<file, torn, notified, timer, hash, config, recent, owed, served, stopped, crossed>>

(* ... and asks under it whether it is still the timer that is set. *)
DeferredTaken ==
    /\ job[Deferred].pc = "taken"
    /\ IF pend = "fired" /\ ~stopped
       THEN /\ pend' = "none" /\ recent' = TRUE /\ owed' = FALSE /\ BeginsCallback
            /\ job' = [job EXCEPT ![Deferred].pc = "previous"]
       ELSE /\ job' = [job EXCEPT ![Deferred] = Idle]
            /\ pend' = IF pend = "fired" THEN "none" ELSE pend
            /\ UNCHANGED <<recent, owed, crossed>>
    /\ UNCHANGED <<file, torn, notified, timer, hash, config, served, stopped>>

-----------------------------------------------------------------------------
(* reloadCallback, in any worker: the strategy in use is read, ... *)
PreviousOfWatcher(w) ==  \* mutant: compares with the watcher's configuration
    /\ job[w].pc = "previous"
    /\ job' = [job EXCEPT ![w].pc = "apply", ![w].prev = Strategy(config)]
    /\ UNCHANGED <<file, torn, notified, timer, hash, config, recent, pend, owed, served, stopped, crossed>>

Previous(w) ==
    /\ job[w].pc = "previous"
    /\ job' = [job EXCEPT ![w].pc = "apply", ![w].prev = Strategy(served.service)]
    /\ UNCHANGED <<file, torn, notified, timer, hash, config, recent, pend, owed, served, stopped, crossed>>

(* ... the selector is replaced when it differs, the server told, ... *)
Apply(w) ==
    LET cfg == job[w].cfg IN
    /\ job[w].pc = "apply"
    /\ served' = [served EXCEPT !.server = cfg,
                     !.selector = IF job[w].prev # Strategy(cfg) THEN Strategy(cfg) ELSE @]
    /\ job' = [job EXCEPT ![w].pc = "serve"]
    /\ UNCHANGED <<file, torn, notified, timer, hash, config, recent, pend, owed, stopped, crossed>>

(* ... and the service and its manager have the new configuration. *)
Serve(w) ==
    /\ job[w].pc = "serve"
    /\ served' = [served EXCEPT !.service = job[w].cfg]
    /\ job' = [job EXCEPT ![w] = IF w \in Reloaders THEN [@ EXCEPT !.pc = "rehash"] ELSE Idle]
    /\ UNCHANGED <<file, torn, notified, timer, hash, config, recent, pend, owed, stopped, crossed>>

(* Watcher.Stop; reloads under way go on. *)
Stop ==
    /\ ~stopped
    /\ stopped' = TRUE /\ timer' = FALSE /\ notified' = FALSE /\ pend' = "none"
    /\ UNCHANGED <<file, torn, hash, config, job, recent, owed, served, crossed>>

-----------------------------------------------------------------------------
Reload(r) ==
    ConfigTimerFires(r) \/ Check(r) \/ Compare(r) \/ Load(r) \/ Install(r) \/ ReloadClients(r) \/ Rehash(r)

Callback(w) == Previous(w) \/ Apply(w) \/ Serve(w)

Next ==
    \/ Truncate \/ Write \/ ScheduleConfigReload
    \/ \E r \in Reloaders : Reload(r)
    \/ AuthFileChanged \/ TriggerServerUpdate \/ WindowPasses \/ DeferredFires \/ DeferredTaken
    \/ \E w \in Workers : Callback(w)
    \/ Stop

(* Who has begun to write the file writes it; goroutines run and timers      *)
(* fire, one of them even when others come in between (SF: under             *)
(* updates_apart a goroutine waits for others to be done).                   *)
Fairness ==
    /\ WF_vars(Write) /\ SF_vars(ScheduleConfigReload) /\ WF_vars(WindowPasses)
    /\ \A r \in Reloaders : SF_vars(Reload(r))
    /\ WF_vars(TriggerServerUpdate) /\ SF_vars(DeferredFires) /\ WF_vars(DeferredTaken)
    /\ \A w \in Workers : WF_vars(Callback(w))

Spec == Init /\ [][Next]_vars
FairSpec == Spec /\ Fairness

-----------------------------------------------------------------------------
(* As long as no callback has begun in the middle of another one, the       *)
(* server, the service and the selector of the credentials go by one        *)
(* configuration whenever none runs, also when the callbacks come with      *)
(* configurations that were taken earlier and overtaken (service.go 559: it *)
(* sets them one after the other, the selector only when the strategy       *)
(* differs from the one it has read).                                       *)
OneConfigServed ==
    ~ crossed /\ (\A w \in Workers : job[w].pc \notin {"previous", "apply", "serve"}) =>
        /\ served.server = served.service
        /\ served.selector = Strategy(served.service)

(* An edit of the file is served in the end, also when it comes while        *)
(* another is being loaded (config_reload.go 1: "It detects material changes *)
(* and reloads clients when the config changes.").                           *)
EditsServed == <>[](stopped \/ served.service = file)

(* A change of an auth file is followed by a server update, though changes   *)
(* within a second share one and its timer may be replaced or come too late. *)
UpdatesDelivered == owed ~> (~owed \/ stopped)
=============================================================================
