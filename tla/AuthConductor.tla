--------------------------- MODULE AuthConductor ----------------------------
(***************************************************************************)
(* The credential conductor, sdk/cliproxy/auth/conductor.go and            *)
(* selector.go: concurrent requests pick a credential under the manager's  *)
(* lock, call the provider without it, and record the result under the     *)
(* lock again; a failed round may wait for the closest cooldown and retry. *)
(*                                                                         *)
(* One action is one critical section of Manager.mu, or one step between   *)
(* two of them.  MarkResult's calls into the model registry come after the *)
(* unlock, so they are steps of their own (Notify).                        *)
(*                                                                         *)
(* Times are kept as the time still to go: NoTime is Go's zero time, 0 a   *)
(* moment that has come, k > 0 a moment k ticks ahead; Tick ages them all. *)
(* Status = StatusError and LastError of a state are always set and        *)
(* cleared together, and are one flag here, "err".                         *)
(***************************************************************************)
EXTENDS Integers, Sequences, FiniteSets, FiniteSetsExt

CONSTANTS
    Auths, Models, Requests,
    Supports,            \* [Auths -> SUBSET Models]: registry.ClientSupportsModel
    Priority,            \* [Auths -> Int]: attribute "priority"
    Kinds,               \* entry points used: "execute", "count", "stream"
    Pins,                \* candidate sets a request may be pinned to
    Errors,              \* classes of provider errors that occur
    RetryAfters,         \* Retry-After values a 429 may carry; NoTime: none
    EffectiveRetry,      \* [Auths -> Nat]: request-retry or its override
    MaxRetryCredentials, \* max-retry-credentials, 0: no limit
    MaxRetryInterval,    \* max-retry-interval, 0: never wait
    CoolingDisabled,     \* credentials with disable-cooling
    MaxLevel,            \* the level at which the doubled cooldown is cut
    QuotaCooldown,       \* [0..MaxLevel -> Nat]: nextQuotaCooldown's duration
    UnauthorizedWait,    \* 30 minutes
    NotFoundWait,        \* 12 hours
    TransientWait,       \* 1 minute
    NoState              \* no entry in ModelStates

NoTime == -1
Timer == Nat \cup {NoTime}
ErrorKinds == {"unauthorized", "not_found", "quota", "transient", "other", "invalid"}
RegistryCalls == {"clear_quota", "set_quota", "resume", "suspend_quota", "suspend_other"}
Note == [call : RegistryCalls, auth : Auths, model : Models]

ASSUME AuthsAssumption == IsFiniteSet(Auths) /\ Auths # {}
ASSUME ModelsAssumption == IsFiniteSet(Models) /\ Models # {}
ASSUME SettingsAssumption ==
    /\ Supports \in [Auths -> SUBSET Models]
    /\ Priority \in [Auths -> Int]
    /\ Kinds \subseteq {"execute", "count", "stream"} /\ Kinds # {}
    /\ Pins \subseteq SUBSET Auths
    /\ Errors \subseteq ErrorKinds
    /\ RetryAfters \subseteq Timer
    /\ EffectiveRetry \in [Auths -> Nat]
    /\ MaxRetryCredentials \in Nat
    /\ MaxRetryInterval \in Nat
    /\ CoolingDisabled \subseteq Auths
ASSUME CooldownAssumption ==
    /\ MaxLevel \in Nat
    /\ QuotaCooldown \in [0..MaxLevel -> Nat \ {0}]
    /\ \A l \in 0..(MaxLevel - 1) :
           QuotaCooldown[l + 1] \in {2 * QuotaCooldown[l], QuotaCooldown[MaxLevel]}
    /\ UnauthorizedWait \in Nat \ {0}
    /\ NotFoundWait \in Nat \ {0}
    /\ TransientWait \in Nat \ {0}

VARIABLES
    modelState,  \* Auth.ModelStates, NoState where there is no entry
    aggregate,   \* the credential-wide fields MarkResult derives from them
    regQuota,    \* registry QuotaExceededClients, as pairs <<auth, model>>
    regSuspended,\* registry SuspendedClients: reason, or "none"
    req,         \* the goroutine of each request
    calls        \* provider calls of the current request (history)

vars == <<modelState, aggregate, regQuota, regSuspended, req, calls>>
authVars == <<modelState, aggregate>>
regVars == <<regQuota, regSuspended>>

-----------------------------------------------------------------------------
(* One model's state under one credential. *)
FreshState ==
    [unavailable |-> FALSE, err |-> FALSE, next |-> NoTime,
     exceeded |-> FALSE, recover |-> NoTime, level |-> 0]

ModelStates ==
    [unavailable : BOOLEAN, err : BOOLEAN, next : Timer,
     exceeded : BOOLEAN, recover : Timer, level : 0..MaxLevel]

ASSUME NoStateAssumption == NoState \notin ModelStates

Known(states) == {m \in Models : states[m] # NoState}

(* isAuthBlockedForModel: whether, and for how long. *)
CoolingDown(s) == s.unavailable /\ s.next > 0

Blocked(a, m) == m \in Known(modelState[a]) /\ CoolingDown(modelState[a][m])

BlockedFor(a, m) ==
    LET s == modelState[a][m] IN IF s.recover > 0 THEN s.recover ELSE s.next

(* Failure branch of MarkResult for a model. *)
RetryIn(a, e, retryAfter, level) ==
    CASE e = "unauthorized" -> UnauthorizedWait
      [] e = "not_found"    -> NotFoundWait
      [] e = "quota" /\ retryAfter # NoTime -> retryAfter
      [] e = "quota" /\ retryAfter = NoTime ->
             IF a \in CoolingDisabled THEN NoTime ELSE QuotaCooldown[level]
      [] e = "transient" ->
             IF a \in CoolingDisabled THEN NoTime ELSE TransientWait
      [] OTHER -> NoTime

(* Mutant: the level keeps growing after the cooldown is cut. *)
NextLevelUncut(a, e, retryAfter, level) ==
    IF e = "quota" /\ retryAfter = NoTime /\ a \notin CoolingDisabled
    THEN level + 1 ELSE level

NextLevel(a, e, retryAfter, level) ==
    IF e = "quota" /\ retryAfter = NoTime /\ a \notin CoolingDisabled
       /\ level < MaxLevel
    THEN level + 1 ELSE level

Failed(s, a, e, retryAfter) ==
    LET wait == RetryIn(a, e, retryAfter, s.level)
    IN  [unavailable |-> TRUE, err |-> TRUE, next |-> wait,
         exceeded |-> s.exceeded \/ e = "quota",
         recover  |-> IF e = "quota" THEN wait ELSE s.recover,
         level    |-> NextLevel(a, e, retryAfter, s.level)]

(* Mutant: a cooldown that is over takes its backoff level along. *)
SweptForgetful(s) ==
    IF s # NoState /\ (s.unavailable /\ s.next = 0)
    THEN [FreshState EXCEPT !.err = s.err] ELSE s

(* updateAggregatedAvailability: states whose cooldown is over become      *)
(* available again, and the credential-wide fields are recomputed.         *)
Swept(s) ==
    IF s # NoState /\ (s.unavailable /\ s.next = 0)
    THEN [s EXCEPT !.unavailable = FALSE, !.next = NoTime] ELSE s

Earliest(times) == IF times = {} THEN NoTime ELSE Min(times)

(* Mutant: a state that failed without a retry time counts as down. *)
AggregateHasty(states, err) ==
    LET known == {states[m] : m \in Known(states)}
        down  == \A s \in known : s.unavailable
        over  == {s \in known : s.exceeded}
    IN  [unavailable |-> down,
         err      |-> err,
         next     |-> IF down THEN Earliest({s.next : s \in known}) ELSE NoTime,
         exceeded |-> over # {},
         recover  |-> Earliest({s.recover : s \in over} \ {NoTime}),
         level    |-> Max({s.level : s \in over} \cup {0})]

Aggregate(states, err) ==
    LET known == {states[m] : m \in Known(states)}
        down  == \A s \in known : CoolingDown(s)
        over  == {s \in known : s.exceeded}
    IN  [unavailable |-> down,
         err      |-> err,
         next     |-> IF down THEN Earliest({s.next : s \in known}) ELSE NoTime,
         exceeded |-> over # {},
         recover  |-> Earliest({s.recover : s \in over} \ {NoTime}),
         level    |-> Max({s.level : s \in over} \cup {0})]

(* hasModelError, after the sweep. *)
HasModelError(states) == \E m \in Known(states) : states[m].err

-----------------------------------------------------------------------------
PC == {"idle", "pick", "call", "streaming", "retry", "waiting"}

Request ==
    [pc : PC, kind : Kinds, model : Models, pin : SUBSET Auths,
     tried : SUBSET Auths, auth : Auths, err : BOOLEAN, attempt : Nat,
     wait : Nat, failed : BOOLEAN, notes : Seq(Note)]

TypeOK ==
    /\ modelState \in [Auths -> [Models -> ModelStates \cup {NoState}]]
    /\ aggregate \in [Auths -> ModelStates]
    /\ regQuota \subseteq Auths \X Models
    /\ regSuspended \in [Auths -> [Models -> {"none", "quota", "other"}]]
    /\ req \in [Requests -> Request]
    /\ calls \in [Requests -> Nat]

IdleRequest ==
    [pc |-> "idle", kind |-> CHOOSE k \in Kinds : TRUE,
     model |-> CHOOSE m \in Models : TRUE, pin |-> {}, tried |-> {},
     auth |-> CHOOSE a \in Auths : TRUE, err |-> FALSE, attempt |-> 0,
     wait |-> 0, failed |-> FALSE, notes |-> <<>>]

(* Credentials just registered: no model state, nothing suspended. *)
Init ==
    /\ modelState = [a \in Auths |-> [m \in Models |-> NoState]]
    /\ aggregate = [a \in Auths |-> FreshState]
    /\ regQuota = {}
    /\ regSuspended = [a \in Auths |-> [m \in Models |-> "none"]]
    /\ req = [r \in Requests |-> IdleRequest]
    /\ calls = [r \in Requests |-> 0]

(* The goroutine of r is at label and owes the registry nothing. *)
At(r, label) == req[r].pc = label /\ req[r].notes = <<>>

Become(r, record) == req' = [req EXCEPT ![r] = record]

(* Back to the caller of Execute, ExecuteCount or ExecuteStream; notes are *)
(* the registry calls still to be made before that.                        *)
Return(r, notes) == Become(r, [IdleRequest EXCEPT !.notes = notes])

-----------------------------------------------------------------------------
(* MarkResult, the part under the lock. *)
MarkSuccess(a, m) ==
    LET reset  == [modelState[a] EXCEPT ![m] = FreshState]
        states == [n \in Models |-> Swept(reset[n])]
        err    == aggregate[a].err /\ HasModelError(states)
    IN  /\ modelState' = [modelState EXCEPT ![a] = states]
        /\ aggregate' = [aggregate EXCEPT ![a] = Aggregate(states, err)]

(* Mutant: the failure is recorded for every model of the credential. *)
MarkFailureAll(a, m, e, retryAfter) ==
    LET Old(n) == IF modelState[a][n] = NoState THEN FreshState ELSE modelState[a][n]
        states == [n \in Models |-> Swept(Failed(Old(n), a, e, retryAfter))]
    IN  /\ modelState' = [modelState EXCEPT ![a] = states]
        /\ aggregate' = [aggregate EXCEPT ![a] = Aggregate(states, TRUE)]

MarkFailure(a, m, e, retryAfter) ==
    LET old    == IF modelState[a][m] = NoState THEN FreshState ELSE modelState[a][m]
        marked == [modelState[a] EXCEPT ![m] = Failed(old, a, e, retryAfter)]
        states == [n \in Models |-> Swept(marked[n])]
    IN  /\ modelState' = [modelState EXCEPT ![a] = states]
        /\ aggregate' = [aggregate EXCEPT ![a] = Aggregate(states, TRUE)]

(* ... and the registry calls it makes after the unlock. *)
Notes(callNames, a, m) ==
    [i \in 1..Len(callNames) |-> [call |-> callNames[i], auth |-> a, model |-> m]]

SuccessNotes(a, m) == Notes(<<"clear_quota", "resume">>, a, m)

FailureNotes(a, m, e) ==
    CASE e = "quota" -> Notes(<<"set_quota", "suspend_quota">>, a, m)
      [] e \in {"unauthorized", "not_found"} -> Notes(<<"suspend_other">>, a, m)
      [] OTHER -> <<>>

Notify(r) ==
    /\ req[r].notes # <<>>
    /\ LET note == Head(req[r].notes)
           a == note.auth
           m == note.model
           Reason(why) == [regSuspended EXCEPT ![a][m] = why]
       IN  /\ regQuota' =
                  CASE note.call = "clear_quota" -> regQuota \ {<<a, m>>}
                    [] note.call = "set_quota"   -> regQuota \cup {<<a, m>>}
                    [] OTHER                     -> regQuota
           /\ regSuspended' =
                  CASE note.call = "resume" -> Reason("none")
                    [] note.call = "suspend_quota" /\ regSuspended[a][m] = "none" -> Reason("quota")
                    [] note.call = "suspend_other" /\ regSuspended[a][m] = "none" -> Reason("other")
                    [] OTHER -> regSuspended
    /\ Become(r, [req[r] EXCEPT !.notes = Tail(@)])
    /\ UNCHANGED <<authVars, calls>>

-----------------------------------------------------------------------------
(* pickNextMixed and getAvailableAuths: the unblocked credentials of the   *)
(* best priority.  Which of them is picked is the selector's choice.       *)
Candidates(r) ==
    {a \in req[r].pin \ req[r].tried : req[r].model \in Supports[a]}

Available(r) == {a \in Candidates(r) : ~Blocked(a, req[r].model)}

Pickable(r) ==
    {a \in Available(r) : \A b \in Available(r) : Priority[b] <= Priority[a]}

RoundFull(r) ==
    MaxRetryCredentials > 0 /\ Cardinality(req[r].tried) >= MaxRetryCredentials

Start(r) ==
    /\ At(r, "idle")
    /\ \E k \in Kinds, m \in Models, p \in Pins :
           Become(r, [IdleRequest EXCEPT !.pc = "pick", !.kind = k, !.model = m, !.pin = p])
    /\ calls' = [calls EXCEPT ![r] = 0]
    /\ UNCHANGED <<authVars, regVars>>

(* Mutant: the pick is not added to tried. *)
PickForgetful(r) ==
    /\ At(r, "pick")
    /\ ~RoundFull(r)
    /\ \E a \in Pickable(r) : Become(r, [req[r] EXCEPT !.pc = "call", !.auth = a])
    /\ calls' = [calls EXCEPT ![r] = @ + 1]
    /\ UNCHANGED <<authVars, regVars>>

Pick(r) ==
    /\ At(r, "pick")
    /\ ~RoundFull(r)
    /\ \E a \in Pickable(r) :
           Become(r, [req[r] EXCEPT !.pc = "call", !.auth = a, !.tried = @ \cup {a}])
    /\ calls' = [calls EXCEPT ![r] = @ + 1]
    /\ UNCHANGED <<authVars, regVars>>

(* The round ends with the last provider error or a "no auth" error. *)
PickNone(r) ==
    /\ At(r, "pick")
    /\ RoundFull(r) \/ Pickable(r) = {}
    /\ Become(r, [req[r] EXCEPT !.pc = "retry"])
    /\ UNCHANGED <<authVars, regVars, calls>>

(* The provider answers.  A stream is only marked when it ends, a token    *)
(* count never.                                                            *)
CallSucceeds(r) ==
    LET q == req[r] IN
    /\ At(r, "call")
    /\ \/ /\ q.kind = "execute"
          /\ MarkSuccess(q.auth, q.model)
          /\ Return(r, SuccessNotes(q.auth, q.model))
       \/ /\ q.kind = "count"
          /\ Return(r, <<>>)
          /\ UNCHANGED authVars
       \/ /\ q.kind = "stream"
          /\ Become(r, [q EXCEPT !.pc = "streaming"])
          /\ UNCHANGED authVars
    /\ UNCHANGED <<regVars, calls>>

CallFails(r) ==
    LET q == req[r]
        RetryAfterOf(e) == IF e = "quota" THEN RetryAfters ELSE {NoTime}
    IN
    /\ At(r, "call")
    /\ \E e \in Errors : \E retryAfter \in RetryAfterOf(e) :
           LET notes == IF q.kind = "count" THEN <<>> ELSE FailureNotes(q.auth, q.model, e) IN
           /\ IF q.kind = "count" THEN UNCHANGED authVars
              ELSE MarkFailure(q.auth, q.model, e, retryAfter)
           /\ IF e = "invalid" THEN Return(r, notes)
              ELSE Become(r, [q EXCEPT !.pc = "pick", !.notes = notes])
    /\ UNCHANGED <<regVars, calls>>

(* The client goes away during the call: nothing is recorded. *)
CallCancelled(r) ==
    /\ At(r, "call")
    /\ Return(r, <<>>)
    /\ UNCHANGED <<authVars, regVars, calls>>

(* The goroutine that copies the chunks: the first error chunk marks a     *)
(* failure, the end of a stream without one marks a success.               *)
StreamBreaks(r) ==
    LET q == req[r] IN
    /\ At(r, "streaming")
    /\ ~q.failed
    /\ \E e \in Errors :
           /\ MarkFailure(q.auth, q.model, e, NoTime)
           /\ Become(r, [q EXCEPT !.failed = TRUE,
                                  !.notes = FailureNotes(q.auth, q.model, e)])
    /\ UNCHANGED <<regVars, calls>>

StreamEnds(r) ==
    LET q == req[r] IN
    /\ At(r, "streaming")
    /\ IF q.failed
       THEN Return(r, <<>>) /\ UNCHANGED authVars
       ELSE /\ MarkSuccess(q.auth, q.model)
            /\ Return(r, SuccessNotes(q.auth, q.model))
    /\ UNCHANGED <<regVars, calls>>

(* shouldRetryAfterError and closestCooldownWait, over all credentials of  *)
(* the providers, whatever the request is pinned to or they support.       *)
CooldownWaits(r) ==
    {BlockedFor(a, req[r].model) :
        a \in {b \in Auths : /\ req[r].attempt < EffectiveRetry[b]
                             /\ Blocked(b, req[r].model)}}

MayRetry(r) ==
    /\ MaxRetryInterval > 0
    /\ CooldownWaits(r) # {}
    /\ Min(CooldownWaits(r)) <= MaxRetryInterval

Wait(r) ==
    /\ At(r, "retry")
    /\ MayRetry(r)
    /\ Become(r, [req[r] EXCEPT !.pc = "waiting", !.wait = Min(CooldownWaits(r))])
    /\ UNCHANGED <<authVars, regVars, calls>>

GiveUp(r) ==
    /\ At(r, "retry")
    /\ ~MayRetry(r)
    /\ Return(r, <<>>)
    /\ UNCHANGED <<authVars, regVars, calls>>

(* waitForCooldown returns: the timer fires, or the client goes away. *)
NextAttempt(r) ==
    /\ At(r, "waiting")
    /\ req[r].wait = 0
    /\ Become(r, [req[r] EXCEPT !.pc = "pick", !.attempt = @ + 1, !.tried = {}])
    /\ UNCHANGED <<authVars, regVars, calls>>

WaitCancelled(r) ==
    /\ At(r, "waiting")
    /\ Return(r, <<>>)
    /\ UNCHANGED <<authVars, regVars, calls>>

-----------------------------------------------------------------------------
Sooner(t) == IF t > 0 THEN t - 1 ELSE t

Aged(s) ==
    IF s = NoState THEN s
    ELSE [s EXCEPT !.next = Sooner(@), !.recover = Sooner(@)]

(* Mutant: the timer of a waiting request never fires. *)
TickDeaf ==
    /\ modelState' = [a \in Auths |-> [m \in Models |-> Aged(modelState[a][m])]]
    /\ aggregate' = [a \in Auths |-> Aged(aggregate[a])]
    /\ UNCHANGED <<req, regVars, calls>>

Tick ==
    /\ modelState' = [a \in Auths |-> [m \in Models |-> Aged(modelState[a][m])]]
    /\ aggregate' = [a \in Auths |-> Aged(aggregate[a])]
    /\ req' = [r \in Requests |-> [req[r] EXCEPT !.wait = Sooner(@)]]
    /\ UNCHANGED <<regVars, calls>>

Proceed(r) ==
    \/ Notify(r) \/ Pick(r) \/ PickNone(r)
    \/ CallSucceeds(r) \/ CallFails(r)
    \/ StreamBreaks(r) \/ StreamEnds(r)
    \/ Wait(r) \/ GiveUp(r) \/ NextAttempt(r)

ClientCancels(r) == CallCancelled(r) \/ WaitCancelled(r)

Next == Tick \/ \E r \in Requests : Start(r) \/ Proceed(r) \/ ClientCancels(r)

Spec == Init /\ [][Next]_vars

(* Goroutines are scheduled, providers answer (their HTTP clients and the  *)
(* request context bound every call) and time passes; no client has to     *)
(* send a request or to go away.                                           *)
FairSpec == Spec /\ WF_vars(Tick) /\ \A r \in Requests : WF_vars(Proceed(r))

-----------------------------------------------------------------------------
(* Between two results nothing may drift: whatever expires, the credential-*)
(* wide fields say what the model states say.  A credential is unavailable *)
(* exactly when every model it has a state for has failed with a retry     *)
(* time, until the earliest of these; its quota fields and backoff level   *)
(* are those of the models over quota.                                     *)
AggregateTracksModels ==
    \A a \in Auths :
        LET known == {modelState[a][m] : m \in Known(modelState[a])}
            over  == {s \in known : s.exceeded}
            g     == aggregate[a]
        IN  /\ g.unavailable <=> /\ known # {}
                                 /\ \A s \in known : s.unavailable /\ s.next # NoTime
            /\ g.next = IF g.unavailable THEN Min({s.next : s \in known}) ELSE NoTime
            /\ g.exceeded <=> over # {}
            /\ \A s \in over : s.level <= g.level
            /\ g.level > 0 => \E s \in over : s.level = g.level
            /\ g.err <=> \E s \in known : s.err

(* However rounds and retries interleave, one request calls providers at   *)
(* most once per credential (or max-retry-credentials times) and attempt,   *)
(* and makes no more retries than some credential's setting allows.        *)
RoundCap ==
    IF MaxRetryCredentials > 0 /\ MaxRetryCredentials < Cardinality(Auths)
    THEN MaxRetryCredentials ELSE Cardinality(Auths)

UpstreamCallsBounded ==
    \A r \in Requests :
        \E a \in Auths : calls[r] <= (EffectiveRetry[a] + 1) * RoundCap

(* The backoff level of a credential and model only falls when a call of   *)
(* that credential for that model succeeds: not when its cooldown expires, *)
(* not by another model's result.                                          *)
BackoffForgottenOnlyBySuccess ==
    [][\A a \in Auths, m \in Models :
          modelState[a][m] # NoState /\ modelState'[a][m].level < modelState[a][m].level
          => \E r \in Requests : /\ req[r].auth = a /\ req[r].model = m
                                 /\ CallSucceeds(r) \/ StreamEnds(r)]_vars

(* A failure for one model never makes the credential unusable for another.*)
FailureIsolated ==
    [][\A a \in Auths, m \in Models :
          Blocked(a, m)' /\ ~Blocked(a, m)
          => \E r \in Requests : /\ req[r].auth = a /\ req[r].model = m
                                 /\ CallFails(r) \/ StreamBreaks(r)]_vars

(* Every request is eventually answered, retries and waits included. *)
EveryRequestReturns ==
    \A r \in Requests : (req[r].pc # "idle") ~> At(r, "idle")
=============================================================================
