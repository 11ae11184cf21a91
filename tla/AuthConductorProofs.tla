------------------------ MODULE AuthConductorProofs -------------------------
(***************************************************************************)
(* Proofs about AuthConductor, for every set of credentials, models and    *)
(* requests and every setting, and about the streamed answers of Answers   *)
(* (AnswerStream), for answers of any length and any number of retries,    *)
(* and the logs of answers (RequestLog), for any channels and limits.      *)
(***************************************************************************)
EXTENDS Answers, NumberLemmas, TLAPS

-----------------------------------------------------------------------------
(* The operators of MarkResult keep model states and aggregates typed. *)
LEMMA EarliestType ==
    ASSUME NEW S, \A t \in S : t \in Nat
    PROVE  Earliest(S) \in Timer
BY NatMin DEF Earliest, Timer, NoTime

(* The state ensureModelState and resetModelState leave. *)
LEMMA FreshStateType == FreshState \in ModelStates
BY CooldownAssumption DEF FreshState, ModelStates, Timer, NoTime

(* A failure's wait is a time or none. *)
LEMMA RetryInType ==
    ASSUME NEW a, NEW e, NEW ra \in Timer, NEW l \in 0..MaxLevel
    PROVE  RetryIn(a, e, ra, l) \in Timer
BY CooldownAssumption DEF RetryIn, Timer, NoTime

(* nextQuotaCooldown never takes the level past the cut. *)
LEMMA NextLevelType ==
    ASSUME NEW a, NEW e, NEW ra, NEW l \in 0..MaxLevel
    PROVE  NextLevel(a, e, ra, l) \in 0..MaxLevel
BY CooldownAssumption DEF NextLevel

(* The model state after a failure. *)
LEMMA FailedType ==
    ASSUME NEW s \in ModelStates, NEW a, NEW e, NEW ra \in Timer
    PROVE  Failed(s, a, e, ra) \in ModelStates
<1>1. s.level \in 0..MaxLevel /\ s.recover \in Timer /\ s.exceeded \in BOOLEAN
  BY DEF ModelStates
<1>2. RetryIn(a, e, ra, s.level) \in Timer
  BY <1>1, RetryInType
<1>3. NextLevel(a, e, ra, s.level) \in 0..MaxLevel
  BY <1>1, NextLevelType
<1> QED BY <1>1, <1>2, <1>3 DEF Failed, ModelStates

(* The sweep of updateAggregatedAvailability keeps a state's type. *)
LEMMA SweptType ==
    ASSUME NEW s \in ModelStates \cup {NoState}
    PROVE  /\ Swept(s) \in ModelStates \cup {NoState}
           /\ s \in ModelStates => Swept(s) \in ModelStates
BY NoStateAssumption DEF Swept, ModelStates, Timer, NoTime

(* The aggregate of typed model states is typed. *)
LEMMA AggregateType ==
    ASSUME NEW states \in [Models -> ModelStates \cup {NoState}],
           NEW err \in BOOLEAN
    PROVE  Aggregate(states, err) \in ModelStates
<1> DEFINE known == {states[m] : m \in Known(states)}
           down  == \A s \in known : CoolingDown(s)
           over  == {s \in known : s.exceeded}
           levels == {s.level : s \in over} \cup {0}
<1>1. \A s \in known : s \in ModelStates
  BY DEF Known
<1>2. (IF down THEN Earliest({s.next : s \in known}) ELSE NoTime) \in Timer
  <2>1. CASE down
    <3>1. \A t \in {s.next : s \in known} : t \in Nat
      BY <1>1, <2>1 DEF CoolingDown, ModelStates, Timer, NoTime
    <3> QED BY <2>1, <3>1, EarliestType
  <2> QED BY <2>1 DEF Timer
<1>3. Earliest({s.recover : s \in over} \ {NoTime}) \in Timer
  <2>1. \A t \in {s.recover : s \in over} \ {NoTime} : t \in Nat
    BY <1>1 DEF ModelStates, Timer
  <2> QED BY <2>1, EarliestType
<1>4. Max(levels) \in 0..MaxLevel
  <2>1. \A l \in levels : l \in 0..MaxLevel
    BY <1>1, CooldownAssumption DEF ModelStates
  <2> QED BY <2>1, BoundedMax, CooldownAssumption
<1>5. down \in BOOLEAN /\ (over # {}) \in BOOLEAN
  OBVIOUS
<1> HIDE DEF known, down, over, levels
<1> QED BY <1>2, <1>3, <1>4, <1>5 DEF Aggregate, ModelStates, known, down, over, levels

(* The part of TypeOK that MarkResult's critical section writes. *)
AuthTypeOK ==
    /\ modelState \in [Auths -> [Models -> ModelStates \cup {NoState}]]
    /\ aggregate \in [Auths -> ModelStates]

(* MarkResult of a success writes typed states and a typed aggregate. *)
LEMMA MarkSuccessType ==
    ASSUME NEW a \in Auths, NEW m \in Models, AuthTypeOK, MarkSuccess(a, m)
    PROVE  AuthTypeOK'
<1> DEFINE reset  == [modelState[a] EXCEPT ![m] = FreshState]
           states == [n \in Models |-> Swept(reset[n])]
           err    == aggregate[a].err /\ HasModelError(states)
<1>1. reset \in [Models -> ModelStates \cup {NoState}]
  BY FreshStateType DEF AuthTypeOK
<1>2. states \in [Models -> ModelStates \cup {NoState}]
  BY <1>1, SweptType
<1>3. err \in BOOLEAN
  OBVIOUS
<1>4. Aggregate(states, err) \in ModelStates
  BY <1>2, <1>3, AggregateType
<1>5. /\ modelState' = [modelState EXCEPT ![a] = states]
      /\ aggregate' = [aggregate EXCEPT ![a] = Aggregate(states, err)]
  BY DEF MarkSuccess
<1> HIDE DEF states, err
<1> QED BY <1>2, <1>4, <1>5 DEF AuthTypeOK

(* MarkResult of a failure does too. *)
LEMMA MarkFailureType ==
    ASSUME NEW a \in Auths, NEW m \in Models, NEW e, NEW ra \in Timer,
           AuthTypeOK, MarkFailure(a, m, e, ra)
    PROVE  AuthTypeOK'
<1> DEFINE old    == IF modelState[a][m] = NoState THEN FreshState ELSE modelState[a][m]
           marked == [modelState[a] EXCEPT ![m] = Failed(old, a, e, ra)]
           states == [n \in Models |-> Swept(marked[n])]
<1>1. old \in ModelStates
  BY FreshStateType DEF AuthTypeOK
<1>2. marked \in [Models -> ModelStates \cup {NoState}]
  BY <1>1, FailedType DEF AuthTypeOK
<1>3. states \in [Models -> ModelStates \cup {NoState}]
  BY <1>2, SweptType
<1>4. Aggregate(states, TRUE) \in ModelStates
  BY <1>3, AggregateType
<1>5. /\ modelState' = [modelState EXCEPT ![a] = states]
      /\ aggregate' = [aggregate EXCEPT ![a] = Aggregate(states, TRUE)]
  BY DEF MarkFailure
<1> HIDE DEF states
<1> QED BY <1>3, <1>4, <1>5 DEF AuthTypeOK

(* The passing of time keeps the types. *)
LEMMA AgedType ==
    ASSUME NEW s \in ModelStates \cup {NoState}
    PROVE  /\ Aged(s) \in ModelStates \cup {NoState}
           /\ s \in ModelStates => Aged(s) \in ModelStates
<1>1. s = NoState => Aged(s) = s
  BY DEF Aged
<1>2. ASSUME s # NoState, s \in ModelStates
      PROVE  Aged(s) \in ModelStates
  <2> DEFINE older == [s EXCEPT !.next = Sooner(@)]
  <2>1. \A t \in Timer : Sooner(t) \in Timer
    BY DEF Sooner, Timer, NoTime
  <2>2. older \in ModelStates
    BY <1>2, <2>1 DEF ModelStates
  <2>3. older.recover = s.recover
    BY <1>2 DEF ModelStates
  <2>4. [older EXCEPT !.recover = Sooner(s.recover)] \in ModelStates
    <3> HIDE DEF older
    <3>1. s.recover \in Timer
      BY <1>2 DEF ModelStates
    <3> QED BY <2>1, <2>2, <3>1 DEF ModelStates
  <2> QED BY <1>2, <2>4 DEF Aged
<1> QED BY <1>1, <1>2, NoStateAssumption

(* The record a request starts from, and returns to, is typed. *)
LEMMA IdleRequestType == IdleRequest \in Request
<1>1. (CHOOSE k \in Kinds : TRUE) \in Kinds
  BY SettingsAssumption
<1>2. (CHOOSE m \in Models : TRUE) \in Models
  BY ModelsAssumption
<1>3. (CHOOSE a \in Auths : TRUE) \in Auths
  BY AuthsAssumption
<1> QED BY <1>1, <1>2, <1>3 DEF IdleRequest, Request, PC

(* The registry calls MarkResult leaves to be made. *)
LEMMA NotesType ==
    ASSUME NEW a \in Auths, NEW m \in Models, NEW e
    PROVE  /\ SuccessNotes(a, m) \in Seq(Note)
           /\ FailureNotes(a, m, e) \in Seq(Note)
<1>1. SuccessNotes(a, m) \in Seq(Note)
  BY DEF SuccessNotes, Notes, Note, RegistryCalls
<1>2. FailureNotes(a, m, e) \in Seq(Note)
  <2>1. CASE e = "quota"
    <3>1. Notes(<<"set_quota", "suspend_quota">>, a, m) \in Seq(Note)
      BY DEF Notes, Note, RegistryCalls
    <3> QED BY <2>1, <3>1, Zenon DEF FailureNotes
  <2>2. CASE e # "quota" /\ e \in {"unauthorized", "not_found"}
    <3>1. Notes(<<"suspend_other">>, a, m) \in Seq(Note)
      BY DEF Notes, Note, RegistryCalls
    <3> QED BY <2>2, <3>1, Zenon DEF FailureNotes
  <2>3. CASE e # "quota" /\ e \notin {"unauthorized", "not_found"}
    <3>1. <<>> \in Seq(Note)
      OBVIOUS
    <3> QED BY <2>3, <3>1, Zenon DEF FailureNotes
  <2> QED BY <2>1, <2>2, <2>3
<1> QED BY <1>1, <1>2

(* Whatever a request's goroutine does, its record keeps its type. *)
LEMMA BecomeType ==
    ASSUME NEW r \in Requests, NEW record \in Request,
           req \in [Requests -> Request], Become(r, record)
    PROVE  req' \in [Requests -> Request]
BY DEF Become

(* A request that answers its caller keeps a typed record. *)
LEMMA ReturnType ==
    ASSUME NEW r \in Requests, NEW notes \in Seq(Note),
           req \in [Requests -> Request], Return(r, notes)
    PROVE  req' \in [Requests -> Request]
<1>1. [IdleRequest EXCEPT !.notes = notes] \in Request
  BY IdleRequestType DEF Request
<1> QED BY <1>1, BecomeType DEF Return

(* The fields of a request's record, by name. *)
LEMMA FieldTypes ==
    ASSUME NEW q \in Request
    PROVE  /\ \A x \in PC : [q EXCEPT !.pc = x] \in Request
           /\ \A x \in SUBSET Auths : [q EXCEPT !.tried = x] \in Request
           /\ \A x \in Auths : [q EXCEPT !.auth = x] \in Request
           /\ \A x \in Nat : [q EXCEPT !.attempt = x] \in Request
           /\ \A x \in Nat : [q EXCEPT !.wait = x] \in Request
           /\ \A x \in BOOLEAN : [q EXCEPT !.failed = x] \in Request
           /\ \A x \in Seq(Note) : [q EXCEPT !.notes = x] \in Request
BY DEF Request

(* Every step keeps the types: the critical sections of MarkResult, the    *)
(* registry calls after it, and the control of a request.                  *)
LEMMA NotifyType ==
    ASSUME TypeOK, NEW r \in Requests, Notify(r)
    PROVE  TypeOK'
<1> DEFINE note == Head(req[r].notes)
           a == note.auth
           m == note.model
           Reason(why) == [regSuspended EXCEPT ![a][m] = why]
           Reasons == {"none", "quota", "other"}
<1>1. req[r] \in Request /\ req[r].notes \in Seq(Note) /\ req[r].notes # <<>>
  BY DEF TypeOK, Notify, Request
<1>2. note \in Note /\ Tail(req[r].notes) \in Seq(Note)
  BY <1>1
<1>3. a \in Auths /\ m \in Models
  BY <1>2 DEF Note
<1>4. [req[r] EXCEPT !.notes = Tail(@)] \in Request
  BY <1>1, <1>2, FieldTypes
<1>5. req' \in [Requests -> Request]
  BY <1>4, BecomeType DEF Notify, TypeOK
<1>6. regQuota' \subseteq Auths \X Models
  <2>1. regQuota' \in {regQuota \ {<<a, m>>}, regQuota \cup {<<a, m>>}, regQuota}
    BY Zenon DEF Notify
  <2> HIDE DEF a, m
  <2> QED BY <1>3, <2>1 DEF TypeOK
<1>7. regSuspended' \in [Auths -> [Models -> Reasons]]
  <2>1. regSuspended' \in {Reason("none"), Reason("quota"), Reason("other"), regSuspended}
    BY Zenon DEF Notify
  <2>2. ASSUME NEW why \in Reasons
        PROVE  Reason(why) \in [Auths -> [Models -> Reasons]]
    <3>1. Reason(why) = [regSuspended EXCEPT ![a] = [regSuspended[a] EXCEPT ![m] = why]]
      BY Zenon
    <3> HIDE DEF a, m, Reason
    <3> QED BY <1>3, <3>1 DEF TypeOK
  <2> HIDE DEF Reason
  <2> QED BY <2>1, <2>2 DEF TypeOK
<1>8. UNCHANGED <<modelState, aggregate, calls>>
  BY DEF Notify, authVars
<1> QED BY <1>5, <1>6, <1>7, <1>8 DEF TypeOK

(* Time changes timers only. *)
LEMMA TickType ==
    ASSUME TypeOK, Tick
    PROVE  TypeOK'
<1>1. modelState' \in [Auths -> [Models -> ModelStates \cup {NoState}]]
  BY AgedType DEF TypeOK, Tick
<1>2. aggregate' \in [Auths -> ModelStates]
  BY AgedType DEF TypeOK, Tick
<1>3. ASSUME NEW r \in Requests
      PROVE  [req[r] EXCEPT !.wait = Sooner(@)] \in Request
  <2>1. req[r] \in Request /\ req[r].wait \in Nat
    BY DEF TypeOK, Request
  <2>2. Sooner(req[r].wait) \in Nat
    BY <2>1 DEF Sooner
  <2> QED BY <2>1, <2>2, FieldTypes
<1>4. req' \in [Requests -> Request]
  BY <1>3 DEF Tick
<1> QED BY <1>1, <1>2, <1>4 DEF TypeOK, Tick, regVars

(* The steps that end a provider's call run MarkResult. *)
LEMMA ResultType ==
    ASSUME TypeOK, NEW r \in Requests,
           CallSucceeds(r) \/ CallFails(r) \/ StreamBreaks(r) \/ StreamEnds(r)
    PROVE  TypeOK'
<1> DEFINE q == req[r]
<1>1. /\ q \in Request /\ q.auth \in Auths /\ q.model \in Models
      /\ AuthTypeOK /\ req \in [Requests -> Request]
  BY DEF TypeOK, AuthTypeOK, Request
<1> HIDE DEF q
<1>2. <<>> \in Seq(Note) /\ \A e : FailureNotes(q.auth, q.model, e) \in Seq(Note)
  BY <1>1, NotesType
<1>3. CASE CallSucceeds(r)
  <2>1. AuthTypeOK'
    BY <1>1, <1>3, MarkSuccessType DEF CallSucceeds, authVars, q, AuthTypeOK
  <2>2. [q EXCEPT !.pc = "streaming"] \in Request
    BY <1>1, FieldTypes DEF PC
  <2>3. req' \in [Requests -> Request]
    BY <1>1, <1>2, <1>3, <2>2, NotesType, ReturnType, BecomeType DEF CallSucceeds, q
  <2> QED BY <1>3, <2>1, <2>3 DEF CallSucceeds, TypeOK, AuthTypeOK, regVars
<1>4. CASE CallFails(r)
  <2>1. PICK e \in Errors, ra \in RetryAfters \cup {NoTime} :
           LET notes == IF q.kind = "count" THEN <<>> ELSE FailureNotes(q.auth, q.model, e) IN
           /\ IF q.kind = "count" THEN UNCHANGED authVars
              ELSE MarkFailure(q.auth, q.model, e, ra)
           /\ IF e = "invalid" THEN Return(r, notes)
              ELSE Become(r, [q EXCEPT !.pc = "pick", !.notes = notes])
    <3> HIDE DEF q
    <3> QED BY <1>4 DEF CallFails, q
  <2> DEFINE notes == IF q.kind = "count" THEN <<>> ELSE FailureNotes(q.auth, q.model, e)
  <2>2. ra \in Timer
    BY SettingsAssumption DEF Timer, NoTime
  <2>3. AuthTypeOK'
    BY <1>1, <2>1, <2>2, MarkFailureType DEF authVars, AuthTypeOK
  <2>4. notes \in Seq(Note)
    BY <1>2
  <2> HIDE DEF notes
  <2>5. [q EXCEPT !.pc = "pick"] \in Request
    BY <1>1, FieldTypes DEF PC
  <2>6. [q EXCEPT !.pc = "pick", !.notes = notes] \in Request
    BY <2>4, <2>5, FieldTypes
  <2>7. Return(r, notes) \/ Become(r, [q EXCEPT !.pc = "pick", !.notes = notes])
    BY <2>1 DEF notes
  <2>8. req' \in [Requests -> Request]
    BY <1>1, <2>4, <2>6, <2>7, ReturnType, BecomeType
  <2> QED BY <1>4, <2>3, <2>8 DEF CallFails, TypeOK, AuthTypeOK, regVars
<1>5. CASE StreamBreaks(r)
  <2>1. PICK e \in Errors :
           /\ MarkFailure(q.auth, q.model, e, NoTime)
           /\ Become(r, [q EXCEPT !.failed = TRUE,
                                  !.notes = FailureNotes(q.auth, q.model, e)])
    BY <1>5 DEF StreamBreaks, q
  <2>2. NoTime \in Timer
    BY DEF Timer
  <2>3. AuthTypeOK'
    BY <1>1, <2>1, <2>2, MarkFailureType
  <2>4. [q EXCEPT !.failed = TRUE] \in Request
    BY <1>1, FieldTypes
  <2>5. [q EXCEPT !.failed = TRUE, !.notes = FailureNotes(q.auth, q.model, e)] \in Request
    BY <1>2, <2>4, FieldTypes
  <2>6. req' \in [Requests -> Request]
    BY <1>1, <2>1, <2>5, BecomeType
  <2> QED BY <1>5, <2>3, <2>6 DEF StreamBreaks, TypeOK, AuthTypeOK, regVars
<1>6. CASE StreamEnds(r)
  <2>1. AuthTypeOK'
    BY <1>1, <1>6, MarkSuccessType DEF StreamEnds, authVars, q, AuthTypeOK
  <2>2. req' \in [Requests -> Request]
    BY <1>1, <1>2, <1>6, NotesType, ReturnType DEF StreamEnds, q
  <2> QED BY <1>6, <2>1, <2>2 DEF StreamEnds, TypeOK, AuthTypeOK, regVars
<1> QED BY <1>3, <1>4, <1>5, <1>6

(* The steps between the calls move the request's record only. *)
LEMMA ControlType ==
    ASSUME TypeOK, NEW r \in Requests,
           \/ Start(r) \/ Pick(r) \/ PickNone(r) \/ ClientCancels(r)
           \/ Wait(r) \/ GiveUp(r) \/ NextAttempt(r)
    PROVE  TypeOK'
<1> DEFINE q == req[r]
<1>1. /\ q \in Request /\ req \in [Requests -> Request]
      /\ q.attempt \in Nat /\ q.tried \in SUBSET Auths
      /\ q.model \in Models /\ calls[r] \in Nat
  BY DEF TypeOK, Request
<1>2. <<>> \in Seq(Note)
  OBVIOUS
<1>3. UNCHANGED <<modelState, aggregate, regQuota, regSuspended>>
  BY DEF Start, Pick, PickNone, ClientCancels, CallCancelled, WaitCancelled,
         Wait, GiveUp, NextAttempt, authVars, regVars
<1>4. req' \in [Requests -> Request] /\ calls' \in [Requests -> Nat]
  <2>1. CASE Start(r)
    <3>1. PICK k \in Kinds, m \in Models, p \in Pins :
             Become(r, [IdleRequest EXCEPT !.pc = "pick", !.kind = k, !.model = m, !.pin = p])
      BY <2>1 DEF Start
    <3>2. p \in SUBSET Auths
      BY SettingsAssumption
    <3>3. [IdleRequest EXCEPT !.pc = "pick", !.kind = k, !.model = m, !.pin = p] \in Request
      BY <3>2, IdleRequestType DEF Request, PC
    <3> QED BY <1>1, <2>1, <3>1, <3>3, BecomeType DEF Start, TypeOK
  <2>2. CASE Pick(r)
    <3> HIDE DEF q
    <3>1. PICK a \in Pickable(r) :
             Become(r, [q EXCEPT !.pc = "call", !.auth = a, !.tried = q.tried \cup {a}])
      BY <2>2 DEF Pick, q
    <3>2. a \in Auths
      BY <1>1 DEF Pickable, Available, Candidates, Request, q
    <3>3. [q EXCEPT !.pc = "call"] \in Request
      BY <1>1, FieldTypes DEF PC
    <3>4. [q EXCEPT !.pc = "call", !.auth = a] \in Request
      BY <3>2, <3>3, FieldTypes
    <3>5. [q EXCEPT !.pc = "call", !.auth = a, !.tried = q.tried \cup {a}] \in Request
      BY <1>1, <3>2, <3>4, FieldTypes
    <3>6. req' \in [Requests -> Request]
      BY <1>1, <3>1, <3>5, BecomeType
    <3>7. calls' = [calls EXCEPT ![r] = @ + 1]
      BY <2>2 DEF Pick
    <3> QED BY <1>1, <3>6, <3>7 DEF TypeOK
  <2>3. CASE PickNone(r)
    <3>1. [q EXCEPT !.pc = "retry"] \in Request
      BY <1>1, FieldTypes DEF PC
    <3> QED BY <1>1, <2>3, <3>1, BecomeType DEF PickNone, TypeOK
  <2>4. CASE ClientCancels(r) \/ GiveUp(r)
    BY <1>1, <1>2, <2>4, ReturnType
       DEF ClientCancels, CallCancelled, WaitCancelled, GiveUp, TypeOK
  <2>5. CASE Wait(r)
    <3>1. Min(CooldownWaits(r)) \in Nat
      <4>1. \A w \in CooldownWaits(r) : w \in Nat
        <5>1. ASSUME NEW a \in Auths, Blocked(a, q.model)
              PROVE  BlockedFor(a, q.model) \in Nat
          <6>1. modelState[a][q.model] \in ModelStates
            BY <1>1, <5>1 DEF Blocked, Known, TypeOK
          <6> QED BY <5>1, <6>1 DEF Blocked, BlockedFor, CoolingDown, ModelStates, Timer, NoTime
        <5> QED BY <5>1 DEF CooldownWaits
      <4> QED BY <2>5, <4>1, NatMin DEF Wait, MayRetry
    <3>2. [q EXCEPT !.pc = "waiting"] \in Request
      BY <1>1, FieldTypes DEF PC
    <3>3. [q EXCEPT !.pc = "waiting", !.wait = Min(CooldownWaits(r))] \in Request
      BY <3>1, <3>2, FieldTypes
    <3> QED BY <1>1, <2>5, <3>3, BecomeType DEF Wait, TypeOK
  <2>6. CASE NextAttempt(r)
    <3> HIDE DEF q
    <3>1. [q EXCEPT !.pc = "pick"] \in Request
      BY <1>1, FieldTypes DEF PC
    <3>2. [q EXCEPT !.pc = "pick", !.attempt = q.attempt + 1] \in Request
      <4>1. q.attempt + 1 \in Nat
        BY <1>1
      <4> QED BY <3>1, <4>1, FieldTypes
    <3>3. [q EXCEPT !.pc = "pick", !.attempt = q.attempt + 1, !.tried = {}] \in Request
      BY <3>2, FieldTypes
    <3>4. Become(r, [q EXCEPT !.pc = "pick", !.attempt = q.attempt + 1, !.tried = {}])
      BY <2>6 DEF NextAttempt, q
    <3> QED BY <1>1, <2>6, <3>3, <3>4, BecomeType DEF NextAttempt, TypeOK
  <2> QED BY <2>1, <2>2, <2>3, <2>4, <2>5, <2>6
<1> QED BY <1>3, <1>4 DEF TypeOK

(* Whatever fails, expires, streams or is cancelled, every state, every    *)
(* registry mark and every request record keeps its type; in particular    *)
(* the backoff level never passes the cut of the doubled cooldown.         *)
THEOREM TypeCorrect == Spec => []TypeOK
<1>1. Init => TypeOK
  <2> SUFFICES ASSUME Init PROVE TypeOK
    OBVIOUS
  <2>1. modelState \in [Auths -> [Models -> ModelStates \cup {NoState}]]
    BY DEF Init
  <2> QED BY <2>1, FreshStateType, IdleRequestType DEF Init, TypeOK
<1>2. TypeOK /\ [Next]_vars => TypeOK'
  <2> SUFFICES ASSUME TypeOK, [Next]_vars PROVE TypeOK'
    OBVIOUS
  <2>1. CASE Tick
    BY <2>1, TickType
  <2>2. ASSUME NEW r \in Requests, Start(r) \/ Proceed(r) \/ ClientCancels(r)
        PROVE  TypeOK'
    BY <2>2, NotifyType, ResultType, ControlType DEF Proceed
  <2>3. CASE UNCHANGED vars
    BY <2>3 DEF vars, TypeOK
  <2> QED BY <2>1, <2>2, <2>3 DEF Next
<1> QED BY <1>1, <1>2, PTL DEF Spec

-----------------------------------------------------------------------------
(* AggregateTracksModels for one credential. *)
Tracks(states, g) ==
    LET known == {states[m] : m \in Known(states)}
        over  == {s \in known : s.exceeded}
    IN  /\ g.unavailable <=> /\ known # {}
                             /\ \A s \in known : s.unavailable /\ s.next # NoTime
        /\ g.next = IF g.unavailable THEN Min({s.next : s \in known}) ELSE NoTime
        /\ g.exceeded <=> over # {}
        /\ \A s \in over : s.level <= g.level
        /\ g.level > 0 => \E s \in over : s.level = g.level
        /\ g.err <=> \E s \in known : s.err

(* AggregateTracksModels, one credential at a time. *)
LEMMA TracksEach ==
    AggregateTracksModels <=> \A a \in Auths : Tracks(modelState[a], aggregate[a])
BY DEF AggregateTracksModels, Tracks

(* After the sweep nothing is unavailable with its moment come, so what    *)
(* Aggregate derives from the cooldowns still running is what Tracks says. *)
LEMMA AggregateTracks ==
    ASSUME NEW states \in [Models -> ModelStates \cup {NoState}],
           NEW err \in BOOLEAN,
           Known(states) # {},
           \A m \in Known(states) : ~ (states[m].unavailable /\ states[m].next = 0),
           err <=> HasModelError(states)
    PROVE  Tracks(states, Aggregate(states, err))
<1> DEFINE known == {states[m] : m \in Known(states)}
           down  == \A s \in known : CoolingDown(s)
           over  == {s \in known : s.exceeded}
           levels == {s.level : s \in over} \cup {0}
           g == Aggregate(states, err)
           nextOf == {s.next : s \in known}
<1>1. \A s \in known : s \in ModelStates /\ ~ (s.unavailable /\ s.next = 0)
  BY DEF Known
<1>2. known # {} /\ (err <=> \E s \in known : s.err)
  BY DEF HasModelError
<1>3. down <=> \A s \in known : s.unavailable /\ s.next # NoTime
  BY <1>1 DEF CoolingDown, ModelStates, Timer, NoTime
<1>4. Max(levels) \in levels /\ \A l \in levels : Max(levels) >= l
  <2>1. \A l \in levels : l \in 0..MaxLevel
    BY <1>1, CooldownAssumption DEF ModelStates
  <2> QED BY <2>1, BoundedMax, CooldownAssumption
<1>5. /\ g.unavailable = down /\ g.err = err /\ g.exceeded = (over # {})
      /\ g.next = IF down THEN Earliest(nextOf) ELSE NoTime
      /\ g.level = Max(levels)
  BY DEF Aggregate
<1>6. Earliest(nextOf) = Min(nextOf)
  BY <1>2 DEF Earliest
<1>7. (\A s \in over : s.level <= g.level)
      /\ (g.level > 0 => \E s \in over : s.level = g.level)
  <2>1. g.level \in levels /\ \A l \in levels : g.level >= l
    <3> HIDE DEF g, levels
    <3> QED BY <1>4, <1>5
  <2>2. \A s \in over : s.level \in levels /\ s.level \in Nat
    BY <1>1, CooldownAssumption DEF ModelStates
  <2>3. g.level = 0 \/ \E s \in over : g.level = s.level
    <3> HIDE DEF g
    <3> QED BY <2>1
  <2> HIDE DEF g, levels, over
  <2> QED BY <2>1, <2>2, <2>3
<1> HIDE DEF g, down
<1> QED BY <1>2, <1>3, <1>5, <1>6, <1>7 DEF Tracks, g

(* The sweep leaves level and error alone and clears what is over. *)
LEMMA SweptFacts ==
    ASSUME NEW s \in ModelStates
    PROVE  /\ Swept(s) \in ModelStates
           /\ Swept(s).err = s.err
           /\ ~ (Swept(s).unavailable /\ Swept(s).next = 0)
BY NoStateAssumption DEF Swept, ModelStates, Timer, NoTime

(* MarkResult of a success recomputes the aggregate of its credential.    *)
LEMMA MarkSuccessTracks ==
    ASSUME NEW a \in Auths, NEW m \in Models, AuthTypeOK, AggregateTracksModels,
           MarkSuccess(a, m)
    PROVE  AggregateTracksModels'
<1> DEFINE reset  == [modelState[a] EXCEPT ![m] = FreshState]
           states == [n \in Models |-> Swept(reset[n])]
           err    == aggregate[a].err /\ HasModelError(states)
<1>1. reset \in [Models -> ModelStates \cup {NoState}]
  BY FreshStateType DEF AuthTypeOK
<1>2. states \in [Models -> ModelStates \cup {NoState}]
  BY <1>1, SweptType
<1>3. \A n \in Models : reset[n] # NoState =>
         /\ states[n] \in ModelStates
         /\ states[n].err = reset[n].err
         /\ ~ (states[n].unavailable /\ states[n].next = 0)
  BY <1>1, SweptFacts
<1>4. \A n \in Models : reset[n] = NoState => states[n] = NoState
  BY DEF Swept
<1>5. reset[m] # NoState
  BY FreshStateType, NoStateAssumption DEF AuthTypeOK
<1>6. Known(states) # {}
  BY <1>3, <1>5, NoStateAssumption DEF Known
<1>7. \A n \in Known(states) : ~ (states[n].unavailable /\ states[n].next = 0)
  BY <1>3, <1>4 DEF Known
<1>8. HasModelError(states) => aggregate[a].err
  <2> SUFFICES ASSUME HasModelError(states) PROVE aggregate[a].err
    OBVIOUS
  <2>1. PICK n \in Known(states) : states[n].err
    BY DEF HasModelError
  <2>2. n \in Models /\ reset[n].err
    BY <1>3, <1>4, <2>1 DEF Known
  <2>3. n # m
    BY <2>2 DEF FreshState, AuthTypeOK
  <2>4. modelState[a][n].err /\ modelState[a][n] # NoState
    BY <1>3, <1>4, <2>1, <2>2, <2>3 DEF Known, AuthTypeOK
  <2>5. Tracks(modelState[a], aggregate[a])
    BY TracksEach
  <2> QED BY <2>2, <2>4, <2>5 DEF Tracks, Known
<1>9. err <=> HasModelError(states)
  BY <1>8
<1>10. Tracks(states, Aggregate(states, err))
  <2>1. err \in BOOLEAN
    OBVIOUS
  <2> HIDE DEF err, states
  <2> QED BY <1>2, <1>6, <1>7, <1>9, <2>1, AggregateTracks
<1>11. /\ modelState' = [modelState EXCEPT ![a] = states]
       /\ aggregate' = [aggregate EXCEPT ![a] = Aggregate(states, err)]
  BY DEF MarkSuccess
<1>12. \A b \in Auths : Tracks(modelState'[b], aggregate'[b])
  <2> HIDE DEF err, states
  <2>1. \A b \in Auths : Tracks(modelState[b], aggregate[b])
    BY TracksEach
  <2> QED BY <1>10, <1>11, <2>1 DEF AuthTypeOK
<1> QED BY <1>12 DEF AggregateTracksModels, Tracks, Known

(* So does MarkResult of a failure, and touches no other credential.       *)
LEMMA MarkFailureTracks ==
    ASSUME NEW a \in Auths, NEW m \in Models, NEW e, NEW ra \in Timer,
           AuthTypeOK, AggregateTracksModels, MarkFailure(a, m, e, ra)
    PROVE  AggregateTracksModels'
<1> DEFINE old    == IF modelState[a][m] = NoState THEN FreshState ELSE modelState[a][m]
           failed == Failed(old, a, e, ra)
           marked == [modelState[a] EXCEPT ![m] = failed]
           states == [n \in Models |-> Swept(marked[n])]
<1>1. old \in ModelStates
  BY FreshStateType DEF AuthTypeOK
<1>2. failed \in ModelStates /\ failed.err
  BY <1>1, FailedType DEF Failed
<1>3. marked \in [Models -> ModelStates \cup {NoState}] /\ marked[m] = failed
  <2> HIDE DEF failed
  <2> QED BY <1>2 DEF AuthTypeOK
<1> HIDE DEF marked, failed
<1>4. states \in [Models -> ModelStates \cup {NoState}]
  BY <1>3, SweptType
<1>5. \A n \in Models : marked[n] # NoState =>
         /\ states[n] \in ModelStates
         /\ states[n].err = marked[n].err
         /\ ~ (states[n].unavailable /\ states[n].next = 0)
  BY <1>3, SweptFacts
<1>6. \A n \in Models : marked[n] = NoState => states[n] = NoState
  BY DEF Swept
<1>7. m \in Known(states) /\ states[m].err
  BY <1>2, <1>3, <1>5, NoStateAssumption DEF Known
<1>8. \A n \in Known(states) : ~ (states[n].unavailable /\ states[n].next = 0)
  BY <1>5, <1>6 DEF Known
<1>9. Tracks(states, Aggregate(states, TRUE))
  <2>1. HasModelError(states)
    BY <1>7 DEF HasModelError
  <2> HIDE DEF states
  <2> QED BY <1>4, <1>7, <1>8, <2>1, AggregateTracks
<1>10. /\ modelState' = [modelState EXCEPT ![a] = states]
       /\ aggregate' = [aggregate EXCEPT ![a] = Aggregate(states, TRUE)]
  BY DEF MarkFailure, marked, failed
<1>11. \A b \in Auths : Tracks(modelState'[b], aggregate'[b])
  <2> HIDE DEF states
  <2>1. \A b \in Auths : Tracks(modelState[b], aggregate[b])
    BY TracksEach
  <2> QED BY <1>9, <1>10, <2>1 DEF AuthTypeOK
<1> QED BY <1>11 DEF AggregateTracksModels, Tracks, Known

(* What a state keeps when time passes, and how its timer moves. *)
LEMMA AgedFacts ==
    ASSUME NEW s \in ModelStates
    PROVE  /\ Aged(s) \in ModelStates
           /\ Aged(s).unavailable = s.unavailable
           /\ Aged(s).err = s.err
           /\ Aged(s).exceeded = s.exceeded
           /\ Aged(s).level = s.level
           /\ Aged(s).next = Sooner(s.next)
<1>1. s # NoState
  BY NoStateAssumption
<1>2. Aged(s) \in ModelStates
  BY AgedType
<1> QED BY <1>1, <1>2 DEF Aged, ModelStates

(* A minimum of times ages like the times. *)
LEMMA MinAges ==
    ASSUME NEW S, S # {}, \A t \in S : t \in Nat
    PROVE  Min({Sooner(t) : t \in S}) = Sooner(Min(S))
<1> DEFINE aged == {Sooner(t) : t \in S}
<1>1. Min(S) \in S /\ \A t \in S : Min(S) <= t
  BY NatMin
<1>2. Min(aged) \in aged /\ \A t \in aged : Min(aged) <= t
  <2>1. aged # {} /\ \A t \in aged : t \in Nat
    BY DEF Sooner
  <2> HIDE DEF aged
  <2> QED BY <2>1, NatMin
<1>3. PICK x \in S : Min(aged) = Sooner(x)
  BY <1>2
<1>4. Min(aged) <= Sooner(Min(S))
  BY <1>1, <1>2
<1>5. Min(S) <= x
  BY <1>1
<1>6. Sooner(Min(S)) <= Sooner(x)
  BY <1>1, <1>3, <1>5 DEF Sooner
<1>7. Sooner(x) \in Nat /\ Sooner(Min(S)) \in Nat
  BY <1>1, <1>3 DEF Sooner
<1> HIDE DEF aged
<1>8. Min(aged) = Sooner(Min(S))
  BY <1>3, <1>4, <1>6, <1>7
<1> QED BY <1>8 DEF aged

(* Time moves the timers of the model states and of the aggregate alike.   *)
LEMMA TickTracks ==
    ASSUME NEW states \in [Models -> ModelStates \cup {NoState}],
           NEW g \in ModelStates, Tracks(states, g)
    PROVE  Tracks([m \in Models |-> Aged(states[m])], Aged(g))
<1> DEFINE older == [m \in Models |-> Aged(states[m])]
           known == {states[m] : m \in Known(states)}
           knownOld == {older[m] : m \in Known(older)}
<1>1. Known(older) = Known(states)
  <2>1. \A m \in Models : Aged(states[m]) = NoState <=> states[m] = NoState
    BY AgedFacts, NoStateAssumption DEF Aged
  <2> QED BY <2>1 DEF Known
<1>2. knownOld = {Aged(s) : s \in known}
  BY <1>1 DEF Known
<1>3. \A s \in known : s \in ModelStates
  BY DEF Known
<1>4. \A s \in known :
         /\ Aged(s) \in ModelStates
         /\ Aged(s).unavailable = s.unavailable /\ Aged(s).err = s.err
         /\ Aged(s).exceeded = s.exceeded /\ Aged(s).level = s.level
         /\ Aged(s).next = Sooner(s.next)
  BY <1>3, AgedFacts
<1>5. /\ Aged(g) \in ModelStates
      /\ Aged(g).unavailable = g.unavailable /\ Aged(g).err = g.err
      /\ Aged(g).exceeded = g.exceeded /\ Aged(g).level = g.level
      /\ Aged(g).next = Sooner(g.next)
  BY AgedFacts
<1>6. \A t \in Timer : (Sooner(t) = NoTime <=> t = NoTime)
  BY DEF Sooner, Timer, NoTime
<1>7. \A s \in known : s.next \in Timer
  BY <1>3 DEF ModelStates
<1> HIDE DEF known, knownOld
<1>8. Aged(g).unavailable <=>
         /\ knownOld # {}
         /\ \A s \in knownOld : s.unavailable /\ s.next # NoTime
  BY <1>2, <1>4, <1>5, <1>6, <1>7 DEF Tracks, known
<1>9. Aged(g).next = IF Aged(g).unavailable
                     THEN Min({s.next : s \in knownOld}) ELSE NoTime
  <2>1. CASE g.unavailable
    <3>1. /\ known # {} /\ \A s \in known : s.next # NoTime
          /\ g.next = Min({s.next : s \in known})
      BY <2>1 DEF Tracks, known
    <3>2. {s.next : s \in known} # {} /\ \A t \in {s.next : s \in known} : t \in Nat
      BY <1>7, <3>1 DEF Timer
    <3>3. {s.next : s \in knownOld} = {Sooner(t) : t \in {s.next : s \in known}}
      BY <1>2, <1>4
    <3>4. Min({Sooner(t) : t \in {s.next : s \in known}})
             = Sooner(Min({s.next : s \in known}))
      BY <3>2, MinAges
    <3> QED BY <1>5, <2>1, <3>1, <3>3, <3>4
  <2>2. CASE ~ g.unavailable
    BY <1>5, <2>2 DEF Tracks, Sooner, NoTime
  <2> QED BY <2>1, <2>2
<1>10. Aged(g).exceeded <=> {s \in knownOld : s.exceeded} # {}
  BY <1>2, <1>4, <1>5 DEF Tracks, known
<1>11. \A s \in knownOld : s.exceeded => s.level <= Aged(g).level
  BY <1>2, <1>4, <1>5 DEF Tracks, known
<1>12. Aged(g).level > 0 => \E s \in {s \in knownOld : s.exceeded} : s.level = Aged(g).level
  BY <1>2, <1>4, <1>5 DEF Tracks, known
<1>13. Aged(g).err <=> \E s \in knownOld : s.err
  BY <1>2, <1>4, <1>5 DEF Tracks, known
<1> QED BY <1>8, <1>9, <1>10, <1>11, <1>12, <1>13 DEF Tracks, knownOld

(* What the selector and the management API read of a credential is never  *)
(* out of step with its model states: MarkResult recomputes it under the   *)
(* lock and time moves both alike.                                         *)
THEOREM AggregateAlwaysTracks == Spec => []AggregateTracksModels
<1>1. Init => AggregateTracksModels
  <2> SUFFICES ASSUME Init PROVE \A a \in Auths : Tracks(modelState[a], aggregate[a])
    BY TracksEach
  <2> TAKE a \in Auths
  <2>1. Known(modelState[a]) = {} /\ aggregate[a] = FreshState
    BY DEF Init, Known
  <2> QED BY <2>1 DEF Tracks, FreshState
<1>2. TypeOK /\ AggregateTracksModels /\ [Next]_vars => AggregateTracksModels'
  <2> SUFFICES ASSUME TypeOK, AggregateTracksModels, [Next]_vars
               PROVE  AggregateTracksModels'
    OBVIOUS
  <2>1. AuthTypeOK
    BY DEF TypeOK, AuthTypeOK
  <2>2. UNCHANGED authVars => AggregateTracksModels'
    <3> SUFFICES ASSUME UNCHANGED authVars PROVE AggregateTracksModels'
      OBVIOUS
    <3>1. modelState' = modelState /\ aggregate' = aggregate
      BY DEF authVars
    <3>2. \A a \in Auths : Tracks(modelState'[a], aggregate'[a])
      BY <3>1, TracksEach
    <3> QED BY <3>2 DEF AggregateTracksModels, Tracks, Known
  <2>3. CASE Tick
    <3>1. \A a \in Auths : Tracks(modelState[a], aggregate[a])
      BY TracksEach
    <3>2. \A a \in Auths : /\ modelState'[a] = [m \in Models |-> Aged(modelState[a][m])]
                           /\ aggregate'[a] = Aged(aggregate[a])
      BY <2>3 DEF Tick
    <3>3. \A a \in Auths : Tracks(modelState'[a], aggregate'[a])
      <4> TAKE a \in Auths
      <4> DEFINE states == modelState[a]
                 g == aggregate[a]
      <4>1. /\ states \in [Models -> ModelStates \cup {NoState}]
            /\ g \in ModelStates /\ Tracks(states, g)
        BY <2>1, <3>1 DEF AuthTypeOK
      <4>2. /\ modelState'[a] = [m \in Models |-> Aged(states[m])]
            /\ aggregate'[a] = Aged(g)
        BY <3>2
      <4> HIDE DEF states, g
      <4>3. Tracks([m \in Models |-> Aged(states[m])], Aged(g))
        BY <4>1, TickTracks
      <4> QED BY <4>2, <4>3
    <3> QED BY <3>3 DEF AggregateTracksModels, Tracks, Known
  <2>4. ASSUME NEW r \in Requests, Start(r) \/ Proceed(r) \/ ClientCancels(r)
        PROVE  AggregateTracksModels'
    <3>1. req[r].auth \in Auths /\ req[r].model \in Models
      BY DEF TypeOK, Request
    <3>2. CASE CallSucceeds(r) \/ StreamEnds(r)
      BY <2>1, <2>2, <3>1, <3>2, MarkSuccessTracks DEF CallSucceeds, StreamEnds
    <3>3. CASE CallFails(r)
      <4>1. PICK e \in Errors, ra \in RetryAfters \cup {NoTime} :
               UNCHANGED authVars \/ MarkFailure(req[r].auth, req[r].model, e, ra)
        BY <3>3 DEF CallFails
      <4>2. ra \in Timer
        BY SettingsAssumption DEF Timer, NoTime
      <4> QED BY <2>1, <2>2, <3>1, <4>1, <4>2, MarkFailureTracks
    <3>4. CASE StreamBreaks(r)
      <4>1. PICK e \in Errors : MarkFailure(req[r].auth, req[r].model, e, NoTime)
        BY <3>4 DEF StreamBreaks
      <4>2. NoTime \in Timer
        BY DEF Timer
      <4> QED BY <2>1, <3>1, <4>1, <4>2, MarkFailureTracks
    <3>5. CASE \/ Start(r) \/ Notify(r) \/ Pick(r) \/ PickNone(r)
               \/ Wait(r) \/ GiveUp(r) \/ NextAttempt(r) \/ ClientCancels(r)
      BY <2>2, <3>5 DEF Start, Notify, Pick, PickNone, Wait, GiveUp, NextAttempt,
                        ClientCancels, CallCancelled, WaitCancelled
    <3> QED BY <2>4, <3>2, <3>3, <3>4, <3>5 DEF Proceed
  <2>5. CASE UNCHANGED vars
    BY <2>2, <2>5 DEF vars, authVars
  <2> QED BY <2>3, <2>4, <2>5 DEF Next
<1> QED BY <1>1, <1>2, TypeCorrect, PTL DEF Spec

-----------------------------------------------------------------------------
(* The strengthening of UpstreamCallsBounded: every call of a request under *)
(* way belongs to an earlier attempt or is remembered in tried, and a next  *)
(* attempt needs a credential whose retry setting allows it.               *)
Covered(q, n) ==
    /\ q.pc = "idle" => \E a \in Auths : n <= (EffectiveRetry[a] + 1) * RoundCap
    /\ q.pc # "idle" =>
          /\ n <= q.attempt * RoundCap + Cardinality(q.tried)
          /\ Cardinality(q.tried) <= RoundCap
          /\ \E a \in Auths : q.attempt <= EffectiveRetry[a]
    /\ q.pc = "waiting" => \E a \in Auths : q.attempt < EffectiveRetry[a]

(* The inductive invariant: every request is covered. *)
CallsCovered == \A r \in Requests : Covered(req[r], calls[r])

(* A round tries a number of credentials. *)
LEMMA RoundCapType == RoundCap \in Nat
BY AuthsAssumption, SettingsAssumption, FS_CardinalityType DEF RoundCap

(* One attempt more is one round of calls more. *)
LEMMA MoreAttempts ==
    ASSUME NEW n \in Nat, NEW k \in Nat, NEW c \in Nat, n <= k
    PROVE  n * c + c <= (k + 1) * c
<1> DEFINE d == k - n
<1>1. d \in Nat /\ k = n + d
  OBVIOUS
<1> HIDE DEF d
<1>2. (n + d + 1) * c = n * c + d * c + c
  BY <1>1
<1>3. d * c \in Nat /\ n * c \in Nat
  BY <1>1
<1>4. (k + 1) * c = n * c + d * c + c
  BY <1>1, <1>2
<1> QED BY <1>3, <1>4

(* A covered request is within the bound of UpstreamCallsBounded. *)
LEMMA CoveredBounds ==
    ASSUME NEW q \in Request, NEW n \in Nat, Covered(q, n)
    PROVE  \E a \in Auths : n <= (EffectiveRetry[a] + 1) * RoundCap
<1>1. CASE q.pc = "idle"
  BY <1>1 DEF Covered
<1>2. CASE q.pc # "idle"
  <2>1. PICK a \in Auths : q.attempt <= EffectiveRetry[a]
    BY <1>2 DEF Covered
  <2>2. q.attempt \in Nat /\ EffectiveRetry[a] \in Nat /\ RoundCap \in Nat
    BY RoundCapType, SettingsAssumption DEF Request
  <2>3. Cardinality(q.tried) \in Nat
    BY AuthsAssumption, FS_Subset, FS_CardinalityType DEF Request
  <2>4. n <= q.attempt * RoundCap + RoundCap
    <3>1. q.attempt * RoundCap \in Nat
      BY <2>2
    <3> QED BY <1>2, <2>2, <2>3, <3>1 DEF Covered
  <2>5. q.attempt * RoundCap + RoundCap <= (EffectiveRetry[a] + 1) * RoundCap
    BY <2>1, <2>2, MoreAttempts
  <2>6. q.attempt * RoundCap \in Nat /\ (EffectiveRetry[a] + 1) * RoundCap \in Nat
    BY <2>2
  <2> QED BY <2>2, <2>4, <2>5, <2>6
<1> QED BY <1>1, <1>2

(* A step of one request that leaves it covered leaves all covered. *)
LEMMA CoveredStep ==
    ASSUME TypeOK, CallsCovered, NEW r \in Requests, NEW record,
           Become(r, record), NEW n, calls' = [calls EXCEPT ![r] = n],
           Covered(record, n)
    PROVE  CallsCovered'
<1>1. req' = [req EXCEPT ![r] = record]
  BY DEF Become
<1>2. \A s \in Requests : Covered(req'[s], calls'[s])
  BY <1>1 DEF TypeOK, CallsCovered
<1> QED BY <1>2 DEF CallsCovered, Covered, RoundCap

(* The same for a step that calls no provider. *)
LEMMA CoveredKeep ==
    ASSUME TypeOK, CallsCovered, NEW r \in Requests, NEW record,
           Become(r, record), UNCHANGED calls, Covered(record, calls[r])
    PROVE  CallsCovered'
<1>1. calls' = [calls EXCEPT ![r] = calls[r]]
  BY DEF TypeOK
<1> QED BY <1>1, CoveredStep

(* A request that answers starts over with no calls made. *)
LEMMA CoveredReturn ==
    ASSUME TypeOK, CallsCovered, NEW r \in Requests, NEW notes,
           Return(r, notes), UNCHANGED calls
    PROVE  CallsCovered'
<1>1. req[r] \in Request /\ calls[r] \in Nat /\ Covered(req[r], calls[r])
  BY DEF TypeOK, CallsCovered
<1>2. \E a \in Auths : calls[r] <= (EffectiveRetry[a] + 1) * RoundCap
  BY <1>1, CoveredBounds
<1>3. [IdleRequest EXCEPT !.notes = notes].pc = "idle"
  BY DEF IdleRequest
<1>4. Covered([IdleRequest EXCEPT !.notes = notes], calls[r])
  BY <1>2, <1>3 DEF Covered
<1> QED BY <1>4, CoveredKeep DEF Return

(* A step that leaves the label, the attempt and the tried set alone, or   *)
(* moves on within the round, stays covered.                               *)
LEMMA CoveredWithin ==
    ASSUME NEW q \in Request, NEW n, Covered(q, n), q.pc # "idle",
           NEW p \in Request, p.pc \notin {"idle", "waiting"},
           p.attempt = q.attempt, p.tried = q.tried
    PROVE  Covered(p, n)
BY DEF Covered

(* A pick adds a credential to the round and a call to the count. *)
LEMMA PickCovered ==
    ASSUME TypeOK, CallsCovered, NEW r \in Requests, Pick(r)
    PROVE  CallsCovered'
<1> DEFINE q == req[r]
<1>1. /\ q \in Request /\ q.tried \in SUBSET Auths /\ q.attempt \in Nat
      /\ calls[r] \in Nat /\ Covered(q, calls[r]) /\ q.pc = "pick" /\ ~RoundFull(r)
  BY DEF TypeOK, CallsCovered, Request, Pick, At
<1>2. PICK a \in Pickable(r) :
         Become(r, [q EXCEPT !.pc = "call", !.auth = a, !.tried = q.tried \cup {a}])
  BY DEF Pick
<1>3. a \in Auths /\ a \notin q.tried
  BY <1>1 DEF Pickable, Available, Candidates, Request
<1> DEFINE tried == q.tried \cup {a}
           p == [q EXCEPT !.pc = "call", !.auth = a, !.tried = tried]
<1>4. IsFiniteSet(q.tried) /\ Cardinality(q.tried) \in Nat
  BY <1>1, AuthsAssumption, FS_Subset, FS_CardinalityType
<1>5. Cardinality(tried) = Cardinality(q.tried) + 1
  BY <1>3, <1>4, FS_AddElement
<1>6. Cardinality(tried) <= RoundCap
  <2>1. CASE MaxRetryCredentials > 0 /\ MaxRetryCredentials < Cardinality(Auths)
    <3>1. Cardinality(q.tried) < MaxRetryCredentials
      BY <1>1, <1>4, <2>1, SettingsAssumption DEF RoundFull
    <3> QED BY <1>4, <1>5, <2>1, <3>1, SettingsAssumption DEF RoundCap
  <2>2. CASE ~ (MaxRetryCredentials > 0 /\ MaxRetryCredentials < Cardinality(Auths))
    <3>1. tried \subseteq Auths
      BY <1>1, <1>3
    <3>2. Cardinality(tried) <= Cardinality(Auths)
      <4> HIDE DEF tried
      <4> QED BY <3>1, AuthsAssumption, FS_Subset
    <3> QED BY <2>2, <3>2 DEF RoundCap
  <2> QED BY <2>1, <2>2
<1>7. p.pc = "call" /\ p.attempt = q.attempt /\ p.tried = tried
  BY <1>1 DEF Request
<1>8. Covered(p, calls[r] + 1)
  <2>1. q.attempt * RoundCap \in Nat
    BY <1>1, RoundCapType
  <2>2. /\ calls[r] <= q.attempt * RoundCap + Cardinality(q.tried)
        /\ \E b \in Auths : q.attempt <= EffectiveRetry[b]
    BY <1>1 DEF Covered
  <2>3. calls[r] + 1 <= q.attempt * RoundCap + Cardinality(tried)
    BY <1>1, <1>4, <1>5, <2>1, <2>2
  <2> HIDE DEF p, q, tried
  <2> QED BY <1>6, <1>7, <2>2, <2>3 DEF Covered
<1>9. calls' = [calls EXCEPT ![r] = calls[r] + 1]
  BY DEF Pick
<1> HIDE DEF q
<1> QED BY <1>2, <1>8, <1>9, CoveredStep

(* However requests interleave, fail, wait and retry, one request makes no *)
(* more provider calls than the retry settings of the credentials and the  *)
(* credentials (or max-retry-credentials) allow.                           *)
THEOREM UpstreamAlwaysBounded == Spec => []UpstreamCallsBounded
<1>1. Init => CallsCovered
  <2> SUFFICES ASSUME Init, NEW r \in Requests PROVE Covered(req[r], calls[r])
    BY DEF CallsCovered
  <2>1. req[r].pc = "idle" /\ calls[r] = 0
    BY DEF Init, IdleRequest
  <2>2. \A a \in Auths : 0 <= (EffectiveRetry[a] + 1) * RoundCap
    <3> TAKE a \in Auths
    <3>1. EffectiveRetry[a] + 1 \in Nat /\ RoundCap \in Nat
      BY SettingsAssumption, RoundCapType
    <3>2. (EffectiveRetry[a] + 1) * RoundCap \in Nat
      BY <3>1
    <3> QED BY <3>2
  <2> QED BY <2>1, <2>2, AuthsAssumption DEF Covered
<1>2. TypeOK /\ CallsCovered /\ [Next]_vars => CallsCovered'
  <2> SUFFICES ASSUME TypeOK, CallsCovered, [Next]_vars PROVE CallsCovered'
    OBVIOUS
  <2>1. CASE Tick
    <3>1. ASSUME NEW r \in Requests
          PROVE  Covered(req'[r], calls'[r])
      <4>1. /\ req[r] \in Request /\ Covered(req[r], calls[r])
            /\ req'[r] = [req[r] EXCEPT !.wait = Sooner(@)]
            /\ calls'[r] = calls[r]
        BY <2>1 DEF TypeOK, CallsCovered, Tick
      <4>2. /\ req'[r].pc = req[r].pc /\ req'[r].tried = req[r].tried
            /\ req'[r].attempt = req[r].attempt
        BY <4>1 DEF Request
      <4> QED BY <4>1, <4>2 DEF Covered
    <3> QED BY <3>1 DEF CallsCovered, Covered, RoundCap
  <2>2. ASSUME NEW r \in Requests, Start(r) \/ Proceed(r) \/ ClientCancels(r)
        PROVE  CallsCovered'
    <3> DEFINE q == req[r]
    <3>1. /\ q \in Request /\ calls[r] \in Nat /\ Covered(q, calls[r])
          /\ q.tried \in SUBSET Auths /\ q.attempt \in Nat
      BY DEF TypeOK, CallsCovered, Request
    <3>2. CASE Start(r)
      <4>1. PICK k \in Kinds, m \in Models, p \in Pins :
               Become(r, [IdleRequest EXCEPT !.pc = "pick", !.kind = k,
                                             !.model = m, !.pin = p])
        BY <3>2 DEF Start
      <4> DEFINE start == [IdleRequest EXCEPT !.pc = "pick", !.kind = k,
                                              !.model = m, !.pin = p]
      <4>2. start.pc = "pick" /\ start.attempt = 0 /\ start.tried = {}
        BY DEF IdleRequest
      <4>3. \A a \in Auths : 0 <= EffectiveRetry[a]
        BY SettingsAssumption
      <4>4. 0 * RoundCap = 0 /\ Cardinality({}) = 0 /\ RoundCap \in Nat
        BY RoundCapType, FS_EmptySet
      <4>5. Covered(start, 0)
        <5> HIDE DEF start
        <5> QED BY <4>2, <4>3, <4>4, AuthsAssumption DEF Covered
      <4> QED BY <3>2, <4>1, <4>5, CoveredStep DEF Start
    <3>3. CASE Notify(r)
      <4> DEFINE p == [q EXCEPT !.notes = Tail(@)]
      <4>1. p.pc = q.pc /\ p.attempt = q.attempt /\ p.tried = q.tried
        BY <3>1 DEF Request
      <4>2. Covered(p, calls[r])
        <5> HIDE DEF p, q
        <5> QED BY <3>1, <4>1 DEF Covered
      <4>3. Become(r, p) /\ UNCHANGED calls
        BY <3>3 DEF Notify
      <4> QED BY <4>2, <4>3, CoveredKeep
    <3>4. CASE Pick(r)
      BY <3>4, PickCovered
    <3>5. CASE PickNone(r)
      <4> DEFINE p == [q EXCEPT !.pc = "retry"]
      <4>1. /\ p.pc = "retry" /\ p.attempt = q.attempt /\ p.tried = q.tried
            /\ p \in Request /\ q.pc = "pick"
        BY <3>1, <3>5 DEF Request, PC, PickNone, At
      <4>2. Covered(p, calls[r])
        <5> HIDE DEF p, q
        <5> QED BY <3>1, <4>1, CoveredWithin
      <4>3. Become(r, p) /\ UNCHANGED calls
        BY <3>5 DEF PickNone
      <4> QED BY <4>2, <4>3, CoveredKeep
    <3>6. CASE CallSucceeds(r)
      <4> DEFINE p == [q EXCEPT !.pc = "streaming"]
      <4>1. /\ p.pc = "streaming" /\ p.attempt = q.attempt /\ p.tried = q.tried
            /\ p \in Request /\ q.pc = "call"
        BY <3>1, <3>6 DEF Request, PC, CallSucceeds, At
      <4>2. Covered(p, calls[r])
        <5> HIDE DEF p, q
        <5> QED BY <3>1, <4>1, CoveredWithin
      <4>3. UNCHANGED calls /\ (Become(r, p) \/ \E notes : Return(r, notes))
        BY <3>6 DEF CallSucceeds
      <4> QED BY <4>2, <4>3, CoveredKeep, CoveredReturn
    <3>7. CASE CallFails(r)
      <4>1. PICK notes : Return(r, notes) \/ Become(r, [q EXCEPT !.pc = "pick", !.notes = notes])
        BY <3>7 DEF CallFails
      <4> DEFINE p == [q EXCEPT !.pc = "pick", !.notes = notes]
      <4>2. p.pc = "pick" /\ p.attempt = q.attempt /\ p.tried = q.tried /\ q.pc = "call"
        BY <3>1, <3>7 DEF Request, CallFails, At
      <4>3. Covered(p, calls[r])
        <5> HIDE DEF p, q
        <5> QED BY <3>1, <4>2 DEF Covered
      <4>4. UNCHANGED calls
        BY <3>7 DEF CallFails
      <4> QED BY <4>1, <4>3, <4>4, CoveredKeep, CoveredReturn
    <3>8. CASE StreamBreaks(r)
      <4>1. PICK notes : Become(r, [q EXCEPT !.failed = TRUE, !.notes = notes])
        BY <3>8 DEF StreamBreaks
      <4> DEFINE p == [q EXCEPT !.failed = TRUE, !.notes = notes]
      <4>2. p.pc = q.pc /\ p.attempt = q.attempt /\ p.tried = q.tried
        BY <3>1 DEF Request
      <4>3. Covered(p, calls[r])
        <5> HIDE DEF p, q
        <5> QED BY <3>1, <4>2 DEF Covered
      <4>4. UNCHANGED calls
        BY <3>8 DEF StreamBreaks
      <4> QED BY <4>1, <4>3, <4>4, CoveredKeep
    <3>9. CASE StreamEnds(r)
      <4>1. UNCHANGED calls /\ \E notes : Return(r, notes)
        BY <3>9 DEF StreamEnds
      <4> QED BY <4>1, CoveredReturn
    <3>10. CASE Wait(r)
      <4> DEFINE p == [q EXCEPT !.pc = "waiting", !.wait = Min(CooldownWaits(r))]
      <4>1. p.pc = "waiting" /\ p.attempt = q.attempt /\ p.tried = q.tried /\ q.pc = "retry"
        BY <3>1, <3>10 DEF Request, Wait, At
      <4>2. \E a \in Auths : q.attempt < EffectiveRetry[a]
        BY <3>10 DEF Wait, MayRetry, CooldownWaits
      <4>3. Covered(p, calls[r])
        <5> HIDE DEF p, q
        <5> QED BY <3>1, <4>1, <4>2 DEF Covered
      <4>4. Become(r, p) /\ UNCHANGED calls
        BY <3>10 DEF Wait
      <4> QED BY <4>3, <4>4, CoveredKeep
    <3>11. CASE NextAttempt(r)
      <4> DEFINE p == [q EXCEPT !.pc = "pick", !.attempt = q.attempt + 1, !.tried = {}]
      <4>1. p.pc = "pick" /\ p.attempt = q.attempt + 1 /\ p.tried = {} /\ q.pc = "waiting"
        BY <3>1, <3>11 DEF Request, NextAttempt, At
      <4>2. PICK a \in Auths : q.attempt < EffectiveRetry[a]
        BY <3>1, <4>1 DEF Covered
      <4>3. q.attempt + 1 <= EffectiveRetry[a]
        BY <3>1, <4>2, SettingsAssumption
      <4>4. IsFiniteSet(q.tried) /\ Cardinality(q.tried) \in Nat
        BY <3>1, AuthsAssumption, FS_Subset, FS_CardinalityType
      <4>5. calls[r] <= (q.attempt + 1) * RoundCap
        <5>1. /\ calls[r] <= q.attempt * RoundCap + Cardinality(q.tried)
              /\ Cardinality(q.tried) <= RoundCap
          BY <3>1, <4>1 DEF Covered
        <5>2. q.attempt * RoundCap + RoundCap <= (q.attempt + 1) * RoundCap
          BY <3>1, RoundCapType, MoreAttempts
        <5>3. q.attempt * RoundCap \in Nat /\ (q.attempt + 1) * RoundCap \in Nat
          BY <3>1, RoundCapType
        <5> HIDE DEF q
        <5> QED BY <3>1, <4>4, <5>1, <5>2, <5>3, RoundCapType
      <4>6. Cardinality({}) = 0 /\ RoundCap \in Nat
        BY RoundCapType, FS_EmptySet
      <4>7. (q.attempt + 1) * RoundCap \in Nat
        BY <3>1, RoundCapType
      <4>8. Covered(p, calls[r])
        <5> HIDE DEF p, q
        <5> QED BY <3>1, <4>1, <4>3, <4>5, <4>6, <4>7 DEF Covered
      <4>9. Become(r, p) /\ UNCHANGED calls
        BY <3>11 DEF NextAttempt
      <4> QED BY <4>8, <4>9, CoveredKeep
    <3>12. CASE GiveUp(r) \/ ClientCancels(r)
      <4>1. UNCHANGED calls /\ Return(r, <<>>)
        BY <3>12 DEF GiveUp, ClientCancels, CallCancelled, WaitCancelled
      <4> QED BY <4>1, CoveredReturn
    <3> QED BY <2>2, <3>2, <3>3, <3>4, <3>5, <3>6, <3>7, <3>8, <3>9, <3>10,
               <3>11, <3>12 DEF Proceed
  <2>3. CASE UNCHANGED vars
    <3>1. \A r \in Requests : Covered(req'[r], calls'[r])
      BY <2>3 DEF vars, CallsCovered
    <3> QED BY <3>1 DEF CallsCovered, Covered, RoundCap
  <2> QED BY <2>1, <2>2, <2>3 DEF Next
<1>3. TypeOK /\ CallsCovered => UpstreamCallsBounded
  <2> SUFFICES ASSUME TypeOK, CallsCovered, NEW r \in Requests
               PROVE  \E a \in Auths : calls[r] <= (EffectiveRetry[a] + 1) * RoundCap
    BY DEF UpstreamCallsBounded
  <2>1. req[r] \in Request /\ calls[r] \in Nat /\ Covered(req[r], calls[r])
    BY DEF TypeOK, CallsCovered
  <2> QED BY <2>1, CoveredBounds
<1> QED BY <1>1, <1>2, <1>3, TypeCorrect, PTL DEF Spec

-----------------------------------------------------------------------------
(* What MarkResult leaves of a credential's other model states: the sweep   *)
(* of updateAggregatedAvailability is all that touches them.                *)
OthersSwept(a, m) ==
    \A b \in Auths, n \in Models :
        ~ (b = a /\ n = m) => modelState'[b][n] \in {modelState[b][n], Swept(modelState[b][n])}

(* The sweep leaves the level alone. *)
LEMMA SweptLeaves ==
    ASSUME NEW s \in ModelStates
    PROVE  Swept(s).level = s.level
BY NoStateAssumption DEF Swept, ModelStates

(* MarkResult of a success, at the model and elsewhere. *)
LEMMA MarkSuccessLeaves ==
    ASSUME NEW a \in Auths, NEW m \in Models, AuthTypeOK, MarkSuccess(a, m)
    PROVE  OthersSwept(a, m) /\ modelState'[a][m] = FreshState
<1> DEFINE reset  == [modelState[a] EXCEPT ![m] = FreshState]
           states == [n \in Models |-> Swept(reset[n])]
<1>1. modelState' = [modelState EXCEPT ![a] = states]
  BY DEF MarkSuccess
<1>2. modelState'[a] = states
  BY <1>1 DEF AuthTypeOK
<1>3. \A b \in Auths : b # a => modelState'[b] = modelState[b]
  BY <1>1 DEF AuthTypeOK
<1>4. \A n \in Models : n # m => states[n] = Swept(modelState[a][n])
  BY DEF AuthTypeOK
<1>5. states[m] = Swept(FreshState)
  BY DEF AuthTypeOK
<1>6. Swept(FreshState) = FreshState
  BY DEF Swept, FreshState
<1> HIDE DEF states
<1> QED BY <1>2, <1>3, <1>4, <1>5, <1>6 DEF OthersSwept

(* MarkResult of a failure. *)
LEMMA MarkFailureLeaves ==
    ASSUME NEW a \in Auths, NEW m \in Models, NEW e, NEW ra \in Timer,
           AuthTypeOK, MarkFailure(a, m, e, ra)
    PROVE  /\ OthersSwept(a, m)
           /\ modelState[a][m] # NoState =>
                modelState'[a][m].level \in {modelState[a][m].level, modelState[a][m].level + 1}
<1> DEFINE old    == IF modelState[a][m] = NoState THEN FreshState ELSE modelState[a][m]
           marked == [modelState[a] EXCEPT ![m] = Failed(old, a, e, ra)]
           states == [n \in Models |-> Swept(marked[n])]
<1>1. modelState' = [modelState EXCEPT ![a] = states]
  BY DEF MarkFailure
<1>2. modelState'[a] = states
  BY <1>1 DEF AuthTypeOK
<1>3. \A b \in Auths : b # a => modelState'[b] = modelState[b]
  BY <1>1 DEF AuthTypeOK
<1>4. \A n \in Models : n # m => states[n] = Swept(modelState[a][n])
  BY DEF AuthTypeOK
<1>5. states[m] = Swept(Failed(old, a, e, ra))
  BY DEF AuthTypeOK
<1>6. ASSUME modelState[a][m] # NoState
      PROVE  states[m].level \in {modelState[a][m].level, modelState[a][m].level + 1}
  <2>1. modelState[a][m] \in ModelStates /\ old = modelState[a][m]
    BY <1>6 DEF AuthTypeOK
  <2> HIDE DEF old
  <2>2. Failed(old, a, e, ra) \in ModelStates
    BY <2>1, FailedType
  <2>3. Swept(Failed(old, a, e, ra)).level = Failed(old, a, e, ra).level
    BY <2>2, SweptLeaves
  <2>4. Failed(old, a, e, ra).level = NextLevel(a, e, ra, old.level)
    BY DEF Failed
  <2>5. old.level \in 0..MaxLevel
    BY <2>1 DEF ModelStates
  <2>6. NextLevel(a, e, ra, old.level) \in {old.level, old.level + 1}
    BY <2>5, CooldownAssumption DEF NextLevel
  <2> HIDE DEF states
  <2> QED BY <1>5, <2>1, <2>3, <2>4, <2>6
<1> HIDE DEF states
<1> QED BY <1>2, <1>3, <1>4, <1>6 DEF OthersSwept

(* Neither falls a level nor starts a cooldown by the sweep or by time. *)
Kept(s, t) == /\ s # NoState => t.level = s.level
              /\ t # NoState /\ CoolingDown(t) => s # NoState /\ CoolingDown(s)

(* The sweep keeps both, *)
LEMMA SweptKeeps ==
    ASSUME NEW s \in ModelStates \cup {NoState}
    PROVE  Kept(s, Swept(s)) /\ Kept(s, s)
BY NoStateAssumption DEF Kept, Swept, CoolingDown, ModelStates, Timer, NoTime

(* and so does time. *)
LEMMA AgedKeeps ==
    ASSUME NEW s \in ModelStates \cup {NoState}
    PROVE  Kept(s, Aged(s))
<1>1. CASE s = NoState
  BY <1>1 DEF Kept, Aged
<1>2. CASE s \in ModelStates
  BY <1>2, NoStateAssumption, AgedFacts DEF Kept, CoolingDown, Sooner, ModelStates, Timer, NoTime
<1> QED BY <1>1, <1>2

(* What the result of a call does to the state of a credential and model:  *)
(* nothing but the sweep, unless the call was theirs; then a success resets *)
(* it, and a failure does not lower the level.                             *)
ResultOf(r, a, m) ==
    /\ req[r].auth = a /\ req[r].model = m
    /\ \/ /\ CallSucceeds(r) \/ StreamEnds(r)
          /\ modelState'[a][m] = FreshState
       \/ /\ CallFails(r) \/ StreamBreaks(r)
          /\ modelState[a][m] # NoState =>
                modelState'[a][m].level \in {modelState[a][m].level, modelState[a][m].level + 1}

KeptOrResult(a, m) ==
    \/ Kept(modelState[a][m], modelState'[a][m])
    \/ \E r \in Requests : ResultOf(r, a, m)

(* An untouched state is kept. *)
LEMMA UnchangedKeeps ==
    ASSUME AuthTypeOK, modelState' = modelState, NEW a \in Auths, NEW m \in Models
    PROVE  KeptOrResult(a, m)
<1>1. modelState[a][m] \in ModelStates \cup {NoState}
  BY DEF AuthTypeOK
<1> QED BY <1>1, SweptKeeps DEF KeptOrResult

(* A swept one too. *)
LEMMA OthersKept ==
    ASSUME AuthTypeOK, NEW b, NEW n, OthersSwept(b, n),
           NEW a \in Auths, NEW m \in Models, ~ (a = b /\ m = n)
    PROVE  KeptOrResult(a, m)
<1>1. modelState[a][m] \in ModelStates \cup {NoState}
  BY DEF AuthTypeOK
<1>2. modelState'[a][m] \in {modelState[a][m], Swept(modelState[a][m])}
  BY DEF OthersSwept
<1> QED BY <1>1, <1>2, SweptKeeps DEF KeptOrResult

(* The steps that run MarkResult. *)
LEMMA ResultLeaves ==
    ASSUME TypeOK, NEW r \in Requests,
           CallSucceeds(r) \/ CallFails(r) \/ StreamBreaks(r) \/ StreamEnds(r),
           NEW a \in Auths, NEW m \in Models
    PROVE  KeptOrResult(a, m)
<1> DEFINE q == req[r]
<1>1. q.auth \in Auths /\ q.model \in Models /\ AuthTypeOK
  BY DEF TypeOK, AuthTypeOK, Request
<1> HIDE DEF q
<1>2. CASE CallSucceeds(r) \/ StreamEnds(r)
  <2>1. (UNCHANGED authVars) \/ MarkSuccess(q.auth, q.model)
    BY <1>2 DEF CallSucceeds, StreamEnds, q
  <2>2. CASE UNCHANGED authVars
    BY <1>1, <2>2, UnchangedKeeps DEF authVars
  <2>3. CASE MarkSuccess(q.auth, q.model)
    <3>1. /\ OthersSwept(q.auth, q.model)
          /\ modelState'[q.auth][q.model] = FreshState
      BY <1>1, <2>3, MarkSuccessLeaves
    <3>2. ASSUME a = q.auth, m = q.model PROVE ResultOf(r, a, m)
      BY <1>2, <3>1, <3>2 DEF ResultOf, q
    <3>3. ASSUME ~ (a = q.auth /\ m = q.model) PROVE KeptOrResult(a, m)
      BY <1>1, <3>1, <3>3, OthersKept
    <3> QED BY <3>2, <3>3 DEF KeptOrResult
  <2> QED BY <2>1, <2>2, <2>3
<1>3. CASE CallFails(r) \/ StreamBreaks(r)
  <2>1. \/ UNCHANGED authVars
        \/ \E e \in Errors, ra \in RetryAfters \cup {NoTime} : MarkFailure(q.auth, q.model, e, ra)
    BY <1>3 DEF CallFails, StreamBreaks, q
  <2>2. CASE UNCHANGED authVars
    BY <1>1, <2>2, UnchangedKeeps DEF authVars
  <2>3. CASE \E e \in Errors, ra \in RetryAfters \cup {NoTime} : MarkFailure(q.auth, q.model, e, ra)
    <3>1. PICK e \in Errors, ra \in RetryAfters \cup {NoTime} : MarkFailure(q.auth, q.model, e, ra)
      BY <2>3
    <3>2. ra \in Timer
      BY SettingsAssumption DEF Timer, NoTime
    <3>3. /\ OthersSwept(q.auth, q.model)
          /\ modelState[q.auth][q.model] # NoState
                => modelState'[q.auth][q.model].level
                       \in {modelState[q.auth][q.model].level, modelState[q.auth][q.model].level + 1}
      BY <1>1, <3>1, <3>2, MarkFailureLeaves
    <3>4. ASSUME a = q.auth, m = q.model PROVE ResultOf(r, a, m)
      BY <1>3, <3>3, <3>4 DEF ResultOf, q
    <3>5. ASSUME ~ (a = q.auth /\ m = q.model) PROVE KeptOrResult(a, m)
      BY <1>1, <3>3, <3>5, OthersKept
    <3> QED BY <3>4, <3>5 DEF KeptOrResult
  <2> QED BY <2>1, <2>2, <2>3
<1> QED BY <1>2, <1>3

(* Every step keeps the state of a credential and model, but for the result *)
(* of a call of theirs.                                                    *)
LEMMA StepLeaves ==
    ASSUME TypeOK, [Next]_vars, NEW a \in Auths, NEW m \in Models
    PROVE  KeptOrResult(a, m)
<1>1. AuthTypeOK
  BY DEF TypeOK, AuthTypeOK
<1>2. CASE Tick
  <2>1. modelState[a][m] \in ModelStates \cup {NoState}
    BY <1>1 DEF AuthTypeOK
  <2>2. modelState'[a][m] = Aged(modelState[a][m])
    BY <1>2 DEF Tick
  <2> QED BY <2>1, <2>2, AgedKeeps DEF KeptOrResult
<1>3. ASSUME NEW r \in Requests, Start(r) \/ Proceed(r) \/ ClientCancels(r)
      PROVE  KeptOrResult(a, m)
  <2>1. CASE CallSucceeds(r) \/ CallFails(r) \/ StreamBreaks(r) \/ StreamEnds(r)
    BY <2>1, ResultLeaves
  <2>2. CASE ~ (CallSucceeds(r) \/ CallFails(r) \/ StreamBreaks(r) \/ StreamEnds(r))
    <3>1. modelState' = modelState
      BY <1>3, <2>2 DEF Start, Proceed, ClientCancels, Notify, Pick, PickNone, Wait, GiveUp,
         NextAttempt, CallCancelled, WaitCancelled, authVars
    <3> QED BY <1>1, <3>1, UnchangedKeeps
  <2> QED BY <2>1, <2>2
<1>4. CASE UNCHANGED vars
  BY <1>1, <1>4, UnchangedKeeps DEF vars
<1> QED BY <1>2, <1>3, <1>4 DEF Next

(* Only a success of a credential's own call for a model lowers its backoff *)
(* level there: no expiry, sweep, other model's result or failure does.    *)
THEOREM BackoffRemembered == Spec => BackoffForgottenOnlyBySuccess
<1>1. ASSUME TypeOK, [Next]_vars, NEW a \in Auths, NEW m \in Models,
             modelState[a][m] # NoState, modelState'[a][m].level < modelState[a][m].level
      PROVE  \E r \in Requests : /\ req[r].auth = a /\ req[r].model = m
                                 /\ CallSucceeds(r) \/ StreamEnds(r)
  <2>1. modelState[a][m] \in ModelStates /\ modelState'[a][m].level # modelState[a][m].level
    BY <1>1 DEF TypeOK, ModelStates
  <2>2. ~ Kept(modelState[a][m], modelState'[a][m])
    BY <1>1, <2>1 DEF Kept
  <2>3. PICK r \in Requests : ResultOf(r, a, m)
    BY <1>1, <2>2, StepLeaves DEF KeptOrResult
  <2>4. modelState[a][m].level \in Nat
    BY <2>1, CooldownAssumption DEF ModelStates
  <2> QED BY <1>1, <2>3, <2>4 DEF ResultOf
<1>2. TypeOK /\ [Next]_vars =>
        [\A a \in Auths, m \in Models :
            modelState[a][m] # NoState /\ modelState'[a][m].level < modelState[a][m].level
            => \E r \in Requests : /\ req[r].auth = a /\ req[r].model = m
                                   /\ CallSucceeds(r) \/ StreamEnds(r)]_vars
  BY <1>1
<1> QED BY <1>2, TypeCorrect, PTL DEF Spec, BackoffForgottenOnlyBySuccess

(* Only a failure of a credential's own call for a model takes it out of    *)
(* use there: no failure for another model, and no expiry, does.           *)
THEOREM FailuresIsolated == Spec => FailureIsolated
<1>1. ASSUME TypeOK, [Next]_vars, NEW a \in Auths, NEW m \in Models,
             Blocked(a, m)', ~ Blocked(a, m)
      PROVE  \E r \in Requests : /\ req[r].auth = a /\ req[r].model = m
                                 /\ CallFails(r) \/ StreamBreaks(r)
  <2>1. modelState'[a][m] # NoState /\ CoolingDown(modelState'[a][m])
    BY <1>1 DEF Blocked, Known
  <2>2. ~ Kept(modelState[a][m], modelState'[a][m])
    BY <1>1, <2>1 DEF Kept, Blocked, Known
  <2>3. PICK r \in Requests : ResultOf(r, a, m)
    BY <1>1, <2>2, StepLeaves DEF KeptOrResult
  <2>4. modelState'[a][m] # FreshState
    BY <2>1 DEF CoolingDown, FreshState
  <2> QED BY <2>3, <2>4 DEF ResultOf
<1>2. TypeOK /\ [Next]_vars =>
        [\A a \in Auths, m \in Models :
            Blocked(a, m)' /\ ~ Blocked(a, m)
            => \E r \in Requests : /\ req[r].auth = a /\ req[r].model = m
                                   /\ CallFails(r) \/ StreamBreaks(r)]_vars
  BY <1>1
<1> QED BY <1>2, TypeCorrect, PTL DEF Spec, FailureIsolated

-----------------------------------------------------------------------------
(* The values of the variables.                                             *)
Reader == [kind : Stream!Executors, stage : {"none", "body", "done", "tail", "closing", "over"},
           item : Stream!Item, sent : Nat, broken : BOOLEAN]
Forwarder == [pc : {"none", "recv", "send", "over"}, item : Stream!Item, forward : BOOLEAN,
              marked : {"no", "success", "failure"}]
Retrier == [pc : {"none", "recv", "retry", "data", "fail", "closing", "close", "over"},
            attempt : Stream!Attempts, item : Stream!Item, sentPayload : BOOLEAN]
ErrorChannel == [msg : BOOLEAN, closed : BOOLEAN]
Converter == [pc : {"none", "recv", "send", "over"}, item : Stream!Item]
Answerer == [endpoint : Stream!Endpoints, pc : {"call", "turn", "wait", "over"},
             peeking : BOOLEAN, errsNil : BOOLEAN, completed : BOOLEAN,
             result : {"none", "done", "error", "gone"},
             written : Seq(Stream!Attempts \X Nat)]

(* Where the payloads of the answer are that the client does not have yet:  *)
(* the goroutine that converts them, ExecuteStreamWithAuthManager, the      *)
(* relay and the executor of the attempt hold one each.                     *)
Payload(item) == item.type \in {"chunk", "bad"}
Written == Len(sHandler.written)
InConverter == IF sConverter.pc = "send" THEN 1 ELSE 0
InBase == IF sBase.pc = "data" THEN 1 ELSE 0
InRelay(a) == IF sRelay[a].pc = "send" /\ Payload(sRelay[a].item) THEN 1 ELSE 0
InExecutor(a) == IF Payload(sExecutor[a].item) THEN 1 ELSE 0
Passed == Written + InConverter + InBase
Going == sHandler.pc # "over"

(* The executor and the relay of each attempt.                              *)
AttemptFine(a) ==
    /\ sBase.pc = "none" \/ a > sBase.attempt
       => sExecutor[a] = Stream!NoExecutor /\ sRelay[a] = Stream!NoRelay
    /\ sExecutor[a].stage \in {"none", "done", "over"} => sExecutor[a].item = Stream!None
    /\ sExecutor[a].item = Stream!None \/ sExecutor[a].item.type # "none"
    /\ sRelay[a].pc = "send" => sRelay[a].item.type # "none" /\ sRelay[a].forward
    /\ sRelay[a].pc = "over" => sExecutor[a].stage = "over" /\ sRelay[a].marked # "no"
    /\ ~ sRelay[a].forward => sCancelled

(* What the client has is one attempt's, and as long as it has nothing      *)
(* there may be another attempt.                                            *)
InTurn ==
    /\ \A i \in 1..Written : sHandler.written[i] = <<sBase.attempt, i>>
    /\ ~ sBase.sentPayload => Written = 0 /\ sConverter.pc # "send" /\ sBase.pc # "data"
    /\ sBase.pc = "retry" => ~ sBase.sentPayload /\ sBase.attempt <= MaxRetries
    /\ sBase.pc = "none" => sBase.attempt = 1 /\ ~ sBase.sentPayload
    /\ sHandler.pc = "call" => sBase.pc = "none" /\ sErrs = [msg |-> FALSE, closed |-> FALSE]

(* Every payload on its way has the number that is next.                    *)
Numbered ==
    LET a == sBase.attempt IN
    /\ sConverter.pc = "send" => sConverter.item.n = Written + 1
    /\ sBase.pc = "data" => sBase.item.n = Written + InConverter + 1
    /\ sBase.pc \in {"recv", "data"} =>
          /\ InRelay(a) = 1 => sRelay[a].item.n = Passed + 1
          /\ sRelay[a].forward /\ InExecutor(a) = 1
             => sExecutor[a].item.n = Passed + InRelay(a) + 1
          /\ sRelay[a].forward /\ (sExecutor[a].stage # "over" \/ ~ sCancelled)
             => sExecutor[a].sent = Passed + InRelay(a) + InExecutor(a)

(* The attempt's mark is still to come, is a failure on its way, or is the  *)
(* success that ends it.                                                    *)
MarkFine ==
    LET a == sBase.attempt IN
    sBase.pc \in {"recv", "data"} /\ ~ sCancelled =>
        /\ sRelay[a].pc # "none"
        /\ \/ sRelay[a].marked = "no"
           \/ sRelay[a].pc = "send" /\ Stream!Failing(sRelay[a].item)
           \/ sRelay[a].pc = "over" /\ sRelay[a].marked = "success"

(* All of the answer has passed the relay.                                  *)
Complete ==
    LET a == sBase.attempt IN
    /\ sRelay[a].pc = "over" /\ sRelay[a].marked = "success"
    /\ sExecutor[a].sent = Written + InConverter

(* The end of the channels: an answer that is not complete has left an      *)
(* error, which whoever looks for it finds.                                 *)
EndFine ==
    /\ sCancelled => sGone \/ ~ Going
    /\ ~ Going => sCancelled
    /\ sBase.pc \in {"closing", "close", "over"} /\ Going /\ ~ sCancelled => sErrs.msg \/ Complete
    /\ sErrs.closed => sBase.pc \in {"none", "close", "over"}
    /\ sErrs.msg => sBase.pc \in {"none", "closing", "close", "over"}
    /\ sHandler.errsNil => sErrs.closed /\ (Going => ~ sErrs.msg)
    /\ sHandler.pc = "wait" => ~ sErrs.msg
    /\ sBase.pc = "over" /\ sHandler.peeking /\ Going => ~ sErrs.msg
    /\ sHandler.peeking \/ ~ sHandler.endpoint.converts => sConverter.pc = "none"
    /\ Going /\ sConverter.pc = "over" => sBase.pc = "over"

(* What the client was told.                                                *)
ToldFine ==
    /\ Going => sHandler.result = "none"
    /\ Stream!Told("done") /\ ~ sHandler.endpoint.socket =>
          /\ sBase.pc = "over" /\ sRelay[sBase.attempt].pc = "over"
          /\ Written = sExecutor[sBase.attempt].sent
          /\ sRelay[sBase.attempt].marked = "success"

(* The inductive invariant.                                                 *)
StreamInv ==
    /\ Stream!TypeOK /\ \A a \in Stream!Attempts : AttemptFine(a)
    /\ InTurn /\ (Going => Numbered) /\ MarkFine /\ EndFine /\ ToldFine

(* The types, by these names.                                               *)
LEMMA StreamTypesAre ==
    Stream!TypeOK <=>
        /\ sExecutor \in [Stream!Attempts -> Reader]
        /\ sRelay \in [Stream!Attempts -> Forwarder]
        /\ sBase \in Retrier /\ sErrs \in ErrorChannel /\ sConverter \in Converter
        /\ sHandler \in Answerer /\ sGone \in BOOLEAN /\ sCancelled \in BOOLEAN
BY DEF Stream!TypeOK, Reader, Forwarder, Retrier, ErrorChannel, Converter, Answerer

(* The same after a step.                                                   *)
LEMMA NextStreamTypesAre ==
    Stream!TypeOK' <=>
        /\ sExecutor' \in [Stream!Attempts -> Reader]
        /\ sRelay' \in [Stream!Attempts -> Forwarder]
        /\ sBase' \in Retrier /\ sErrs' \in ErrorChannel /\ sConverter' \in Converter
        /\ sHandler' \in Answerer /\ sGone' \in BOOLEAN /\ sCancelled' \in BOOLEAN
BY DEF Stream!TypeOK, Reader, Forwarder, Retrier, ErrorChannel, Converter, Answerer

(* What passes through the channels.                                        *)
LEMMA ItemTypes ==
    /\ Stream!None \in Stream!Item /\ Stream!None.type = "none" /\ ~ Payload(Stream!None)
    /\ ~ Stream!Failing(Stream!None)
    /\ \A t \in {"error", "fatal"} :
          Stream!An(t) \in Stream!Item /\ Stream!Failing(Stream!An(t)) /\ ~ Payload(Stream!An(t))
          /\ Stream!An(t).type = t
    /\ \A i \in Stream!Item : /\ Payload(i) => i.type # "none" /\ ~ Stream!Failing(i)
                              /\ i.type \in {"none", "chunk", "bad", "error", "fatal"}
                              /\ i.n \in Nat
                              /\ i.type # "none" => Payload(i) \/ Stream!Failing(i)
BY DEF Stream!None, Stream!Item, Stream!An, Payload, Stream!Failing

(* A handler looks at the first chunk or does not.                          *)
LEMMA EndpointTypes == \A e \in Stream!Endpoints : e.peeks \in BOOLEAN
<1> DEFINE Peeks(e) == e.peeks \in BOOLEAN
<1>1. Peeks(Stream!ClaudeMessages) /\ Peeks(Stream!ChatCompletions) /\ Peeks(Stream!Completions)
  BY DEF Stream!ClaudeMessages, Stream!ChatCompletions, Stream!Completions
<1>2. Peeks(Stream!GeminiStream) /\ Peeks(Stream!GeminiCLIStream)
  BY DEF Stream!GeminiStream, Stream!GeminiCLIStream
<1>3. Peeks(Stream!Responses) /\ Peeks(Stream!ResponsesWebsocket)
  BY DEF Stream!Responses, Stream!ResponsesWebsocket
<1> HIDE DEF Peeks
<1>4. \A e \in Stream!Endpoints : Peeks(e)
  BY <1>1, <1>2, <1>3 DEF Stream!Endpoints
<1> QED BY <1>4 DEF Peeks

(* Initially everything rests.                                              *)
LEMMA StreamInvInit ==
    ASSUME Stream!BoundsAssumption, Stream!Init
    PROVE  StreamInv
<1>1. 1 \in Stream!Attempts
  BY DEF Stream!Attempts, Stream!BoundsAssumption
<1>2. Stream!ClaudeExecutor \in Stream!Executors
  BY DEF Stream!Executors
<1>3. Stream!TypeOK
  <2>1. Stream!NoExecutor \in Reader
    BY <1>2, ItemTypes DEF Stream!NoExecutor, Reader
  <2>2. Stream!NoRelay \in Forwarder
    BY ItemTypes DEF Stream!NoRelay, Forwarder
  <2>3. PICK e \in Stream!Endpoints :
           sHandler = [endpoint |-> e, pc |-> "call", peeking |-> e.peeks, errsNil |-> FALSE,
                      completed |-> FALSE, result |-> "none", written |-> <<>>]
    BY DEF Stream!Init
  <2>4. e.peeks \in BOOLEAN
    BY EndpointTypes
  <2>5. <<>> \in Seq(Stream!Attempts \X Nat)
    OBVIOUS
  <2>6. sHandler \in Answerer
    BY <2>3, <2>4, <2>5 DEF Answerer
  <2>7. sBase \in Retrier
    BY <1>1, ItemTypes DEF Stream!Init, Retrier
  <2>8. sConverter \in Converter /\ sErrs \in ErrorChannel
    BY ItemTypes DEF Stream!Init, Converter, ErrorChannel
  <2> QED BY <2>1, <2>2, <2>6, <2>7, <2>8, StreamTypesAre DEF Stream!Init
<1>4. \A a \in Stream!Attempts : AttemptFine(a)
  BY DEF Stream!Init, AttemptFine, Stream!NoExecutor, Stream!NoRelay
<1>5. sHandler.written = <<>> /\ sHandler.pc = "call" /\ sHandler.result = "none"
      /\ sHandler.errsNil = FALSE
  BY DEF Stream!Init
<1>6. InTurn
  BY <1>5 DEF InTurn, Written, Stream!Init
<1>7. Numbered
  BY DEF Numbered, Stream!Init
<1>8. MarkFine
  BY DEF MarkFine, Stream!Init
<1>9. EndFine
  BY <1>5 DEF EndFine, Stream!Init, Going
<1>10. ToldFine
  BY <1>5 DEF ToldFine, Going, Stream!Told
<1> QED BY <1>3, <1>4, <1>6, <1>7, <1>8, <1>9, <1>10 DEF StreamInv

(* A step of an executor, whose body is not over: it takes a payload more,  *)
(* something else, or gives up.                                             *)
LEMMA ExecutorFine ==
    ASSUME Stream!BoundsAssumption, StreamInv, NEW a \in Stream!Attempts,
           sExecutor' \in [Stream!Attempts -> Reader],
           \A b \in Stream!Attempts : b # a => sExecutor'[b] = sExecutor[b],
           UNCHANGED <<sRelay, sBase, sErrs, sConverter, sHandler, sGone, sCancelled>>,
           sExecutor[a].stage \notin {"none", "over"},
           sExecutor'[a].stage # "none",
           sExecutor'[a].stage \in {"done", "over"} => sExecutor'[a].item = Stream!None,
           sExecutor'[a].item = Stream!None \/ sExecutor'[a].item.type # "none",
           \/ sExecutor'[a].stage = "over" /\ sCancelled
           \/ /\ ~ Payload(sExecutor[a].item)
              /\ \/ sExecutor'[a].sent = sExecutor[a].sent /\ ~ Payload(sExecutor'[a].item)
                 \/ /\ sExecutor'[a].sent = sExecutor[a].sent + 1
                    /\ Payload(sExecutor'[a].item) /\ sExecutor'[a].item.n = sExecutor'[a].sent
    PROVE  StreamInv'
<1>1. Stream!TypeOK /\ (\A b \in Stream!Attempts : AttemptFine(b)) /\ InTurn
          /\ (Going => Numbered) /\ MarkFine
      /\ EndFine /\ ToldFine
  BY DEF StreamInv
<1>2. Stream!TypeOK'
  BY <1>1, StreamTypesAre, NextStreamTypesAre
<1>3. /\ sExecutor[a] \in Reader /\ sExecutor'[a] \in Reader /\ sRelay[a] \in Forwarder
      /\ sBase.attempt \in Stream!Attempts /\ sExecutor[sBase.attempt] \in Reader
      /\ sCancelled \in BOOLEAN
  BY <1>1, StreamTypesAre DEF Retrier
<1>4. sRelay[a].pc # "over" /\ sExecutor[a] # Stream!NoExecutor
  BY <1>1 DEF AttemptFine, Stream!NoExecutor
<1>5. \A b \in Stream!Attempts : AttemptFine(b)'
  <2>1. AttemptFine(a)'
    BY <1>1, <1>4 DEF AttemptFine
  <2>2. ASSUME NEW b \in Stream!Attempts, b # a PROVE AttemptFine(b)'
    BY <1>1, <2>2 DEF AttemptFine
  <2> QED BY <2>1, <2>2
<1>6. InTurn' /\ MarkFine'
  BY <1>1 DEF InTurn, MarkFine, Written
<1>7. (Going => Numbered)'
  <2>1. CASE sBase.attempt # a
    <3>1. sExecutor'[sBase.attempt] = sExecutor[sBase.attempt]
      BY <1>3, <2>1
    <3> QED BY <1>1, <3>1
            DEF Going, Numbered, Written, InConverter, InRelay, InExecutor, Passed, InBase
  <2>2. CASE sBase.attempt = a
    <3>1. Written \in Nat /\ InConverter \in Nat /\ InBase \in Nat /\ InRelay(a) \in Nat
      BY <1>1, StreamTypesAre DEF Written, InConverter, InBase, InRelay, Answerer
    <3>2. sExecutor[a].sent \in Nat
      BY <1>3 DEF Reader
    <3>3. UNCHANGED <<Written, InConverter, InBase, Passed, InRelay(a), Going>>
      BY DEF Written, InConverter, InBase, Passed, InRelay, Going
    <3>4. CASE sExecutor'[a].stage = "over" /\ sCancelled
      <4>1. InExecutor(a)' = 0
        BY <3>4, ItemTypes DEF InExecutor
      <4> QED BY <1>1, <2>2, <3>3, <3>4, <4>1 DEF Numbered
    <3>5. CASE ~ (sExecutor'[a].stage = "over" /\ sCancelled)
      <4>1. InExecutor(a) = 0
        BY <3>5 DEF InExecutor
      <4>2. /\ InExecutor(a)' \in {0, 1}
            /\ sExecutor'[a].sent = sExecutor[a].sent + InExecutor(a)'
            /\ InExecutor(a)' = 1 => sExecutor'[a].item.n = sExecutor'[a].sent
        BY <3>2, <3>5 DEF InExecutor
      <4>3. Passed \in Nat
        BY <3>1 DEF Passed
      <4> QED BY <1>1, <2>2, <3>1, <3>2, <3>3, <3>5, <4>1, <4>2, <4>3 DEF Numbered
    <3> QED BY <3>4, <3>5
  <2> QED BY <2>1, <2>2
<1>8. sRelay[sBase.attempt].pc = "over" => sExecutor'[sBase.attempt] = sExecutor[sBase.attempt]
  BY <1>3, <1>4
<1>9. EndFine'
  BY <1>1, <1>8 DEF EndFine, Complete, Going, Written, InConverter
<1>10. ToldFine'
  BY <1>1, <1>8 DEF ToldFine, Stream!Told, Going, Written
<1> QED BY <1>2, <1>5, <1>6, <1>7, <1>9, <1>10 DEF StreamInv

(* One payload more.                                                        *)
LEMMA NextChunkIs ==
    ASSUME NEW a \in Stream!Attempts, sExecutor[a] \in Reader, NEW type \in {"chunk", "bad"}
    PROVE  LET e == Stream!NextChunk(a, type) IN
           /\ e \in Reader /\ e.stage = sExecutor[a].stage
           /\ Payload(e.item) /\ e.item.type # "none"
           /\ e.sent = sExecutor[a].sent + 1 /\ e.item.n = e.sent
<1> DEFINE item == [type |-> type, n |-> sExecutor[a].sent + 1]
           s == Stream!Sending(a, item)
<1>1. sExecutor[a].sent \in Nat
  BY DEF Reader
<1>2. item \in Stream!Item /\ Payload(item) /\ item.type # "none"
      /\ item.n = sExecutor[a].sent + 1
  BY <1>1 DEF Stream!Item, Payload
<1> HIDE DEF item
<1>3. s \in Reader /\ s.item = item /\ s.sent = sExecutor[a].sent /\ s.stage = sExecutor[a].stage
  BY <1>2 DEF Reader, Stream!Sending
<1>4. Stream!NextChunk(a, type) = [s EXCEPT !.sent = s.sent + 1]
  BY DEF Stream!NextChunk, item
<1> HIDE DEF s
<1>5. LET e == [s EXCEPT !.sent = s.sent + 1] IN
      e \in Reader /\ e.item = item /\ e.sent = s.sent + 1 /\ e.stage = s.stage
  BY <1>1, <1>3 DEF Reader
<1> QED BY <1>2, <1>3, <1>4, <1>5

(* It reads a payload,                                                      *)
LEMMA ReadsPayloadFine ==
    ASSUME Stream!BoundsAssumption, StreamInv, NEW a \in Stream!Attempts, Stream!ReadsPayload(a)
    PROVE  StreamInv'
<1>1. PICK type \in {"chunk", "bad"} :
          sExecutor' = [sExecutor EXCEPT ![a] = Stream!NextChunk(a, type)]
  BY DEF Stream!ReadsPayload
<1>2. sExecutor \in [Stream!Attempts -> Reader] /\ sExecutor[a] \in Reader
  BY StreamTypesAre DEF StreamInv
<1> DEFINE e == Stream!NextChunk(a, type)
<1>3. /\ e \in Reader /\ e.stage = sExecutor[a].stage
      /\ Payload(e.item) /\ e.item.type # "none"
      /\ e.sent = sExecutor[a].sent + 1 /\ e.item.n = e.sent
  BY <1>2, NextChunkIs
<1> HIDE DEF e
<1>4. /\ sExecutor' \in [Stream!Attempts -> Reader] /\ sExecutor'[a] = e
      /\ \A b \in Stream!Attempts : b # a => sExecutor'[b] = sExecutor[b]
  BY <1>1, <1>2, <1>3 DEF e
<1>5. ~ Payload(sExecutor[a].item) /\ sExecutor[a].stage = "body"
  BY ItemTypes DEF Stream!ReadsPayload
<1>6. UNCHANGED <<sRelay, sBase, sErrs, sConverter, sHandler, sGone, sCancelled>>
  BY DEF Stream!ReadsPayload
<1> QED BY <1>3, <1>4, <1>5, <1>6, ExecutorFine

(* The body ends or breaks.                                                 *)
LEMMA BodyOverFine ==
    ASSUME Stream!BoundsAssumption, StreamInv, NEW a \in Stream!Attempts, Stream!BodyOver(a)
    PROVE  StreamInv'
<1>1. sExecutor \in [Stream!Attempts -> Reader] /\ sExecutor[a] \in Reader
  BY StreamTypesAre DEF StreamInv
<1>2. PICK stage \in {"done", "tail"}, broken \in BOOLEAN :
         sExecutor' = [sExecutor EXCEPT ![a].stage = stage, ![a].broken = broken]
  BY DEF Stream!BodyOver
<1>3. /\ sExecutor' \in [Stream!Attempts -> Reader]
      /\ sExecutor'[a] = [sExecutor[a] EXCEPT !.stage = stage, !.broken = broken]
      /\ \A b \in Stream!Attempts : b # a => sExecutor'[b] = sExecutor[b]
  BY <1>1, <1>2 DEF Reader
<1>4. sExecutor[a].item = Stream!None /\ sExecutor[a].stage = "body" /\ ~ Payload(Stream!None)
  BY ItemTypes DEF Stream!BodyOver
<1>5. sExecutor'[a].item = Stream!None /\ sExecutor'[a].stage = stage
      /\ sExecutor'[a].sent = sExecutor[a].sent
  BY <1>1, <1>3, <1>4 DEF Reader
<1>6. UNCHANGED <<sRelay, sBase, sErrs, sConverter, sHandler, sGone, sCancelled>>
  BY DEF Stream!BodyOver
<1> QED BY <1>3, <1>4, <1>5, <1>6, ExecutorFine

(* translates "[DONE]",                                                     *)
LEMMA TranslatesDoneFine ==
    ASSUME Stream!BoundsAssumption, StreamInv, NEW a \in Stream!Attempts, Stream!TranslatesDone(a)
    PROVE  StreamInv'
<1>1. sExecutor \in [Stream!Attempts -> Reader] /\ sExecutor[a] \in Reader /\ AttemptFine(a)
  BY StreamTypesAre DEF StreamInv
<1>2. sExecutor[a].item = Stream!None /\ sExecutor[a].stage = "done" /\ ~ Payload(Stream!None)
  BY <1>1, ItemTypes DEF Stream!TranslatesDone, AttemptFine
<1>3. UNCHANGED <<sRelay, sBase, sErrs, sConverter, sHandler, sGone, sCancelled>>
  BY DEF Stream!TranslatesDone
<1>4. CASE sExecutor' = [sExecutor EXCEPT ![a].stage = "tail"]
  <2>1. /\ sExecutor' \in [Stream!Attempts -> Reader]
        /\ sExecutor'[a] = [sExecutor[a] EXCEPT !.stage = "tail"]
        /\ \A b \in Stream!Attempts : b # a => sExecutor'[b] = sExecutor[b]
    BY <1>1, <1>4 DEF Reader
  <2>2. sExecutor'[a].item = Stream!None /\ sExecutor'[a].stage = "tail"
        /\ sExecutor'[a].sent = sExecutor[a].sent
    BY <1>1, <1>2, <2>1 DEF Reader
  <2> QED BY <1>2, <1>3, <2>1, <2>2, ExecutorFine
<1>5. CASE sExecutor' = [sExecutor EXCEPT ![a]
               = [Stream!NextChunk(a, "chunk") EXCEPT !.stage = "tail"]]
  <2> DEFINE c == Stream!NextChunk(a, "chunk")
             e == [c EXCEPT !.stage = "tail"]
  <2>1. /\ c \in Reader
        /\ Payload(c.item) /\ c.item.type # "none"
        /\ c.sent = sExecutor[a].sent + 1 /\ c.item.n = c.sent
    BY <1>1, NextChunkIs
  <2> HIDE DEF c
  <2>2. e \in Reader /\ e.item = c.item /\ e.sent = c.sent /\ e.stage = "tail"
    BY <2>1 DEF Reader
  <2> HIDE DEF e
  <2>3. /\ sExecutor' \in [Stream!Attempts -> Reader] /\ sExecutor'[a] = e
        /\ \A b \in Stream!Attempts : b # a => sExecutor'[b] = sExecutor[b]
    BY <1>1, <1>5, <2>2 DEF e, c
  <2> QED BY <1>2, <1>3, <2>1, <2>2, <2>3, ExecutorFine
<1> QED BY <1>4, <1>5 DEF Stream!TranslatesDone

(* tells the error at the end,                                              *)
LEMMA TellsErrorFine ==
    ASSUME Stream!BoundsAssumption, StreamInv, NEW a \in Stream!Attempts, Stream!TellsError(a)
    PROVE  StreamInv'
<1>1. sExecutor \in [Stream!Attempts -> Reader] /\ sExecutor[a] \in Reader /\ AttemptFine(a)
  BY StreamTypesAre DEF StreamInv
<1>2. sExecutor[a].item = Stream!None /\ sExecutor[a].stage \in {"tail", "closing"}
      /\ ~ Payload(Stream!None)
  BY ItemTypes DEF Stream!TellsError
<1>3. UNCHANGED <<sRelay, sBase, sErrs, sConverter, sHandler, sGone, sCancelled>>
  BY DEF Stream!TellsError
<1>4. CASE sExecutor' = [sExecutor EXCEPT ![a].stage = "over"]
  <2>1. /\ sExecutor' \in [Stream!Attempts -> Reader]
        /\ sExecutor'[a] = [sExecutor[a] EXCEPT !.stage = "over"]
        /\ \A b \in Stream!Attempts : b # a => sExecutor'[b] = sExecutor[b]
    BY <1>1, <1>4 DEF Reader
  <2>2. sExecutor'[a].item = Stream!None /\ sExecutor'[a].stage = "over"
        /\ sExecutor'[a].sent = sExecutor[a].sent
    BY <1>1, <1>2, <2>1 DEF Reader
  <2> QED BY <1>2, <1>3, <2>1, <2>2, ExecutorFine
<1>5. ASSUME NEW type \in {"error", "fatal"},
             sExecutor' = [sExecutor EXCEPT ![a]
                 = [Stream!Sending(a, Stream!An(type)) EXCEPT !.stage = "closing"]]
      PROVE  StreamInv'
  <2> DEFINE e == [Stream!Sending(a, Stream!An(type)) EXCEPT !.stage = "closing"]
  <2>1. Stream!An(type) \in Stream!Item /\ ~ Payload(Stream!An(type))
        /\ Stream!An(type).type # "none"
    BY ItemTypes
  <2>2. /\ e \in Reader /\ e.item = Stream!An(type) /\ e.sent = sExecutor[a].sent
        /\ e.stage = "closing"
    BY <1>1, <2>1 DEF Reader, Stream!Sending
  <2> HIDE DEF e
  <2>3. /\ sExecutor' \in [Stream!Attempts -> Reader] /\ sExecutor'[a] = e
        /\ \A b \in Stream!Attempts : b # a => sExecutor'[b] = sExecutor[b]
    BY <1>1, <1>5, <2>2 DEF e
  <2> QED BY <1>2, <1>3, <2>1, <2>2, <2>3, ExecutorFine
<1> QED BY <1>4, <1>5 DEF Stream!TellsError

(* or gives up.                                                             *)
LEMMA ExecutorGivesUpFine ==
    ASSUME Stream!BoundsAssumption, StreamInv, NEW a \in Stream!Attempts,
           Stream!ExecutorGivesUp(a)
    PROVE  StreamInv'
<1>1. sExecutor \in [Stream!Attempts -> Reader] /\ sExecutor[a] \in Reader /\ AttemptFine(a)
  BY StreamTypesAre DEF StreamInv
<1>2. sExecutor[a].stage \notin {"none", "over"} /\ sCancelled
  BY <1>1 DEF Stream!ExecutorGivesUp, AttemptFine
<1>3. /\ sExecutor' \in [Stream!Attempts -> Reader]
      /\ sExecutor'[a] = [sExecutor[a] EXCEPT !.item = Stream!None, !.stage = "over"]
      /\ \A b \in Stream!Attempts : b # a => sExecutor'[b] = sExecutor[b]
  BY <1>1, ItemTypes DEF Reader, Stream!ExecutorGivesUp
<1>4. sExecutor'[a].item = Stream!None /\ sExecutor'[a].stage = "over"
  BY <1>1, <1>3 DEF Reader
<1>5. UNCHANGED <<sRelay, sBase, sErrs, sConverter, sHandler, sGone, sCancelled>>
  BY DEF Stream!ExecutorGivesUp
<1> QED BY <1>2, <1>3, <1>4, <1>5, ExecutorFine

(* What the payloads on their way are counted by.                           *)
LEMMA CountTypes ==
    ASSUME Stream!TypeOK, NEW a \in Stream!Attempts
    PROVE  /\ Written \in Nat /\ InConverter \in {0, 1} /\ InBase \in {0, 1}
           /\ InRelay(a) \in {0, 1} /\ InExecutor(a) \in {0, 1} /\ Passed \in Nat
           /\ sExecutor[a].sent \in Nat
<1>1. sHandler.written \in Seq(Stream!Attempts \X Nat)
  BY StreamTypesAre DEF Answerer
<1>2. Written \in Nat
  BY <1>1 DEF Written
<1>3. sExecutor[a].sent \in Nat
  BY StreamTypesAre DEF Reader
<1> QED BY <1>2, <1>3 DEF InConverter, InBase, InRelay, InExecutor, Passed

(* A step of a relay: what it takes is sent on, unless nobody listens.      *)
LEMMA RelayReceivesFine ==
    ASSUME Stream!BoundsAssumption, StreamInv, NEW a \in Stream!Attempts, Stream!RelayReceives(a)
    PROVE  StreamInv'
<1>1. Stream!TypeOK /\ (\A b \in Stream!Attempts : AttemptFine(b)) /\ InTurn
          /\ (Going => Numbered) /\ MarkFine
      /\ EndFine /\ ToldFine
  BY DEF StreamInv
<1>2. /\ sExecutor \in [Stream!Attempts -> Reader] /\ sRelay \in [Stream!Attempts -> Forwarder]
      /\ sExecutor[a] \in Reader /\ sRelay[a] \in Forwarder
      /\ sBase.attempt \in Stream!Attempts /\ sRelay[sBase.attempt] \in Forwarder
  BY <1>1, StreamTypesAre DEF Retrier
<1> DEFINE item == sExecutor[a].item
           marked == IF Stream!Failing(item)
               /\ sRelay[a].marked = "no" THEN "failure" ELSE sRelay[a].marked
           taken == IF Stream!Failing(item) /\ sRelay[a].marked = "no"
                    THEN [sRelay[a] EXCEPT !.marked = "failure"] ELSE sRelay[a]
           r == IF taken.forward THEN [taken EXCEPT !.pc = "send", !.item = item] ELSE taken
           e == [sExecutor[a] EXCEPT !.item = Stream!None]
<1>3. /\ item \in Stream!Item /\ item # Stream!None /\ item.type # "none" /\ sRelay[a].pc = "recv"
      /\ sExecutor[a].stage \notin {"none", "over", "done"}
  BY <1>1, <1>2 DEF Stream!RelayReceives, AttemptFine, Reader
<1>4. /\ e \in Reader /\ e.item = Stream!None /\ e.stage = sExecutor[a].stage
      /\ e.sent = sExecutor[a].sent
  BY <1>2, ItemTypes DEF Reader
<1>5. /\ taken \in Forwarder /\ taken.marked = marked /\ taken.forward = sRelay[a].forward
      /\ taken.pc = "recv" /\ taken.item = sRelay[a].item
  BY <1>2, <1>3 DEF Forwarder
<1>6. sExecutor' = [sExecutor EXCEPT ![a] = e] /\ sRelay' = [sRelay EXCEPT ![a] = r]
  BY DEF Stream!RelayReceives
<1> HIDE DEF taken, e, item
<1>7. /\ r \in Forwarder /\ r.marked = marked /\ r.forward = sRelay[a].forward
      /\ r.forward => r.pc = "send" /\ r.item = item
      /\ ~ r.forward => r.pc = "recv"
  BY <1>3, <1>5 DEF Forwarder
<1> HIDE DEF r
<1>8. /\ sExecutor' \in [Stream!Attempts -> Reader] /\ sRelay' \in [Stream!Attempts -> Forwarder]
      /\ sExecutor'[a] = e /\ sRelay'[a] = r
      /\ \A b \in Stream!Attempts : b # a => sExecutor'[b] = sExecutor[b]
             /\ sRelay'[b] = sRelay[b]
  BY <1>2, <1>4, <1>6, <1>7
<1>9. UNCHANGED <<sBase, sErrs, sConverter, sHandler, sGone, sCancelled>>
  BY DEF Stream!RelayReceives
<1>10. Stream!TypeOK'
  BY <1>1, <1>8, <1>9, StreamTypesAre, NextStreamTypesAre
<1>11. sExecutor[a] # Stream!NoExecutor
  BY <1>3 DEF Stream!NoExecutor
<1>12. \A b \in Stream!Attempts : AttemptFine(b)'
  <2>1. AttemptFine(a)'
    BY <1>1, <1>3, <1>4, <1>7, <1>8, <1>9, <1>11 DEF AttemptFine
  <2>2. ASSUME NEW b \in Stream!Attempts, b # a PROVE AttemptFine(b)'
    BY <1>1, <1>8, <1>9, <2>2 DEF AttemptFine
  <2> QED BY <2>1, <2>2
<1>13. InTurn'
  BY <1>1, <1>9 DEF InTurn, Written
<1>14. UNCHANGED <<Written, InConverter, InBase, Passed, Going>>
  BY <1>9 DEF Written, InConverter, InBase, Passed, Going
<1>15. (Going => Numbered)'
  <2>1. CASE sBase.attempt # a
    <3>1. /\ sExecutor'[sBase.attempt] = sExecutor[sBase.attempt]
          /\ sRelay'[sBase.attempt] = sRelay[sBase.attempt]
      BY <1>2, <1>8, <2>1
    <3>2. UNCHANGED <<InRelay(sBase.attempt), InExecutor(sBase.attempt)>>
      BY <1>9, <3>1 DEF InRelay, InExecutor
    <3> QED BY <1>1, <1>9, <1>14, <3>1, <3>2 DEF Numbered
  <2>2. CASE sBase.attempt = a
    <3>1. /\ InExecutor(a)' = 0 /\ InRelay(a) = 0
          /\ sRelay[a].forward => InRelay(a)' = InExecutor(a)
                 /\ sRelay'[a].item = sExecutor[a].item
          /\ ~ sRelay[a].forward => InRelay(a)' = 0
      BY <1>3, <1>4, <1>7, <1>8, ItemTypes DEF InExecutor, InRelay, item
    <3>2. /\ sExecutor'[a].sent = sExecutor[a].sent /\ sExecutor'[a].stage = sExecutor[a].stage
          /\ sRelay'[a].forward = sRelay[a].forward
      BY <1>4, <1>7, <1>8
    <3>3. Passed \in Nat /\ InExecutor(a) \in {0, 1} /\ sExecutor[a].sent \in Nat
      BY <1>1, CountTypes
    <3> QED BY <1>1, <1>9, <1>14, <2>2, <3>1, <3>2, <3>3 DEF Numbered
  <2> QED BY <2>1, <2>2
<1>16. MarkFine'
  <2>1. CASE sBase.attempt # a
    BY <1>1, <1>2, <1>8, <1>9, <2>1 DEF MarkFine
  <2>2. CASE sBase.attempt = a
    <3>1. ~ sCancelled => r.pc = "send" /\ r.item = item
      BY <1>1, <1>7 DEF AttemptFine
    <3>2. sBase.pc \in {"recv", "data"} /\ ~ sCancelled => sRelay[a].marked = "no"
      BY <1>1, <1>3, <2>2 DEF MarkFine
    <3> QED BY <1>7, <1>8, <1>9, <2>2, <3>1, <3>2 DEF MarkFine
  <2> QED BY <2>1, <2>2
<1>17. sRelay[sBase.attempt].pc = "over"
       => sExecutor'[sBase.attempt] = sExecutor[sBase.attempt]
          /\ sRelay'[sBase.attempt] = sRelay[sBase.attempt]
  BY <1>2, <1>3, <1>8
<1>18. EndFine'
  BY <1>1, <1>9, <1>14, <1>17 DEF EndFine, Complete
<1>19. ToldFine'
  BY <1>1, <1>9, <1>14, <1>17 DEF ToldFine, Stream!Told
<1> QED BY <1>10, <1>12, <1>13, <1>15, <1>16, <1>18, <1>19 DEF StreamInv

(* The other steps of a relay.                                              *)
LEMMA RelayFine ==
    ASSUME Stream!BoundsAssumption, StreamInv, NEW a \in Stream!Attempts,
           sRelay' \in [Stream!Attempts -> Forwarder],
           \A b \in Stream!Attempts : b # a => sRelay'[b] = sRelay[b],
           UNCHANGED <<sExecutor, sBase, sErrs, sConverter, sHandler, sGone, sCancelled>>,
           sRelay[a].pc \notin {"none", "over"},
           \/ /\ sCancelled /\ ~ sRelay'[a].forward
              /\ sRelay'[a].pc = "recv" /\ sRelay'[a].marked = sRelay[a].marked
           \/ /\ sRelay[a].pc = "recv" /\ sExecutor[a].stage = "over"
              /\ sRelay'[a].pc = "over" /\ sRelay'[a].forward = sRelay[a].forward
              /\ sRelay'[a].marked = IF sRelay[a].marked = "no" THEN "success"
                     ELSE sRelay[a].marked
    PROVE  StreamInv'
<1>1. Stream!TypeOK /\ (\A b \in Stream!Attempts : AttemptFine(b)) /\ InTurn
          /\ (Going => Numbered) /\ MarkFine
      /\ EndFine /\ ToldFine
  BY DEF StreamInv
<1>2. /\ sExecutor \in [Stream!Attempts -> Reader] /\ sRelay \in [Stream!Attempts -> Forwarder]
      /\ sExecutor[a] \in Reader /\ sRelay[a] \in Forwarder /\ sRelay'[a] \in Forwarder
      /\ sBase.attempt \in Stream!Attempts /\ sRelay[sBase.attempt] \in Forwarder
  BY <1>1, StreamTypesAre DEF Retrier
<1>3. Stream!TypeOK'
  BY <1>1, StreamTypesAre, NextStreamTypesAre
<1>4. sRelay[a] # Stream!NoRelay
  BY DEF Stream!NoRelay
<1>5. \A b \in Stream!Attempts : AttemptFine(b)'
  <2>1. AttemptFine(a)'
    BY <1>1, <1>4 DEF AttemptFine
  <2>2. ASSUME NEW b \in Stream!Attempts, b # a PROVE AttemptFine(b)'
    BY <1>1, <2>2 DEF AttemptFine
  <2> QED BY <2>1, <2>2
<1>6. InTurn'
  BY <1>1 DEF InTurn, Written
<1>7. /\ UNCHANGED <<Written, InConverter, InBase, Passed, Going>>
      /\ UNCHANGED InExecutor(sBase.attempt)
  BY DEF Written, InConverter, InBase, Passed, Going, InExecutor
<1>8. InRelay(a)' = 0
  BY DEF InRelay
<1>9. (Going => Numbered)'
  <2>1. CASE sBase.attempt # a
    <3>1. sRelay'[sBase.attempt] = sRelay[sBase.attempt]
      BY <1>2, <2>1
    <3>2. UNCHANGED InRelay(sBase.attempt)
      BY <3>1 DEF InRelay
    <3> QED BY <1>1, <1>7, <3>1, <3>2 DEF Numbered
  <2>2. CASE sBase.attempt = a
    <3>1. sRelay[a].pc = "recv" => InRelay(a) = 0
      BY DEF InRelay
    <3> QED BY <1>1, <1>7, <1>8, <2>2, <3>1 DEF Numbered
  <2> QED BY <2>1, <2>2
<1>10. MarkFine'
  <2>1. CASE sBase.attempt # a
    BY <1>1, <1>2, <2>1 DEF MarkFine
  <2>2. CASE sBase.attempt = a
    BY <1>1, <2>2 DEF MarkFine
  <2> QED BY <2>1, <2>2
<1>11. sRelay[sBase.attempt].pc = "over" => sRelay'[sBase.attempt] = sRelay[sBase.attempt]
  BY <1>2
<1>12. EndFine'
  BY <1>1, <1>7, <1>11 DEF EndFine, Complete
<1>13. ToldFine'
  BY <1>1, <1>7, <1>11 DEF ToldFine, Stream!Told
<1> QED BY <1>3, <1>5, <1>6, <1>9, <1>10, <1>12, <1>13 DEF StreamInv

(* Nobody listens any more.                                                 *)
LEMMA RelayStopsFine ==
    ASSUME Stream!BoundsAssumption, StreamInv, NEW a \in Stream!Attempts,
           Stream!RelayStopsForwarding(a)
    PROVE  StreamInv'
<1>1. sRelay \in [Stream!Attempts -> Forwarder] /\ sRelay[a] \in Forwarder
  BY StreamTypesAre DEF StreamInv
<1> DEFINE r == [sRelay[a] EXCEPT !.pc = "recv", !.item = Stream!None, !.forward = FALSE]
<1>2. r \in Forwarder /\ r.pc = "recv" /\ ~ r.forward /\ r.marked = sRelay[a].marked
  BY <1>1, ItemTypes DEF Forwarder
<1>3. sRelay' = [sRelay EXCEPT ![a] = r]
  BY <1>1 DEF Stream!RelayStopsForwarding
<1> HIDE DEF r
<1>4. /\ sRelay' \in [Stream!Attempts -> Forwarder] /\ sRelay'[a] = r
      /\ \A b \in Stream!Attempts : b # a => sRelay'[b] = sRelay[b]
  BY <1>1, <1>2, <1>3
<1>5. /\ sRelay[a].pc = "send" /\ sCancelled
      /\ UNCHANGED <<sExecutor, sBase, sErrs, sConverter, sHandler, sGone, sCancelled>>
  BY DEF Stream!RelayStopsForwarding
<1> QED BY <1>2, <1>4, <1>5, RelayFine

(* The executor has closed its channel.                                     *)
LEMMA RelayEndsFine ==
    ASSUME Stream!BoundsAssumption, StreamInv, NEW a \in Stream!Attempts, Stream!RelayEnds(a)
    PROVE  StreamInv'
<1>1. sRelay \in [Stream!Attempts -> Forwarder] /\ sRelay[a] \in Forwarder
  BY StreamTypesAre DEF StreamInv
<1> DEFINE m == IF sRelay[a].marked = "no" THEN "success" ELSE sRelay[a].marked
           r == [sRelay[a] EXCEPT !.pc = "over", !.marked = m]
<1>2. r \in Forwarder /\ r.pc = "over" /\ r.forward = sRelay[a].forward /\ r.marked = m
  BY <1>1 DEF Forwarder
<1>3. sRelay' = [sRelay EXCEPT ![a] = r]
  BY <1>1 DEF Stream!RelayEnds, Forwarder
<1> HIDE DEF r
<1>4. /\ sRelay' \in [Stream!Attempts -> Forwarder] /\ sRelay'[a] = r
      /\ \A b \in Stream!Attempts : b # a => sRelay'[b] = sRelay[b]
  BY <1>1, <1>2, <1>3
<1>5. /\ sRelay[a].pc = "recv" /\ sExecutor[a].stage = "over"
      /\ UNCHANGED <<sExecutor, sBase, sErrs, sConverter, sHandler, sGone, sCancelled>>
  BY DEF Stream!RelayEnds
<1> QED BY <1>2, <1>4, <1>5, RelayFine

(* What an answer leaves alone while it goes on, and its end.               *)
SameAnswer(h) ==
    /\ h \in Answerer /\ h.endpoint = sHandler.endpoint /\ h.peeking = sHandler.peeking
    /\ h.written = sHandler.written

(* The end.                                                                 *)
LEMMA FinishIs ==
    ASSUME Stream!TypeOK, NEW result \in {"none", "done", "error", "gone"}
    PROVE  LET h == Stream!Finish(sHandler, result) IN
           /\ SameAnswer(h) /\ h.errsNil = sHandler.errsNil
           /\ h.pc = "over" /\ h.result = result
<1>1. sHandler \in Answerer
  BY StreamTypesAre
<1> QED BY <1>1 DEF Stream!Finish, SameAnswer, Answerer

(* The channel of the error is closed.                                      *)
LEMMA OnErrsClosedIs ==
    ASSUME Stream!TypeOK
    PROVE  LET h == Stream!OnErrsClosed(sHandler) IN
           /\ SameAnswer(h) /\ h.pc = "turn" /\ h.result = sHandler.result
<1>1. sHandler \in Answerer
  BY StreamTypesAre
<1> QED BY <1>1 DEF Stream!OnErrsClosed, SameAnswer, Answerer

(* A payload is written.                                                    *)
LEMMA OnDataIs ==
    ASSUME Stream!TypeOK, NEW item \in Stream!Item, NEW completes \in BOOLEAN,
           sBase.attempt \in Stream!Attempts
    PROVE  LET h == Stream!OnData(sHandler, item, completes) IN
           /\ h \in Answerer /\ h.endpoint = sHandler.endpoint /\ ~ h.peeking
           /\ h.errsNil = sHandler.errsNil
           /\ h.written = Append(sHandler.written, <<sBase.attempt, item.n>>)
           /\ h.pc = "turn" /\ h.result = sHandler.result
<1>1. sHandler \in Answerer
  BY StreamTypesAre
<1>2. sHandler.written \in Seq(Stream!Attempts \X Nat) /\ item.n \in Nat
  BY <1>1 DEF Answerer, Stream!Item
<1>3. <<sBase.attempt, item.n>> \in Stream!Attempts \X Nat
  BY <1>2
<1>4. Append(sHandler.written, <<sBase.attempt, item.n>>) \in Seq(Stream!Attempts \X Nat)
  BY <1>2, <1>3
<1>5. (sHandler.completed \/ (sHandler.endpoint.socket /\ completes)) \in BOOLEAN
  OBVIOUS
<1> QED BY <1>1, <1>4, <1>5 DEF Stream!OnData, Answerer

(* An attempt is opened.                                                    *)
LEMMA OpenFine ==
    ASSUME Stream!BoundsAssumption, StreamInv, NEW a \in Stream!Attempts, Stream!Opened(a),
           sExecutor[a] = Stream!NoExecutor, sRelay[a] = Stream!NoRelay,
           sBase' \in Retrier, sBase'.pc = "recv", sBase'.attempt = a, ~ sBase'.sentPayload,
           sBase.pc \in {"none", "retry"}, sBase.pc # "none" => a > sBase.attempt,
           SameAnswer(sHandler'), sHandler'.result = sHandler.result,
           sHandler'.errsNil = sHandler.errsNil,
           sHandler'.pc = IF sHandler.pc = "call" THEN "turn" ELSE sHandler.pc,
           ~ sBase.sentPayload, ~ sErrs.msg, ~ sErrs.closed,
           UNCHANGED <<sErrs, sConverter, sGone, sCancelled>>
    PROVE  StreamInv'
<1>1. Stream!TypeOK /\ (\A b \in Stream!Attempts : AttemptFine(b)) /\ InTurn
          /\ (Going => Numbered) /\ MarkFine
      /\ EndFine /\ ToldFine
  BY DEF StreamInv
<1>2. PICK kind \in Stream!Executors :
         sExecutor' = [sExecutor EXCEPT ![a]
             = [Stream!NoExecutor EXCEPT !.kind = kind, !.stage = "body"]]
  BY DEF Stream!Opened
<1>3. sExecutor \in [Stream!Attempts -> Reader] /\ sRelay \in [Stream!Attempts -> Forwarder]
      /\ sHandler \in Answerer
      /\ sBase \in Retrier /\ sBase.attempt \in Stream!Attempts
  BY <1>1, StreamTypesAre DEF Retrier
<1> DEFINE e == [Stream!NoExecutor EXCEPT !.kind = kind, !.stage = "body"]
           r == [Stream!NoRelay EXCEPT !.pc = "recv"]
<1>4. e \in Reader /\ e.stage = "body" /\ e.item = Stream!None /\ e.sent = 0
  BY ItemTypes DEF Stream!NoExecutor, Reader
<1>5. r \in Forwarder /\ r.pc = "recv" /\ r.marked = "no" /\ r.forward = TRUE
  BY ItemTypes DEF Stream!NoRelay, Forwarder
<1>6. sRelay' = [sRelay EXCEPT ![a] = r]
  BY <1>3 DEF Stream!Opened
<1> HIDE DEF r
<1>7. sRelay' \in [Stream!Attempts -> Forwarder] /\ sRelay'[a] = r
      /\ \A b \in Stream!Attempts : b # a => sRelay'[b] = sRelay[b]
  BY <1>3, <1>5, <1>6
<1>8. sExecutor' = [sExecutor EXCEPT ![a] = e]
  BY <1>2
<1> HIDE DEF e
<1>9. sExecutor' \in [Stream!Attempts -> Reader] /\ sExecutor'[a] = e
      /\ \A b \in Stream!Attempts : b # a => sExecutor'[b] = sExecutor[b]
  BY <1>3, <1>4, <1>8
<1>10. Stream!TypeOK'
  BY <1>1, <1>7, <1>9, StreamTypesAre, NextStreamTypesAre DEF SameAnswer
<1>11. \A b \in Stream!Attempts : AttemptFine(b)'
  <2>1. AttemptFine(a)'
    <3>1. ~ (a > a)
      BY DEF Stream!Attempts, Stream!BoundsAssumption
    <3> QED BY <1>1, <1>4, <1>5, <1>7, <1>9, <3>1 DEF AttemptFine
  <2>2. ASSUME NEW b \in Stream!Attempts, b # a PROVE AttemptFine(b)'
    <3>1. b > a => sBase.pc = "none" \/ b > sBase.attempt
      BY <1>3 DEF Stream!Attempts, Stream!BoundsAssumption
    <3> QED BY <1>1, <1>7, <1>9, <2>2, <3>1 DEF AttemptFine
  <2> QED BY <2>1, <2>2
<1>12. Written = 0 /\ Written' = 0 /\ sConverter.pc # "send" /\ Going' = Going
  BY <1>1 DEF InTurn, Written, SameAnswer, Going
<1>13. InTurn'
  BY <1>12 DEF InTurn
<1>14. Numbered'
  <2>1. InRelay(a)' = 0 /\ InExecutor(a)' = 0
    BY <1>4, <1>5, <1>7, <1>9, ItemTypes DEF InRelay, InExecutor
  <2>2. Passed' = 0
    BY <1>12 DEF Passed, InConverter, InBase
  <2> QED BY <1>4, <1>9, <1>12, <2>1, <2>2 DEF Numbered
<1>15. MarkFine'
  BY <1>5, <1>7 DEF MarkFine
<1>16. EndFine'
  BY <1>1, <1>12 DEF EndFine, SameAnswer
<1>17. ToldFine'
  BY <1>1, <1>12 DEF ToldFine, Stream!Told, SameAnswer
<1> QED BY <1>10, <1>11, <1>13, <1>14, <1>15, <1>16, <1>17 DEF StreamInv

(* The handler calls.                                                       *)
LEMMA CallStreams ==
    ASSUME Stream!BoundsAssumption, StreamInv, Stream!Call
    PROVE  StreamInv'
<1>1. Stream!TypeOK /\ (\A b \in Stream!Attempts : AttemptFine(b)) /\ InTurn
          /\ (Going => Numbered) /\ MarkFine
      /\ EndFine /\ ToldFine
  BY DEF StreamInv
<1>2. sHandler \in Answerer /\ sBase \in Retrier /\ 1 \in Stream!Attempts
  BY <1>1, StreamTypesAre DEF Stream!Attempts, Stream!BoundsAssumption
<1>3. sHandler.pc = "call" /\ sBase.pc = "none" /\ sBase.attempt = 1 /\ ~ sBase.sentPayload
      /\ ~ sErrs.msg /\ ~ sErrs.closed /\ Written = 0 /\ sConverter.pc # "send"
  BY <1>1 DEF Stream!Call, InTurn
<1>4. /\ SameAnswer(sHandler') /\ sHandler'.pc = "turn" /\ sHandler'.result = sHandler.result
      /\ sHandler'.errsNil = sHandler.errsNil
  BY <1>2 DEF Stream!Call, SameAnswer, Answerer
<1>5. UNCHANGED <<sConverter, sGone, sCancelled>>
  BY DEF Stream!Call
<1>6. CASE Stream!Opened(1) /\ sBase' = [sBase EXCEPT !.pc = "recv"] /\ UNCHANGED sErrs
  <2>1. sExecutor[1] = Stream!NoExecutor /\ sRelay[1] = Stream!NoRelay
    BY <1>1, <1>2, <1>3 DEF AttemptFine
  <2>2. sBase' \in Retrier /\ sBase'.pc = "recv" /\ sBase'.attempt = 1 /\ ~ sBase'.sentPayload
    BY <1>2, <1>3, <1>6 DEF Retrier
  <2> QED BY <1>2, <1>3, <1>4, <1>5, <1>6, <2>1, <2>2, OpenFine
<1>7. CASE sErrs' = [msg |-> TRUE, closed |-> TRUE] /\ UNCHANGED <<sExecutor, sRelay, sBase>>
  <2>1. Stream!TypeOK'
    BY <1>1, <1>4, <1>5, <1>7, StreamTypesAre, NextStreamTypesAre DEF SameAnswer, ErrorChannel
  <2>2. \A b \in Stream!Attempts : AttemptFine(b)'
    BY <1>1, <1>5, <1>7 DEF AttemptFine
  <2>3. Written' = 0 /\ Going /\ Going'
    BY <1>3, <1>4 DEF Written, SameAnswer, Going
  <2>4. InTurn'
    BY <1>1, <1>3, <1>4, <1>5, <1>7, <2>3 DEF InTurn
  <2>5. Numbered' /\ MarkFine'
    BY <1>3, <1>5, <1>7 DEF Numbered, MarkFine
  <2>6. EndFine'
    BY <1>1, <1>3, <1>4, <1>5, <1>7, <2>3 DEF EndFine, SameAnswer
  <2>7. ToldFine'
    BY <1>1, <1>4, <2>3 DEF ToldFine, Stream!Told, SameAnswer
  <2> QED BY <2>1, <2>2, <2>4, <2>5, <2>6, <2>7 DEF StreamInv
<1> QED BY <1>6, <1>7 DEF Stream!Call

(* The retrying goroutine goes on to the end, or gives up a retry.          *)
LEMMA BaseOnwardFine ==
    ASSUME Stream!BoundsAssumption, StreamInv, Stream!TypeOK', EndFine',
           sBase.pc # "none", sBase.pc # "over",
           sBase'.attempt = sBase.attempt, sBase'.sentPayload = sBase.sentPayload,
           sBase'.pc \in {"fail", "closing", "close", "over"},
           SameAnswer(sHandler'), sHandler'.result = sHandler.result,
           Going' = Going, sHandler.pc # "call", sHandler'.pc # "call",
           UNCHANGED <<sExecutor, sRelay, sConverter, sGone, sCancelled>>
    PROVE  StreamInv'
<1>1. Stream!TypeOK /\ (\A b \in Stream!Attempts : AttemptFine(b)) /\ InTurn
          /\ (Going => Numbered) /\ MarkFine
      /\ EndFine /\ ToldFine
  BY DEF StreamInv
<1>2. \A b \in Stream!Attempts : AttemptFine(b)'
  BY <1>1 DEF AttemptFine
<1>3. Written' = Written
  BY DEF Written, SameAnswer
<1>4. InTurn'
  BY <1>1, <1>3 DEF InTurn, SameAnswer
<1>5. (Going => Numbered)' /\ MarkFine'
  BY <1>1, <1>3 DEF Numbered, MarkFine
<1>6. ToldFine'
  BY <1>1 DEF ToldFine, Stream!Told, SameAnswer
<1> QED BY <1>2, <1>4, <1>5, <1>6 DEF StreamInv

(* Another attempt, or its failure.                                         *)
LEMMA BaseRetriesFine ==
    ASSUME Stream!BoundsAssumption, StreamInv, Stream!BaseRetries
    PROVE  StreamInv'
<1>1. Stream!TypeOK /\ (\A b \in Stream!Attempts : AttemptFine(b)) /\ InTurn
          /\ (Going => Numbered) /\ MarkFine
      /\ EndFine /\ ToldFine
  BY DEF StreamInv
<1>2. sHandler \in Answerer /\ sBase \in Retrier /\ sBase.attempt \in Stream!Attempts
  BY <1>1, StreamTypesAre DEF Retrier
<1>3. sBase.pc = "retry" /\ ~ sBase.sentPayload /\ sBase.attempt <= MaxRetries
      /\ sHandler.pc # "call"
      /\ ~ sErrs.msg /\ ~ sErrs.closed
  BY <1>1 DEF Stream!BaseRetries, InTurn, EndFine
<1>4. /\ UNCHANGED <<sErrs, sConverter, sHandler, sGone, sCancelled>>
      /\ SameAnswer(sHandler')
  BY <1>2 DEF Stream!BaseRetries, SameAnswer
<1>5. CASE Stream!Opened(sBase.attempt + 1)
           /\ sBase' = [sBase EXCEPT !.pc = "recv", !.attempt = @ + 1]
  <2>1. sBase.attempt + 1 \in Stream!Attempts /\ sBase.attempt + 1 > sBase.attempt
    BY <1>2, <1>3 DEF Stream!Attempts, Stream!BoundsAssumption
  <2>2. sExecutor[sBase.attempt + 1] = Stream!NoExecutor
        /\ sRelay[sBase.attempt + 1] = Stream!NoRelay
    BY <1>1, <2>1 DEF AttemptFine
  <2>3. /\ sBase' \in Retrier /\ sBase'.pc = "recv" /\ sBase'.attempt = sBase.attempt + 1
        /\ ~ sBase'.sentPayload
    BY <1>2, <1>3, <1>5, <2>1 DEF Retrier
  <2> QED BY <1>3, <1>4, <1>5, <2>1, <2>2, <2>3, OpenFine
<1>6. CASE sBase' = [sBase EXCEPT !.pc = "fail"] /\ UNCHANGED <<sExecutor, sRelay>>
  <2>1. /\ sBase' \in Retrier /\ sBase'.pc = "fail" /\ sBase'.attempt = sBase.attempt
        /\ sBase'.sentPayload = sBase.sentPayload
    BY <1>2, <1>6 DEF Retrier
  <2>2. Stream!TypeOK'
    BY <1>1, <1>4, <1>6, <2>1, StreamTypesAre, NextStreamTypesAre
  <2>3. EndFine' /\ Going' = Going
    BY <1>1, <1>3, <1>4, <1>6, <2>1 DEF EndFine, Going
  <2> QED BY <1>3, <1>4, <1>6, <2>1, <2>2, <2>3, BaseOnwardFine
<1> QED BY <1>5, <1>6 DEF Stream!BaseRetries

(* All of the answer was passed on.                                         *)
LEMMA BaseSeesEndFine ==
    ASSUME Stream!BoundsAssumption, StreamInv, Stream!BaseSeesEnd
    PROVE  StreamInv'
<1>1. Stream!TypeOK /\ (\A b \in Stream!Attempts : AttemptFine(b)) /\ InTurn
          /\ (Going => Numbered) /\ MarkFine
      /\ EndFine /\ ToldFine
  BY DEF StreamInv
<1>2. sHandler \in Answerer /\ sBase \in Retrier /\ sBase.attempt \in Stream!Attempts
  BY <1>1, StreamTypesAre DEF Retrier
<1>3. sBase.pc = "recv" /\ sRelay[sBase.attempt].pc = "over" /\ sHandler.pc # "call"
  BY <1>1 DEF Stream!BaseSeesEnd, InTurn
<1>4. /\ sBase' \in Retrier /\ sBase'.pc = "closing" /\ sBase'.attempt = sBase.attempt
      /\ sBase'.sentPayload = sBase.sentPayload
  BY <1>2 DEF Stream!BaseSeesEnd, Retrier
<1>5. UNCHANGED <<sExecutor, sRelay, sErrs, sConverter, sHandler, sGone, sCancelled>>
  BY DEF Stream!BaseSeesEnd
<1>6. Stream!TypeOK'
  BY <1>1, <1>4, <1>5, StreamTypesAre, NextStreamTypesAre
<1>7. Going /\ ~ sCancelled => Complete
  <2>1. sExecutor[sBase.attempt].stage = "over" /\ sExecutor[sBase.attempt].item = Stream!None
    BY <1>1, <1>2, <1>3 DEF AttemptFine
  <2>2. ~ sCancelled => sRelay[sBase.attempt].forward
    BY <1>1, <1>2 DEF AttemptFine
  <2>3. InRelay(sBase.attempt) = 0 /\ InExecutor(sBase.attempt) = 0
    BY <1>3, <2>1, ItemTypes DEF InRelay, InExecutor
  <2>4. InBase = 0
    BY <1>3 DEF InBase
  <2>5. Written \in Nat /\ InConverter \in {0, 1}
    BY <1>1, <1>2, CountTypes
  <2>6. Passed = Written + InConverter
    BY <2>4, <2>5 DEF Passed
  <2>7. ~ sCancelled => sRelay[sBase.attempt].marked = "success"
    BY <1>1, <1>2, <1>3 DEF MarkFine, AttemptFine
  <2> QED BY <1>1, <1>3, <2>1, <2>2, <2>3, <2>5, <2>6, <2>7 DEF Numbered, Complete
<1>8. Complete' = Complete /\ Going' = Going
  BY <1>4, <1>5 DEF Complete, Going, Written, InConverter
<1>9. EndFine'
  BY <1>1, <1>3, <1>4, <1>5, <1>7, <1>8 DEF EndFine
<1> QED BY <1>2, <1>3, <1>4, <1>5, <1>6, <1>8, <1>9, BaseOnwardFine DEF SameAnswer

(* Nobody listens any more.                                                 *)
LEMMA BaseCancelledFine ==
    ASSUME Stream!BoundsAssumption, StreamInv, Stream!BaseCancelled
    PROVE  StreamInv'
<1>1. Stream!TypeOK /\ (\A b \in Stream!Attempts : AttemptFine(b)) /\ InTurn
          /\ (Going => Numbered) /\ MarkFine
      /\ EndFine /\ ToldFine
  BY DEF StreamInv
<1>2. sHandler \in Answerer /\ sBase \in Retrier
  BY <1>1, StreamTypesAre
<1>3. sBase.pc \in {"recv", "data", "fail"} /\ sCancelled /\ sHandler.pc # "call"
  BY <1>1 DEF Stream!BaseCancelled, InTurn
<1>4. /\ sBase' \in Retrier /\ sBase'.pc = "closing" /\ sBase'.attempt = sBase.attempt
      /\ sBase'.sentPayload = sBase.sentPayload
  BY <1>2, ItemTypes DEF Stream!BaseCancelled, Retrier
<1>5. UNCHANGED <<sExecutor, sRelay, sErrs, sConverter, sHandler, sGone, sCancelled>>
  BY DEF Stream!BaseCancelled
<1>6. Stream!TypeOK'
  BY <1>1, <1>4, <1>5, StreamTypesAre, NextStreamTypesAre
<1>7. EndFine' /\ Going' = Going
  BY <1>1, <1>3, <1>4, <1>5 DEF EndFine, Going
<1> QED BY <1>2, <1>3, <1>4, <1>5, <1>6, <1>7, BaseOnwardFine DEF SameAnswer

(* The handler returns.                                                     *)
LEMMA EndsFine ==
    ASSUME Stream!BoundsAssumption, StreamInv, Stream!TypeOK', Going, sHandler.pc # "call",
           sCancelled',
           NEW result \in {"none", "done", "error", "gone"},
               sHandler' = Stream!Finish(sHandler, result),
           UNCHANGED <<sExecutor, sRelay>>,
           sBase'.attempt = sBase.attempt, sBase'.sentPayload = sBase.sentPayload,
           \/ sBase'.pc = sBase.pc
           \/ /\ sBase.pc \in {"fail", "closing", "close"}
              /\ sBase'.pc \in {"closing", "close", "over"},
           sConverter' = sConverter \/ (sConverter.pc # "none" /\ sConverter'.pc # "send"),
           sErrs'.closed => sBase'.pc \in {"none", "close", "over"},
           sErrs'.msg => sBase'.pc \in {"none", "closing", "close", "over"},
           sErrs.closed => sErrs'.closed,
           result = "done" /\ ~ sGone' /\ ~ sHandler.endpoint.socket =>
               /\ sBase'.pc = "over" /\ sRelay[sBase.attempt].pc = "over"
               /\ Written = sExecutor[sBase.attempt].sent
               /\ sRelay[sBase.attempt].marked = "success"
    PROVE  StreamInv'
<1>1. Stream!TypeOK /\ (\A b \in Stream!Attempts : AttemptFine(b)) /\ InTurn
          /\ (Going => Numbered) /\ MarkFine
      /\ EndFine /\ ToldFine
  BY DEF StreamInv
<1>2. /\ SameAnswer(sHandler') /\ sHandler'.errsNil = sHandler.errsNil
      /\ sHandler'.pc = "over" /\ sHandler'.result = result
  BY <1>1, FinishIs
<1>3. \A b \in Stream!Attempts : AttemptFine(b)'
  BY <1>1 DEF AttemptFine
<1>4. Written' = Written /\ ~ Going'
  BY <1>2 DEF Written, SameAnswer, Going
<1>5. InTurn'
  BY <1>1, <1>2, <1>4 DEF InTurn, SameAnswer
<1>6. MarkFine'
  BY DEF MarkFine
<1>7. EndFine'
  BY <1>1, <1>2, <1>4 DEF EndFine, SameAnswer
<1>8. ToldFine'
  BY <1>2, <1>4 DEF ToldFine, Stream!Told, SameAnswer
<1> QED BY <1>3, <1>4, <1>5, <1>6, <1>7, <1>8 DEF StreamInv

(* The channel of the data is closed.                                       *)
LEMMA OnDataClosedIs ==
    ASSUME Stream!TypeOK
    PROVE  \E result \in {"done", "error"} :
              /\ Stream!OnDataClosed(sHandler) = Stream!Finish(sHandler, result)
              /\ result = "done" => \/ sHandler.peeking \/ sHandler.endpoint.socket
                                    \/ ~ sErrs.msg \/ sHandler.errsNil
BY DEF Stream!OnDataClosed

(* A payload goes on; an error is retried or told.                          *)
LEMMA BaseReceivesFine ==
    ASSUME Stream!BoundsAssumption, StreamInv, Stream!BaseReceives
    PROVE  StreamInv'
<1>1. Stream!TypeOK /\ (\A b \in Stream!Attempts : AttemptFine(b)) /\ InTurn
          /\ (Going => Numbered) /\ MarkFine
      /\ EndFine /\ ToldFine
  BY DEF StreamInv
<1> PICK a \in Stream!Attempts : a = sBase.attempt
  BY <1>1, StreamTypesAre DEF Retrier
<1> DEFINE item == sRelay[a].item
           r == [sRelay[a] EXCEPT !.pc = "recv", !.item = Stream!None]
<1>2. /\ sHandler \in Answerer /\ sBase \in Retrier /\ a \in Stream!Attempts
      /\ sRelay[a] \in Forwarder
      /\ sRelay \in [Stream!Attempts -> Forwarder]
  BY <1>1, StreamTypesAre DEF Retrier
<1>3. sBase.pc = "recv" /\ sRelay[a].pc = "send" /\ sHandler.pc # "call" /\ sRelay[a].forward
      /\ item \in Stream!Item /\ item.type # "none"
  BY <1>1, <1>2 DEF Stream!BaseReceives, InTurn, AttemptFine, Forwarder
<1>4. r \in Forwarder /\ r.pc = "recv" /\ r.marked = sRelay[a].marked
      /\ r.forward = sRelay[a].forward
  BY <1>2, ItemTypes DEF Forwarder
<1>5. sRelay' = [sRelay EXCEPT ![a] = r]
  BY <1>2 DEF Stream!BaseReceives
<1>6. sBase' = CASE Stream!Failing(item) -> [sBase EXCEPT !.pc = IF Stream!MayRetry(item)
          THEN "retry" ELSE "fail"]
                [] item.type = "bad" -> [sBase EXCEPT !.pc = "fail"]
                [] OTHER -> [sBase EXCEPT !.pc = "data", !.item = item, !.sentPayload = TRUE]
  BY DEF Stream!BaseReceives
<1>7. UNCHANGED <<sExecutor, sErrs, sConverter, sHandler, sGone, sCancelled>>
  BY DEF Stream!BaseReceives
<1> HIDE DEF r, item
<1>8. /\ sRelay' \in [Stream!Attempts -> Forwarder] /\ sRelay'[a] = r
      /\ \A b \in Stream!Attempts : b # a => sRelay'[b] = sRelay[b]
  BY <1>2, <1>4, <1>5
<1>9. \/ /\ sBase' \in Retrier /\ sBase'.attempt = a /\ sBase'.sentPayload = sBase.sentPayload
         /\ sBase'.pc \in {"retry", "fail"}
         /\ sBase'.pc = "retry" => ~ sBase.sentPayload /\ a <= MaxRetries
      \/ /\ sBase' \in Retrier /\ sBase'.attempt = a /\ sBase'.sentPayload
         /\ sBase'.pc = "data" /\ sBase'.item = item /\ Payload(item) /\ ~ Stream!Failing(item)
  <2>1. CASE Stream!Failing(item)
    <3>1. PICK pc \in {"retry", "fail"} :
             sBase' = [sBase EXCEPT !.pc = pc] /\ (pc = "retry" => Stream!MayRetry(item))
      BY <1>6, <2>1
    <3> QED BY <1>2, <3>1 DEF Retrier, Stream!MayRetry
  <2>2. CASE ~ Stream!Failing(item) /\ item.type = "bad"
    BY <1>2, <1>6, <2>2 DEF Retrier
  <2>3. CASE ~ Stream!Failing(item) /\ item.type # "bad"
    <3>1. sBase' = [sBase EXCEPT !.pc = "data", !.item = item, !.sentPayload = TRUE]
      BY <1>6, <2>3
    <3>2. Payload(item)
      BY <1>3, <2>3, ItemTypes
    <3> QED BY <1>2, <1>3, <2>3, <3>1, <3>2 DEF Retrier
  <2> QED BY <2>1, <2>2, <2>3
<1>10. Stream!TypeOK'
  BY <1>1, <1>7, <1>8, <1>9, StreamTypesAre, NextStreamTypesAre
<1>11. \A b \in Stream!Attempts : AttemptFine(b)'
  <2>1. AttemptFine(a)'
    <3>1. ~ (a > a)
      BY <1>2 DEF Stream!Attempts, Stream!BoundsAssumption
    <3> QED BY <1>1, <1>2, <1>3, <1>4, <1>7, <1>8, <1>9, <3>1 DEF AttemptFine
  <2>2. ASSUME NEW b \in Stream!Attempts, b # a PROVE AttemptFine(b)'
    BY <1>1, <1>3, <1>7, <1>8, <1>9, <2>2 DEF AttemptFine
  <2> QED BY <2>1, <2>2
<1>12. Written' = Written /\ InConverter' = InConverter /\ Going' = Going
  BY <1>7 DEF Written, InConverter, Going
<1>13. InTurn'
  BY <1>1, <1>3, <1>7, <1>9, <1>12 DEF InTurn
<1>14. (Going => Numbered)'
  <2>1. CASE sBase'.pc \in {"retry", "fail"}
    BY <1>1, <1>7, <1>12, <2>1 DEF Numbered
  <2>2. CASE sBase'.pc = "data"
    <3>1. sBase'.attempt = a /\ sBase'.item = item /\ Payload(item)
      BY <1>9, <2>2
    <3>2. InRelay(a) = 1 /\ InRelay(a)' = 0 /\ InBase = 0 /\ InBase' = 1
      BY <1>3, <1>4, <1>8, <2>2, <3>1 DEF InRelay, InBase, item
    <3>3. InExecutor(a)' = InExecutor(a) /\ sExecutor' = sExecutor
      BY <1>7 DEF InExecutor
    <3>4. Written \in Nat /\ InConverter \in {0, 1} /\ InExecutor(a) \in {0, 1}
      BY <1>1, <1>2, CountTypes
    <3>5. Passed = Written + InConverter /\ Passed' = Written + InConverter + 1
      BY <1>12, <3>2, <3>4 DEF Passed
    <3> QED BY <1>1, <1>3, <1>4, <1>7, <1>8, <1>12, <3>1, <3>2, <3>3, <3>4, <3>5
            DEF Numbered, item
  <2> QED BY <1>9, <2>1, <2>2
<1>15. MarkFine'
  BY <1>1, <1>3, <1>4, <1>7, <1>8, <1>9 DEF MarkFine, item
<1>16. EndFine'
  BY <1>1, <1>3, <1>7, <1>9, <1>12 DEF EndFine
<1>17. ToldFine'
  BY <1>1, <1>3, <1>7, <1>12 DEF ToldFine, Stream!Told
<1> QED BY <1>10, <1>11, <1>13, <1>14, <1>15, <1>16, <1>17 DEF StreamInv

(* The error is told, to a handler that waits or by the channel.            *)
LEMMA BaseSendsErrorFine ==
    ASSUME Stream!BoundsAssumption, StreamInv, Stream!BaseSendsError
    PROVE  StreamInv'
<1>1. Stream!TypeOK /\ (\A b \in Stream!Attempts : AttemptFine(b)) /\ InTurn
          /\ (Going => Numbered) /\ MarkFine
      /\ EndFine /\ ToldFine
  BY DEF StreamInv
<1>2. sHandler \in Answerer /\ sBase \in Retrier /\ sErrs \in ErrorChannel
  BY <1>1, StreamTypesAre
<1>3. sBase.pc = "fail" /\ sHandler.pc # "call" /\ ~ sErrs.closed /\ ~ sErrs.msg
      /\ ~ sHandler.errsNil
  BY <1>1 DEF Stream!BaseSendsError, InTurn, EndFine
<1>4. /\ sBase' \in Retrier /\ sBase'.pc = "closing" /\ sBase'.attempt = sBase.attempt
      /\ sBase'.sentPayload = sBase.sentPayload
  BY <1>2 DEF Stream!BaseSendsError, Retrier
<1>5. /\ UNCHANGED <<sExecutor, sRelay, sConverter, sGone>>
      /\ sErrs' \in ErrorChannel /\ sErrs'.msg = (sHandler.pc # "wait") /\ ~ sErrs'.closed
  BY <1>2, <1>3 DEF Stream!BaseSendsError, ErrorChannel
<1>6. sHandler' \in Answerer /\ sCancelled' \in BOOLEAN
  BY <1>1, <1>2, FinishIs DEF Stream!BaseSendsError, Stream!Woken, SameAnswer, Stream!CancelAtEnd
<1>7. Stream!TypeOK'
  BY <1>1, <1>4, <1>5, <1>6, StreamTypesAre, NextStreamTypesAre
<1>8. CASE sHandler.pc = "wait"
  <2>1. sHandler' = Stream!Finish(sHandler, "error")
    BY <1>8 DEF Stream!BaseSendsError, Stream!Woken
  <2>2. sCancelled'
    BY <1>1, <2>1, FinishIs DEF Stream!BaseSendsError, Stream!CancelAtEnd
  <2> QED BY <1>3, <1>4, <1>5, <1>7, <1>8, <2>1, <2>2, EndsFine DEF Going
<1>9. CASE sHandler.pc # "wait"
  <2>1. sHandler' = sHandler /\ Going' = Going
    BY <1>9 DEF Stream!BaseSendsError, Stream!Woken, Going
  <2>2. sCancelled' = sCancelled
    BY <1>1, <1>6, <2>1, StreamTypesAre
       DEF Stream!BaseSendsError, Stream!CancelAtEnd, EndFine, Going
  <2>3. \A b \in Stream!Attempts : AttemptFine(b)'
    BY <1>1, <1>3, <1>4, <1>5, <2>2 DEF AttemptFine
  <2>4. EndFine'
    BY <1>1, <1>3, <1>4, <1>5, <1>9, <2>1, <2>2 DEF EndFine
  <2>5. InTurn'
    BY <1>1, <1>3, <1>4, <1>5, <2>1 DEF InTurn, Written
  <2>6. (Going => Numbered)' /\ MarkFine'
    BY <1>1, <1>3, <1>4, <1>5, <2>1 DEF Numbered, MarkFine, Written
  <2>7. ToldFine'
    BY <1>1, <1>3, <1>5, <2>1 DEF ToldFine, Stream!Told
  <2> QED BY <1>7, <2>3, <2>4, <2>5, <2>6, <2>7 DEF StreamInv
<1> QED BY <1>8, <1>9

(* The channel of the error is closed.                                      *)
LEMMA BaseClosesErrsFine ==
    ASSUME Stream!BoundsAssumption, StreamInv, Stream!BaseClosesErrs
    PROVE  StreamInv'
<1>1. Stream!TypeOK /\ (\A b \in Stream!Attempts : AttemptFine(b)) /\ InTurn
          /\ (Going => Numbered) /\ MarkFine
      /\ EndFine /\ ToldFine
  BY DEF StreamInv
<1>2. sHandler \in Answerer /\ sBase \in Retrier /\ sErrs \in ErrorChannel
  BY <1>1, StreamTypesAre
<1>3. sBase.pc = "closing" /\ sHandler.pc # "call"
  BY <1>1 DEF Stream!BaseClosesErrs, InTurn
<1>4. /\ sBase' \in Retrier /\ sBase'.pc = "close" /\ sBase'.attempt = sBase.attempt
      /\ sBase'.sentPayload = sBase.sentPayload
  BY <1>2 DEF Stream!BaseClosesErrs, Retrier
<1>5. /\ UNCHANGED <<sExecutor, sRelay, sConverter, sGone, sCancelled>>
      /\ sErrs' \in ErrorChannel /\ sErrs'.msg = sErrs.msg /\ sErrs'.closed
  BY <1>2 DEF Stream!BaseClosesErrs, ErrorChannel
<1>6. /\ SameAnswer(sHandler') /\ sHandler'.result = sHandler.result
      /\ \/ sHandler' = sHandler /\ sHandler.pc # "wait"
         \/ sHandler'.pc = "turn" /\ sHandler.pc = "wait"
  BY <1>1, <1>2, OnErrsClosedIs DEF Stream!BaseClosesErrs, Stream!Woken, SameAnswer
<1>7. Stream!TypeOK'
  BY <1>1, <1>4, <1>5, <1>6, StreamTypesAre, NextStreamTypesAre DEF SameAnswer
<1>8. Going' = Going /\ sHandler'.pc # "call" /\ sHandler'.pc # "wait"
  BY <1>3, <1>6 DEF Going
<1>9. Complete' = Complete
  BY <1>4, <1>5, <1>6 DEF Complete, Written, InConverter, SameAnswer
<1>10. sHandler'.errsNil => (Going => ~ sErrs.msg)
  BY <1>1, <1>6 DEF EndFine
<1>11. EndFine'
  BY <1>1, <1>3, <1>4, <1>5, <1>6, <1>8, <1>9, <1>10 DEF EndFine, SameAnswer
<1> QED BY <1>3, <1>4, <1>5, <1>6, <1>7, <1>8, <1>11, BaseOnwardFine

(* The channel of the data is closed.                                       *)
LEMMA BaseClosesDataFine ==
    ASSUME Stream!BoundsAssumption, StreamInv, Stream!BaseClosesData
    PROVE  StreamInv'
<1>1. Stream!TypeOK /\ (\A b \in Stream!Attempts : AttemptFine(b)) /\ InTurn
          /\ (Going => Numbered) /\ MarkFine
      /\ EndFine /\ ToldFine
  BY DEF StreamInv
<1>2. sHandler \in Answerer /\ sBase \in Retrier
  BY <1>1, StreamTypesAre
<1>3. /\ sBase.pc = "close" /\ sHandler.pc # "call"
      /\ ~ (sErrs.msg /\ sHandler.peeking /\ sHandler.pc = "turn")
  BY <1>1 DEF Stream!BaseClosesData, InTurn
<1>4. /\ sBase' \in Retrier /\ sBase'.pc = "over" /\ sBase'.attempt = sBase.attempt
      /\ sBase'.sentPayload = sBase.sentPayload
  BY <1>2 DEF Stream!BaseClosesData, Retrier
<1>5. UNCHANGED <<sExecutor, sRelay, sErrs, sConverter, sGone>>
  BY DEF Stream!BaseClosesData
<1>6. PICK result \in {"done", "error"} :
         /\ Stream!OnDataClosed(sHandler) = Stream!Finish(sHandler, result)
         /\ result = "done" => \/ sHandler.peeking \/ sHandler.endpoint.socket
                               \/ ~ sErrs.msg \/ sHandler.errsNil
  BY <1>1, OnDataClosedIs
<1>7. sHandler' \in Answerer /\ sCancelled' \in BOOLEAN
  BY <1>1, <1>2, <1>6, FinishIs
     DEF Stream!BaseClosesData, Stream!Woken, SameAnswer, Stream!CancelAtEnd
<1>8. Stream!TypeOK'
  BY <1>1, <1>4, <1>5, <1>7, StreamTypesAre, NextStreamTypesAre
<1>9. CASE ~ Stream!Converting /\ sHandler.pc = "wait"
  <2>1. sHandler' = Stream!Finish(sHandler, result)
    BY <1>6, <1>9 DEF Stream!BaseClosesData, Stream!Woken
  <2>2. sCancelled'
    BY <1>1, <2>1, FinishIs DEF Stream!BaseClosesData, Stream!CancelAtEnd
  <2>3. Going /\ ~ sErrs.msg
    BY <1>1, <1>9 DEF EndFine, Going
  <2>4. sConverter.pc = "none" /\ InConverter = 0
    BY <1>1, <1>9 DEF EndFine, Stream!Converting, InConverter
  <2>5. ~ sGone => Complete
    BY <1>1, <1>3, <2>3 DEF EndFine
  <2>6. Written \in Nat
    BY <1>2 DEF Written, Answerer
  <2>7. ~ sGone => /\ sRelay[sBase.attempt].pc = "over" /\ Written = sExecutor[sBase.attempt].sent
                   /\ sRelay[sBase.attempt].marked = "success"
    BY <2>4, <2>5, <2>6 DEF Complete
  <2> QED BY <1>1, <1>3, <1>4, <1>5, <1>8, <1>9, <2>1, <2>2, <2>3, <2>7, EndsFine DEF EndFine
<1>10. CASE ~ (~ Stream!Converting /\ sHandler.pc = "wait")
  <2>1. sHandler' = sHandler /\ Going' = Going
    BY <1>10 DEF Stream!BaseClosesData, Stream!Woken, Going
  <2>2. sCancelled' = sCancelled
    BY <1>1, <1>7, <2>1, StreamTypesAre
       DEF Stream!BaseClosesData, Stream!CancelAtEnd, EndFine, Going
  <2>3. sBase.pc = "close" /\ Complete' = Complete
    BY <1>3, <1>4, <1>5, <2>1 DEF Complete, Written, InConverter
  <2>4. sHandler.peeking /\ Going => ~ sErrs.msg
    BY <1>1, <1>2, <1>3, <1>10 DEF EndFine, Answerer, Going
  <2>5. EndFine'
    BY <1>1, <1>3, <1>4, <1>5, <2>1, <2>2, <2>3, <2>4 DEF EndFine
  <2> QED BY <1>2, <1>3, <1>4, <1>5, <1>8, <2>1, <2>2, <2>5, BaseOnwardFine DEF SameAnswer
<1> QED BY <1>9, <1>10

(* Nothing is taken and nothing ends.                                       *)
LEMMA RestsFine ==
    ASSUME Stream!BoundsAssumption, StreamInv, Stream!TypeOK', EndFine',
           SameAnswer(sHandler'), sHandler'.result = sHandler.result, Going' = Going,
           sHandler'.pc = "call" => sHandler.pc = "call",
           UNCHANGED <<sExecutor, sRelay, sBase, sErrs>>,
           \/ sConverter' = sConverter
           \/ sConverter'.pc # "send" /\ (~ Going \/ sConverter.pc = "recv"),
           sGone => sGone', sCancelled => sCancelled'
    PROVE  StreamInv'
<1>1. Stream!TypeOK /\ (\A b \in Stream!Attempts : AttemptFine(b)) /\ InTurn
          /\ (Going => Numbered) /\ MarkFine
      /\ EndFine /\ ToldFine
  BY DEF StreamInv
<1>2. \A b \in Stream!Attempts : AttemptFine(b)'
  BY <1>1 DEF AttemptFine
<1>3. Written' = Written
  BY DEF Written, SameAnswer
<1>4. InTurn'
  BY <1>1, <1>3 DEF InTurn, SameAnswer
<1>5. (Going => Numbered)'
  <2>1. CASE Going
    <3>1. InConverter' = InConverter
      BY <2>1 DEF InConverter
    <3>2. UNCHANGED <<InBase, InRelay(sBase.attempt), InExecutor(sBase.attempt), Passed>>
      BY <1>3, <3>1 DEF InBase, InRelay, InExecutor, Passed
    <3>3. sConverter'.pc = "send" => sConverter' = sConverter
      OBVIOUS
    <3> QED BY <1>1, <1>3, <2>1, <3>1, <3>2, <3>3 DEF Numbered
  <2>2. CASE ~ Going
    BY <2>2
  <2> QED BY <2>1, <2>2
<1>6. MarkFine'
  BY <1>1 DEF MarkFine
<1>7. ToldFine'
  BY <1>1, <1>3 DEF ToldFine, Stream!Told, SameAnswer
<1> QED BY <1>2, <1>4, <1>5, <1>6, <1>7 DEF StreamInv

(* The client gets a payload: the next.                                     *)
LEMMA WritesFine ==
    ASSUME Stream!BoundsAssumption, StreamInv, Stream!TypeOK', Stream!Ready(sHandler),
           NEW item \in Stream!Item, NEW completes \in BOOLEAN,
           sHandler' = Stream!OnData(sHandler, item, completes),
           UNCHANGED <<sExecutor, sRelay, sErrs, sGone, sCancelled>>,
           sBase'.attempt = sBase.attempt, sBase'.sentPayload = sBase.sentPayload,
           item.n = Written + 1,
           \/ /\ sConverter.pc # "send" /\ sBase.pc = "data" /\ sBase'.pc = "recv"
              /\ \/ sConverter' = sConverter
                 \/ sHandler.endpoint.converts /\ sConverter'.pc = "recv"
              /\ sHandler.endpoint.converts => sConverter'.pc = "recv"
           \/ /\ sConverter.pc = "send" /\ sConverter'.pc = "recv" /\ sBase' = sBase
    PROVE  StreamInv'
<1>1. Stream!TypeOK /\ (\A b \in Stream!Attempts : AttemptFine(b)) /\ InTurn
          /\ (Going => Numbered) /\ MarkFine
      /\ EndFine /\ ToldFine
  BY DEF StreamInv
<1>2. sHandler \in Answerer /\ sBase.attempt \in Stream!Attempts /\ Going
  BY <1>1, StreamTypesAre DEF Retrier, Stream!Ready, Going
<1>3. /\ sHandler' \in Answerer /\ sHandler'.endpoint = sHandler.endpoint /\ ~ sHandler'.peeking
      /\ sHandler'.errsNil = sHandler.errsNil
      /\ sHandler'.written = Append(sHandler.written, <<sBase.attempt, item.n>>)
      /\ sHandler'.pc = "turn" /\ sHandler'.result = sHandler.result
  BY <1>1, <1>2, OnDataIs
<1>4. \A b \in Stream!Attempts : AttemptFine(b)'
  BY <1>1 DEF AttemptFine
<1>5. sHandler.written \in Seq(Stream!Attempts \X Nat)
  BY <1>2 DEF Answerer
<1>6. /\ Written \in Nat /\ Written' = Written + 1 /\ Going'
      /\ \A i \in 1..Written : sHandler'.written[i] = sHandler.written[i]
      /\ sHandler'.written[Written + 1] = <<sBase.attempt, item.n>>
  BY <1>3, <1>5 DEF Written, Going
<1>7. sBase.sentPayload
  BY <1>1 DEF InTurn
<1>8. InTurn'
  <2>1. \A i \in 1..Written' : sHandler'.written[i] = <<sBase'.attempt, i>>
    BY <1>1, <1>6 DEF InTurn
  <2> QED BY <1>1, <1>3, <1>7, <2>1 DEF InTurn
<1>9. UNCHANGED <<InRelay(sBase.attempt), InExecutor(sBase.attempt)>>
  BY DEF InRelay, InExecutor
<1>10. InBase \in {0, 1} /\ InBase' \in {0, 1}
  BY DEF InBase
<1>11. /\ Written' + InConverter' + InBase' = Written + InConverter + InBase
       /\ \/ Written' + InConverter' = Written + InConverter
          \/ sBase.pc = "data" /\ sBase'.pc = "recv"
       /\ sConverter'.pc # "send"
       /\ sBase.pc \in {"recv", "data"} <=> sBase'.pc \in {"recv", "data"}
       /\ sBase'.pc = "data" => sBase' = sBase
  BY <1>1, <1>6, <1>10 DEF InConverter, InBase, EndFine
<1>12. Passed' = Passed
  BY <1>11 DEF Passed
<1>13. Numbered'
  BY <1>1, <1>2, <1>9, <1>11, <1>12 DEF Numbered
<1>14. MarkFine'
  BY <1>1, <1>11 DEF MarkFine
<1>15. sBase.pc \in {"closing", "close", "over"} => (Complete => Complete') /\ sBase' = sBase
  BY <1>11 DEF Complete
<1>16. EndFine'
  <2>1. sHandler'.peeking \/ ~ sHandler'.endpoint.converts => sConverter'.pc = "none"
    BY <1>1, <1>3 DEF EndFine
  <2>2. sConverter'.pc # "over" \/ sConverter' = sConverter
    OBVIOUS
  <2>3. sBase'.pc = sBase.pc \/ (sBase'.pc = "recv" /\ sBase.pc = "data")
    OBVIOUS
  <2> QED BY <1>1, <1>2, <1>3, <1>6, <1>15, <2>1, <2>2, <2>3 DEF EndFine
<1>17. ToldFine'
  BY <1>1, <1>2, <1>3, <1>6 DEF ToldFine, Stream!Told
<1> QED BY <1>4, <1>8, <1>13, <1>14, <1>16, <1>17 DEF StreamInv

(* From the channel of the data,                                            *)
LEMMA TakesDataFine ==
    ASSUME Stream!BoundsAssumption, StreamInv, Stream!TakesData
    PROVE  StreamInv'
<1>1. Stream!TypeOK /\ InTurn /\ (Going => Numbered) /\ EndFine
  BY DEF StreamInv
<1>2. /\ sHandler \in Answerer /\ sBase \in Retrier /\ sBase.attempt \in Stream!Attempts
      /\ sBase.item \in Stream!Item /\ sConverter \in Converter
  BY <1>1, StreamTypesAre DEF Retrier
<1>3. Stream!Ready(sHandler) /\ sBase.pc = "data" /\ Going
  BY DEF Stream!TakesData, Stream!Ready, Going
<1>4. /\ sBase' \in Retrier /\ sBase'.pc = "recv" /\ sBase'.attempt = sBase.attempt
      /\ sBase'.sentPayload = sBase.sentPayload
  BY <1>2, ItemTypes DEF Stream!TakesData, Retrier
<1>5. PICK completes \in BOOLEAN : sHandler' = Stream!OnData(sHandler, sBase.item, completes)
  BY DEF Stream!TakesData
<1>6. UNCHANGED <<sExecutor, sRelay, sErrs, sGone, sCancelled>>
  BY DEF Stream!TakesData
<1>7. sConverter.pc = "none"
  BY <1>1 DEF Stream!TakesData, Stream!Converting, EndFine
<1>8. /\ sConverter' \in Converter
      /\ sHandler.endpoint.converts => sConverter'.pc = "recv"
      /\ ~ sHandler.endpoint.converts => sConverter' = sConverter
  BY <1>2 DEF Stream!TakesData, Converter
<1>9. sHandler' \in Answerer
  BY <1>1, <1>2, <1>5, OnDataIs
<1>10. Stream!TypeOK'
  BY <1>1, <1>4, <1>6, <1>8, <1>9, StreamTypesAre, NextStreamTypesAre
<1>11. sBase.item.n = Written + 1
  <2>1. Written \in Nat
    BY <1>2 DEF Written, Answerer
  <2> QED BY <1>1, <1>3, <1>7, <2>1 DEF Numbered, InConverter
<1> QED BY <1>2, <1>3, <1>4, <1>5, <1>6, <1>7, <1>8, <1>10, <1>11, WritesFine

(* or from the goroutine that converts it.                                  *)
LEMMA TakesConvertedFine ==
    ASSUME Stream!BoundsAssumption, StreamInv, Stream!TakesConverted
    PROVE  StreamInv'
<1>1. Stream!TypeOK /\ InTurn /\ (Going => Numbered) /\ EndFine
  BY DEF StreamInv
<1>2. /\ sHandler \in Answerer /\ sBase.attempt \in Stream!Attempts
      /\ sConverter.item \in Stream!Item
  BY <1>1, StreamTypesAre DEF Retrier, Converter
<1>3. Stream!Ready(sHandler) /\ sConverter.pc = "send" /\ Going
  BY DEF Stream!TakesConverted, Stream!Ready, Going
<1>4. sHandler' = Stream!OnData(sHandler, sConverter.item, FALSE)
  BY DEF Stream!TakesConverted
<1>5. UNCHANGED <<sExecutor, sRelay, sBase, sErrs, sGone, sCancelled>>
  BY DEF Stream!TakesConverted
<1>6. sConverter' \in Converter /\ sConverter'.pc = "recv"
  BY ItemTypes DEF Stream!TakesConverted, Converter
<1>7. sHandler' \in Answerer
  BY <1>1, <1>2, <1>4, OnDataIs
<1>8. Stream!TypeOK'
  BY <1>1, <1>5, <1>6, <1>7, StreamTypesAre, NextStreamTypesAre
<1>9. sConverter.item.n = Written + 1
  BY <1>1, <1>3 DEF Numbered
<1> QED BY <1>2, <1>3, <1>4, <1>5, <1>6, <1>8, <1>9, WritesFine

(* Its answer is complete when it sees the end of the data.                 *)
LEMMA CompleteAtEnd ==
    ASSUME StreamInv, Going, ~ sGone, sBase.pc = "over", sConverter.pc # "send", ~ sErrs.msg
    PROVE  /\ sRelay[sBase.attempt].pc = "over" /\ Written = sExecutor[sBase.attempt].sent
           /\ sRelay[sBase.attempt].marked = "success"
<1>1. Complete
  BY DEF StreamInv, EndFine
<1>2. InConverter = 0 /\ Written \in Nat
  BY StreamTypesAre DEF StreamInv, InConverter, Written, Answerer
<1> QED BY <1>1, <1>2 DEF Complete

(* The handler finds something in its select,                               *)
LEMMA TurnsFine ==
    ASSUME Stream!BoundsAssumption, StreamInv, Stream!Turns
    PROVE  StreamInv'
<1>1. Stream!TypeOK /\ EndFine
  BY DEF StreamInv
<1>2. sHandler \in Answerer /\ sErrs \in ErrorChannel /\ sHandler.pc = "turn" /\ Going
  BY <1>1, StreamTypesAre DEF Stream!Turns, Going
<1>3. UNCHANGED <<sExecutor, sRelay, sBase, sErrs, sConverter, sGone>> /\ Stream!CancelAtEnd
  BY DEF Stream!Turns
<1>4. ASSUME NEW result \in {"none", "done", "error", "gone"},
          sHandler' = Stream!Finish(sHandler, result),
             result = "done" => /\ Stream!DataClosed
                 /\ Stream!OnDataClosed(sHandler) = Stream!Finish(sHandler, result)
      PROVE  StreamInv'
  <2>1. sHandler' \in Answerer /\ sHandler'.pc = "over" /\ sHandler'.result = result
    BY <1>1, <1>4, FinishIs DEF SameAnswer
  <2>2. sCancelled' = TRUE
    BY <1>3, <2>1 DEF Stream!CancelAtEnd
  <2>3. Stream!TypeOK'
    BY <1>1, <1>3, <2>1, <2>2, StreamTypesAre, NextStreamTypesAre
  <2>4. ASSUME result = "done", ~ sGone, ~ sHandler.endpoint.socket
        PROVE  /\ sBase.pc = "over" /\ sRelay[sBase.attempt].pc = "over"
               /\ Written = sExecutor[sBase.attempt].sent
               /\ sRelay[sBase.attempt].marked = "success"
    <3>1. sBase.pc = "over" /\ sConverter.pc # "send"
      BY <1>1, <1>2, <1>4, <2>4 DEF Stream!DataClosed, Stream!Converting, EndFine
    <3>2. ~ sErrs.msg
      <4>1. PICK t \in {"done", "error"} :
               /\ Stream!OnDataClosed(sHandler) = Stream!Finish(sHandler, t)
               /\ t = "done" => \/ sHandler.peeking \/ sHandler.endpoint.socket
                                \/ ~ sErrs.msg \/ sHandler.errsNil
        BY <1>1, OnDataClosedIs
      <4>2. t = "done"
        BY <1>1, <1>4, <2>4, <4>1, FinishIs
      <4> QED BY <1>1, <1>2, <2>4, <3>1, <4>1, <4>2 DEF EndFine
    <3> QED BY <1>2, <2>4, <3>1, <3>2, CompleteAtEnd
  <2> QED BY <1>1, <1>2, <1>3, <1>4, <2>2, <2>3, <2>4, EndsFine DEF EndFine
<1>5. CASE sGone /\ sHandler' = Stream!Finish(sHandler, "gone")
  BY <1>4, <1>5
<1>6. CASE sHandler' = Stream!Finish(sHandler, "error")
  BY <1>4, <1>6
<1>7. CASE Stream!DataClosed /\ sHandler' = Stream!OnDataClosed(sHandler)
  BY <1>1, <1>4, <1>7, OnDataClosedIs
<1>8. CASE sErrs.closed /\ ~ sErrs.msg /\ sHandler' = Stream!OnErrsClosed(sHandler)
  <2>1. SameAnswer(sHandler') /\ sHandler'.pc = "turn" /\ sHandler'.result = sHandler.result
    BY <1>1, <1>8, OnErrsClosedIs
  <2>2. sCancelled' = sCancelled /\ Going' = Going
    BY <1>1, <1>2, <1>3, <2>1, StreamTypesAre DEF Stream!CancelAtEnd, Going
  <2>3. Stream!TypeOK'
    BY <1>1, <1>3, <2>1, <2>2, StreamTypesAre, NextStreamTypesAre DEF SameAnswer
  <2>4. Complete' = Complete
    BY <1>3, <2>1 DEF Complete, Written, InConverter, SameAnswer
  <2>5. EndFine'
    BY <1>1, <1>2, <1>3, <1>8, <2>1, <2>2, <2>4 DEF EndFine, SameAnswer
  <2> QED BY <1>3, <2>1, <2>2, <2>3, <2>5, RestsFine
<1> QED BY <1>5, <1>6, <1>7, <1>8 DEF Stream!Turns

(* or goes to sleep.                                                        *)
LEMMA WaitsFine ==
    ASSUME Stream!BoundsAssumption, StreamInv, Stream!Waits
    PROVE  StreamInv'
<1>1. Stream!TypeOK /\ EndFine
  BY DEF StreamInv
<1>2. sHandler \in Answerer /\ sHandler.pc = "turn" /\ Going /\ ~ sErrs.msg
  BY <1>1, StreamTypesAre DEF Stream!Waits, Going, EndFine
<1>3. UNCHANGED <<sExecutor, sRelay, sBase, sErrs, sConverter, sGone, sCancelled>>
  BY DEF Stream!Waits
<1>4. /\ SameAnswer(sHandler') /\ sHandler'.pc = "wait" /\ sHandler'.result = sHandler.result
      /\ sHandler'.errsNil = sHandler.errsNil /\ Going' = Going
  BY <1>2 DEF Stream!Waits, SameAnswer, Answerer, Going
<1>5. Stream!TypeOK'
  BY <1>1, <1>3, <1>4, StreamTypesAre, NextStreamTypesAre DEF SameAnswer
<1>6. Complete' = Complete
  BY <1>3, <1>4 DEF Complete, Written, InConverter, SameAnswer
<1>7. EndFine'
  BY <1>1, <1>2, <1>3, <1>4, <1>6 DEF EndFine, SameAnswer
<1> QED BY <1>3, <1>4, <1>5, <1>7, RestsFine

(* A payload is converted, or there are no more.                            *)
LEMMA ConverterReceivesFine ==
    ASSUME Stream!BoundsAssumption, StreamInv, Stream!ConverterReceives
    PROVE  StreamInv'
<1>1. Stream!TypeOK /\ (\A b \in Stream!Attempts : AttemptFine(b)) /\ InTurn
          /\ (Going => Numbered) /\ MarkFine
      /\ EndFine /\ ToldFine
  BY DEF StreamInv
<1>2. /\ sHandler \in Answerer /\ sBase \in Retrier /\ sConverter \in Converter
      /\ sBase.item \in Stream!Item /\ sConverter.pc = "recv" /\ sHandler \in Answerer
      /\ sCancelled \in BOOLEAN /\ sBase.attempt \in Stream!Attempts
  BY <1>1, StreamTypesAre DEF Retrier, Stream!ConverterReceives
<1>3. UNCHANGED <<sExecutor, sRelay, sErrs, sGone>> /\ Stream!CancelAtEnd
  BY DEF Stream!ConverterReceives
<1>4. CASE /\ sBase.pc = "data"
           /\ sConverter' = [pc |-> "send", item |-> sBase.item]
           /\ sBase' = [sBase EXCEPT !.pc = "recv", !.item = Stream!None]
           /\ UNCHANGED sHandler
  <2>1. /\ sBase' \in Retrier /\ sBase'.pc = "recv" /\ sBase'.attempt = sBase.attempt
        /\ sBase'.sentPayload = sBase.sentPayload
    BY <1>2, <1>4, ItemTypes DEF Retrier
  <2>2. sConverter' \in Converter /\ sConverter'.pc = "send" /\ sConverter'.item = sBase.item
    BY <1>2, <1>4 DEF Converter
  <2>3. sCancelled' = sCancelled /\ Going' = Going /\ Written' = Written
    BY <1>1, <1>2, <1>3, <1>4 DEF Stream!CancelAtEnd, Going, EndFine, Written
  <2>4. Stream!TypeOK'
    BY <1>1, <1>3, <1>4, <2>1, <2>2, <2>3, StreamTypesAre, NextStreamTypesAre
  <2>5. \A b \in Stream!Attempts : AttemptFine(b)'
    BY <1>1, <1>3, <1>4, <2>1, <2>3 DEF AttemptFine
  <2>6. sBase.sentPayload
    BY <1>1, <1>4 DEF InTurn
  <2>7. InTurn'
    BY <1>1, <1>3, <1>4, <2>1, <2>3, <2>6 DEF InTurn
  <2>8. UNCHANGED <<InRelay(sBase.attempt), InExecutor(sBase.attempt)>>
    BY <1>3, <2>1 DEF InRelay, InExecutor
  <2>9. InConverter = 0 /\ InConverter' = 1 /\ InBase = 1 /\ InBase' = 0 /\ Written \in Nat
    BY <1>1, <1>2, <1>4, <2>1, <2>2, CountTypes DEF InConverter, InBase
  <2>10. Passed' = Passed
    BY <2>3, <2>9 DEF Passed
  <2>11. (Going => Numbered)'
    BY <1>1, <1>3, <1>4, <2>1, <2>2, <2>3, <2>8, <2>9, <2>10 DEF Numbered
  <2>12. MarkFine'
    BY <1>1, <1>3, <1>4, <2>1, <2>3 DEF MarkFine
  <2>13. EndFine'
    BY <1>1, <1>2, <1>3, <1>4, <2>1, <2>2, <2>3 DEF EndFine
  <2>14. ToldFine'
    BY <1>1, <1>3, <1>4, <2>3 DEF ToldFine, Stream!Told
  <2> QED BY <2>4, <2>5, <2>7, <2>11, <2>12, <2>13, <2>14 DEF StreamInv
<1>5. CASE /\ sBase.pc = "over"
           /\ sConverter' = [sConverter EXCEPT !.pc = "over"]
           /\ sHandler' = Stream!Woken(Stream!OnDataClosed(sHandler)) /\ UNCHANGED sBase
  <2>1. sConverter' \in Converter /\ sConverter'.pc = "over"
    BY <1>2, <1>5 DEF Converter
  <2>2. CASE sHandler.pc = "wait"
    <3>1. PICK result \in {"done", "error"} :
              Stream!OnDataClosed(sHandler) = Stream!Finish(sHandler, result)
      BY <1>1, OnDataClosedIs
    <3>2. sHandler' = Stream!Finish(sHandler, result)
      BY <1>5, <2>2, <3>1 DEF Stream!Woken
    <3>3. sHandler' \in Answerer /\ sHandler'.pc = "over"
      BY <1>1, <3>2, FinishIs DEF SameAnswer
    <3>4. sCancelled' = TRUE
      BY <1>3, <3>3 DEF Stream!CancelAtEnd
    <3>5. Stream!TypeOK'
      BY <1>1, <1>3, <1>5, <2>1, <3>3, <3>4, StreamTypesAre, NextStreamTypesAre
    <3>6. Going /\ ~ sErrs.msg
      BY <1>1, <2>2 DEF Going, EndFine
    <3>7. ~ sGone => /\ sRelay[sBase.attempt].pc = "over"
              /\ Written = sExecutor[sBase.attempt].sent
                     /\ sRelay[sBase.attempt].marked = "success"
      BY <1>2, <1>5, <3>6, CompleteAtEnd
    <3> QED BY <1>1, <1>2, <1>3, <1>5, <2>1, <2>2, <3>2, <3>4, <3>5, <3>6, <3>7, EndsFine
            DEF EndFine
  <2>3. CASE sHandler.pc # "wait"
    <3>1. sHandler' = sHandler /\ Going' = Going
      BY <1>5, <2>3 DEF Stream!Woken, Going
    <3>2. sCancelled' = sCancelled
      BY <1>1, <1>2, <1>3, <3>1 DEF Stream!CancelAtEnd, EndFine, Going
    <3>3. Stream!TypeOK'
      BY <1>1, <1>3, <1>5, <2>1, <3>1, <3>2, StreamTypesAre, NextStreamTypesAre
    <3>4. Complete' = Complete
      BY <1>2, <1>3, <1>5, <2>1, <3>1 DEF Complete, Written, InConverter
    <3>5. EndFine'
      BY <1>1, <1>2, <1>3, <1>5, <2>1, <3>1, <3>2, <3>4 DEF EndFine
    <3> QED BY <1>2, <1>3, <1>5, <2>1, <3>1, <3>2, <3>3, <3>5, RestsFine DEF SameAnswer
  <2> QED BY <2>2, <2>3
<1> QED BY <1>4, <1>5 DEF Stream!ConverterReceives

(* The handler has returned.                                                *)
LEMMA ConverterStopsFine ==
    ASSUME Stream!BoundsAssumption, StreamInv, Stream!ConverterStops
    PROVE  StreamInv'
<1>1. Stream!TypeOK /\ EndFine
  BY DEF StreamInv
<1>2. sHandler \in Answerer /\ ~ Going /\ Going' = Going
      /\ sHandler.pc = "over" /\ sConverter.pc \in {"recv", "send"}
  BY <1>1, StreamTypesAre DEF Stream!ConverterStops, Going
<1>3. UNCHANGED <<sExecutor, sRelay, sBase, sErrs, sHandler, sGone, sCancelled>>
  BY DEF Stream!ConverterStops
<1>4. sConverter' \in Converter /\ sConverter'.pc = "over"
  BY ItemTypes DEF Stream!ConverterStops, Converter
<1>5. Stream!TypeOK'
  BY <1>1, <1>3, <1>4, StreamTypesAre, NextStreamTypesAre
<1>6. EndFine'
  BY <1>1, <1>2, <1>3 DEF EndFine
<1> QED BY <1>2, <1>3, <1>4, <1>5, <1>6, RestsFine DEF SameAnswer

(* The client leaves,                                                       *)
LEMMA ClientLeavesFine ==
    ASSUME Stream!BoundsAssumption, StreamInv, Stream!ClientLeaves
    PROVE  StreamInv'
<1>1. Stream!TypeOK /\ EndFine
  BY DEF StreamInv
<1>2. sHandler \in Answerer /\ Going /\ sGone' = TRUE
  BY <1>1, StreamTypesAre DEF Stream!ClientLeaves, Going
<1>3. UNCHANGED <<sExecutor, sRelay, sBase, sErrs, sConverter>> /\ Stream!CancelAtEnd
  BY DEF Stream!ClientLeaves
<1>4. CASE sHandler.pc = "wait"
  <2>1. sHandler' = Stream!Finish(sHandler, "gone")
    BY <1>4 DEF Stream!ClientLeaves, Stream!Woken
  <2>2. sHandler' \in Answerer /\ sHandler'.pc = "over"
    BY <1>1, <2>1, FinishIs DEF SameAnswer
  <2>3. sCancelled' = TRUE
    BY <1>3, <2>2 DEF Stream!CancelAtEnd
  <2>4. Stream!TypeOK'
    BY <1>1, <1>2, <1>3, <2>2, <2>3, StreamTypesAre, NextStreamTypesAre
  <2> QED BY <1>1, <1>2, <1>3, <1>4, <2>1, <2>3, <2>4, EndsFine DEF EndFine
<1>5. CASE sHandler.pc # "wait"
  <2>1. sHandler' = sHandler /\ Going' = Going
    BY <1>5 DEF Stream!ClientLeaves, Stream!Woken, Going
  <2>2. sCancelled' = sCancelled
    BY <1>1, <1>2, <1>3, <2>1, StreamTypesAre DEF Stream!CancelAtEnd, Going
  <2>3. Stream!TypeOK'
    BY <1>1, <1>2, <1>3, <2>1, <2>2, StreamTypesAre, NextStreamTypesAre
  <2>4. Complete' = Complete
    BY <1>3, <2>1 DEF Complete, Written, InConverter
  <2>5. EndFine'
    BY <1>1, <1>2, <1>3, <2>1, <2>2, <2>4 DEF EndFine
  <2> QED BY <1>2, <1>3, <2>1, <2>2, <2>3, <2>5, RestsFine DEF SameAnswer
<1> QED BY <1>4, <1>5

(* which the answer hears.                                                  *)
LEMMA PassesOnFine ==
    ASSUME Stream!BoundsAssumption, StreamInv, Stream!PassesOn
    PROVE  StreamInv'
<1>1. Stream!TypeOK /\ EndFine
  BY DEF StreamInv
<1>2. sHandler \in Answerer /\ sGone /\ sCancelled' = TRUE
  BY <1>1, StreamTypesAre DEF Stream!PassesOn
<1>3. UNCHANGED <<sExecutor, sRelay, sBase, sErrs, sConverter, sHandler, sGone>>
  BY DEF Stream!PassesOn
<1>4. Stream!TypeOK'
  BY <1>1, <1>2, <1>3, StreamTypesAre, NextStreamTypesAre
<1>5. Going' = Going
  BY <1>3 DEF Going
<1>6. EndFine'
  BY <1>1, <1>2, <1>3, <1>5 DEF EndFine
<1> QED BY <1>2, <1>3, <1>4, <1>5, <1>6, RestsFine DEF SameAnswer

(* Every step keeps the invariant.                                          *)
LEMMA StreamInvNext ==
    ASSUME Stream!BoundsAssumption, StreamInv, [Stream!Next]_(Stream!vars)
    PROVE  StreamInv'
<1>1. ASSUME NEW a \in Stream!Attempts, Stream!Provider(a) PROVE StreamInv'
  BY <1>1, ReadsPayloadFine, BodyOverFine DEF Stream!Provider
<1>2. ASSUME Stream!Program PROVE StreamInv'
  <2>1. ASSUME NEW a \in Stream!Attempts,
               \/ Stream!TranslatesDone(a) \/ Stream!TellsError(a) \/ Stream!ExecutorGivesUp(a)
               \/ Stream!RelayReceives(a) \/ Stream!RelayStopsForwarding(a) \/ Stream!RelayEnds(a)
        PROVE  StreamInv'
    BY <2>1, TranslatesDoneFine, TellsErrorFine, ExecutorGivesUpFine, RelayReceivesFine,
       RelayStopsFine, RelayEndsFine
  <2>2. CASE \/ Stream!Call \/ Stream!BaseReceives \/ Stream!BaseRetries \/ Stream!BaseSeesEnd
                    \/ Stream!BaseCancelled
             \/ Stream!BaseSendsError \/ Stream!BaseClosesErrs \/ Stream!BaseClosesData
    BY <2>2, CallStreams, BaseReceivesFine, BaseRetriesFine, BaseSeesEndFine, BaseCancelledFine,
       BaseSendsErrorFine, BaseClosesErrsFine, BaseClosesDataFine
  <2>3. CASE \/ Stream!TakesData \/ Stream!TakesConverted \/ Stream!Turns \/ Stream!Waits
             \/ Stream!ConverterReceives \/ Stream!ConverterStops \/ Stream!PassesOn
    BY <2>3, TakesDataFine, TakesConvertedFine, TurnsFine, WaitsFine, ConverterReceivesFine,
       ConverterStopsFine, PassesOnFine
  <2> QED BY <1>2, <2>1, <2>2, <2>3 DEF Stream!Program
<1>3. ASSUME UNCHANGED Stream!vars PROVE StreamInv'
  <2>1. UNCHANGED <<sExecutor, sRelay, sBase, sErrs, sConverter, sHandler, sGone, sCancelled>>
    BY <1>3 DEF Stream!vars
  <2>2. Stream!TypeOK /\ EndFine /\ sHandler \in Answerer
    BY StreamTypesAre DEF StreamInv
  <2>3. Stream!TypeOK'
    BY <2>1, <2>2, StreamTypesAre, NextStreamTypesAre
  <2>4. Going' = Going /\ Complete' = Complete
    BY <2>1 DEF Going, Complete, Written, InConverter
  <2>5. EndFine'
    BY <2>1, <2>2, <2>4 DEF EndFine
  <2> QED BY <2>1, <2>2, <2>3, <2>4, <2>5, RestsFine DEF SameAnswer
<1> QED BY <1>1, <1>2, <1>3, ClientLeavesFine DEF Stream!Next

(* What the invariant says of the client.                                   *)
LEMMA StreamInvTells ==
    ASSUME StreamInv
    PROVE  Stream!TypeOK /\ Stream!AnswerAsSent
<1>1. Stream!TypeOK /\ InTurn /\ ToldFine
  BY DEF StreamInv
<1>2. sHandler.written \in Seq(Stream!Attempts \X Nat)
  BY <1>1, StreamTypesAre DEF Answerer
<1>3. \A i \in DOMAIN sHandler.written : sHandler.written[i] = <<sBase.attempt, i>>
  BY <1>1, <1>2 DEF InTurn, Written
<1>4. Stream!Told("done") /\ ~ sHandler.endpoint.socket =>
         /\ Len(sHandler.written) = sExecutor[sBase.attempt].sent
         /\ sRelay[sBase.attempt].marked = "success"
  BY <1>1 DEF ToldFine, Written
<1> QED BY <1>1, <1>3, <1>4 DEF Stream!AnswerAsSent

(* A step of the composition is a step of the stream or leaves it alone.    *)
LEMMA StreamStep ==
    ASSUME [AnswersNext]_<<part, vars, stream, logs>>
    PROVE  [Stream!Next]_(Stream!vars)
BY DEF AnswersNext, ConductorPart, StreamPart, LogPart, stream, Stream!vars

(* Whatever fails, is retried or given up, and whenever the client leaves:  *)
(* it gets the payloads of one attempt's answer, each once and in order, and *)
(* is only told that the answer is complete when it has all of it and the    *)
(* credential was marked a success.                                          *)
THEOREM StreamsArriveAsSent == AnswersSpec => []AnswerAsSent
<1>1. AnswersInit => StreamInv
  BY StreamAssumption, StreamInvInit DEF AnswersInit
<1>2. StreamInv /\ [AnswersNext]_<<part, vars, stream, logs>> => StreamInv'
  BY StreamAssumption, StreamStep, StreamInvNext
<1>3. StreamInv => AnswerAsSent
  BY StreamInvTells DEF AnswerAsSent
<1> QED BY <1>1, <1>2, <1>3, PTL DEF AnswersSpec

-----------------------------------------------------------------------------
(* A request is logged from its first step to its last.                     *)
Logged(w) ==
    /\ w.stage # "new" /\ w.stage # "done"
    /\ ~ w.errorOnly \/ w.stage = "opening" \/ w.writer # "none"

(* What the request itself says of how far it is, logging being on or off.  *)
StageFine(on, w) ==
    /\ w.writer # "noop"
    /\ w.stage = "new" => /\ w.status = Logs!NoStatus /\ ~ w.sse /\ w.sent = 0
                          /\ w.body = <<>> /\ w.writer = "none"
    /\ w.stage = "opening" => w.sse /\ w.sent = 0 /\ w.writer = "none"
    /\ w.sse => w.status # Logs!NoStatus
    /\ Logged(w) => on
    /\ w.force => /\ w.errorOnly /\ w.writer = "none"
                  /\ w.stage \in {"logging", "writing", "listing", "removing", "done"}
    /\ w.force /\ w.stage \in {"logging", "writing", "listing"} => ~ on
    /\ w.stage \in {"listing", "removing"} => w.force
    /\ w.stage \in {"draining", "closing", "assembling"} => w.writer = "file"
    /\ w.writer = "file" => /\ w.sse
                            /\ w.stage \in {"handling", "finalizing", "draining", "closing",
                                            "assembling", "done"}

(* The two channels and goroutines of a stream's log at each stage.         *)
PipeFine(w, c, s) ==
    /\ w.writer = "none" =>
          /\ c = Logs!NoPipe
          /\ ~ s.open /\ s.queue = <<>> /\ s.goroutine = "none" /\ s.file = <<>>
          /\ w.stage \in {"writing", "listing", "removing"} \/ s.temps = {}
    /\ w.writer = "file" =>
          /\ c.open <=> w.stage \in {"handling", "finalizing"}
          /\ s.open <=> w.stage \in {"handling", "finalizing", "draining"}
          /\ c.goroutine # "none" /\ s.goroutine # "none"
          /\ c.open => c.goroutine = "running"
          /\ s.open => s.goroutine = "running"
          /\ w.stage \in {"closing", "assembling", "done"} => c.goroutine = "ended"
          /\ w.stage \in {"assembling", "done"} => s.goroutine = "ended"
          /\ w.stage = "done" => s.temps = {}
    /\ c.goroutine = "ended" => c.queue = <<>>
    /\ s.goroutine = "ended" => s.queue = <<>>

Rising(q) == \A i, j \in DOMAIN q : i <= j => q[j] - q[i] >= j - i
Before(p, q) == \A x \in Logs!ToSet(p), y \in Logs!ToSet(q) : x < y

(* Chunks pass the channels in order.                                       *)
OrderFine(n, c, s) ==
    /\ Rising(c.queue) /\ Rising(s.queue) /\ Rising(s.file)
    /\ Before(s.file, s.queue) /\ Before(s.file, c.queue) /\ Before(s.queue, c.queue)
    /\ \A x \in Logs!ToSet(c.queue) \cup Logs!ToSet(s.queue) \cup Logs!ToSet(s.file) : x <= n

(* None of the first Buffer chunks is missing, as long as the disk obeys.   *)
Covers(n, S) == \A k \in 1..n : k <= Buffer => k \in S
CoverFine(w, c, s) ==
    w.writer = "file" /\ ~ s.broken =>
       Covers(w.sent, Logs!ToSet(c.queue) \cup Logs!ToSet(s.queue) \cup Logs!ToSet(s.file))

(* What is buffered of a plain answer is all of it.                         *)
BodyFine(w) ==
    ~ w.errorOnly /\ w.writer = "none" =>
       Len(w.body) = w.sent /\ \A i \in 1..w.sent : w.body[i] = i

(* A log that was written is finished.                                      *)
LogFine(w, l) ==
    l # Logs!Unlogged => /\ w.stage \in {"assembling", "listing", "removing", "done"}
                         /\ ~ w.errorOnly => Rising(l) /\ Covers(w.sent, Logs!ToSet(l))

RequestFine(on, w, c, s, l) ==
    /\ StageFine(on, w) /\ PipeFine(w, c, s) /\ OrderFine(w.sent, c, s)
    /\ CoverFine(w, c, s) /\ BodyFine(w) /\ LogFine(w, l)

AllFine ==
    \A r \in LoggedRequests : RequestFine(lEnabled, lWrapper[r], lChunks[r], lSpool[r], lLog[r])

(* No two error logs were written to last at the same time.                 *)
AgesApart == \A p, q \in Logs!ErrorLogs : lErrorLogs[p] = lErrorLogs[q] => p = q

(* There are few enough error logs, or somebody is about to remove enough.  *)
SomebodyCleans ==
    \/ MaxErrorLogs = 0 \/ Cardinality(Logs!ErrorLogs) <= MaxErrorLogs
    \/ \E r \in LoggedRequests : lWrapper[r].force /\ lWrapper[r].stage \in {"writing", "listing"}
    \/ \E r \in LoggedRequests :
          lWrapper[r].stage = "removing"
          /\ Cardinality(Logs!ErrorLogs \ lWrapper[r].victims) <= MaxErrorLogs

LogInv == Logs!TypeOK /\ AllFine /\ AgesApart /\ SomebodyCleans

(* The values of the variables.                                             *)
Wrapper ==
    [stage : {"new", "handling", "opening", "finalizing", "draining", "closing", "assembling",
              "logging", "writing", "listing", "removing", "done"},
     errorOnly : BOOLEAN, status : {Logs!NoStatus, Logs!OK, Logs!Failed}, sse : BOOLEAN,
     sent : 0..MaxWrites, body : Seq(1..MaxWrites), writer : {"none", "noop", "file"},
     force : BOOLEAN, victims : SUBSET LoggedRequests]

Spool ==
    [open : BOOLEAN, queue : Seq(1..MaxWrites), goroutine : {"none", "running", "ended"},
     file : Seq(1..MaxWrites), broken : BOOLEAN, temps : SUBSET {"request", "response"}]

Typed(w, c, s, l) ==
    /\ w \in Wrapper /\ c \in Logs!Pipe /\ s \in Spool /\ l \in Seq(0..MaxWrites)
    /\ Len(c.queue) <= Buffer /\ Len(s.queue) <= Buffer

(* What holds of a request.                                                 *)
RequestGood(on, w, c, s, l) == Typed(w, c, s, l) /\ RequestFine(on, w, c, s, l)

GoodNow(r) == RequestGood(lEnabled, lWrapper[r], lChunks[r], lSpool[r], lLog[r])
GoodNext(r) == RequestGood(lEnabled', lWrapper'[r], lChunks'[r], lSpool'[r], lLog'[r])

Shaped ==
    /\ lEnabled \in BOOLEAN /\ lToggles \in 0..MaxToggles
    /\ lWrapper = [r \in LoggedRequests |-> lWrapper[r]]
    /\ lChunks = [r \in LoggedRequests |-> lChunks[r]]
    /\ lSpool = [r \in LoggedRequests |-> lSpool[r]] /\ lLog = [r \in LoggedRequests |-> lLog[r]]
    /\ lErrorLogs \in [LoggedRequests -> Nat]

(* The invariant, request by request.                                       *)
LEMMA LogTypesAre ==
    Logs!TypeOK <=> Shaped
        /\ \A r \in LoggedRequests : Typed(lWrapper[r], lChunks[r], lSpool[r], lLog[r])
<1>1. Logs!TypeOK => Shaped
  BY DEF Logs!TypeOK, Shaped
<1>2. Logs!TypeOK => \A r \in LoggedRequests : Typed(lWrapper[r], lChunks[r], lSpool[r], lLog[r])
  BY DEF Logs!TypeOK, Typed, Wrapper, Spool
<1>3. ASSUME Shaped, \A r \in LoggedRequests : Typed(lWrapper[r], lChunks[r], lSpool[r], lLog[r])
      PROVE  Logs!TypeOK
  <2>1. lWrapper \in [LoggedRequests -> Wrapper] /\ lChunks \in [LoggedRequests -> Logs!Pipe]
    BY <1>3 DEF Shaped, Typed
  <2>2. lSpool \in [LoggedRequests -> Spool] /\ lLog \in [LoggedRequests -> Seq(0..MaxWrites)]
    BY <1>3 DEF Shaped, Typed
  <2>3. \A r \in LoggedRequests : Len(lChunks[r].queue) <= Buffer
            /\ Len(lSpool[r].queue) <= Buffer
    BY <1>3 DEF Typed
  <2> QED BY <1>3, <2>1, <2>2, <2>3 DEF Logs!TypeOK, Shaped, Wrapper, Spool
<1> QED BY <1>1, <1>2, <1>3

(* The same after a step.                                                   *)
LEMMA NextLogTypesAre ==
    Logs!TypeOK' <=> Shaped'
        /\ \A r \in LoggedRequests : Typed(lWrapper'[r], lChunks'[r], lSpool'[r], lLog'[r])
<1>1. Logs!TypeOK' => Shaped'
  BY DEF Logs!TypeOK, Shaped
<1>2. Logs!TypeOK' =>
        \A r \in LoggedRequests : Typed(lWrapper'[r], lChunks'[r], lSpool'[r], lLog'[r])
  BY DEF Logs!TypeOK, Typed, Wrapper, Spool
<1>3. ASSUME Shaped',
             \A r \in LoggedRequests : Typed(lWrapper'[r], lChunks'[r], lSpool'[r], lLog'[r])
      PROVE  Logs!TypeOK'
  <2>1. lWrapper' \in [LoggedRequests -> Wrapper] /\ lChunks' \in [LoggedRequests -> Logs!Pipe]
    BY <1>3 DEF Shaped, Typed
  <2>2. lSpool' \in [LoggedRequests -> Spool] /\ lLog' \in [LoggedRequests -> Seq(0..MaxWrites)]
    BY <1>3 DEF Shaped, Typed
  <2>3. \A r \in LoggedRequests : Len(lChunks'[r].queue) <= Buffer
            /\ Len(lSpool'[r].queue) <= Buffer
    BY <1>3 DEF Typed
  <2> QED BY <1>3, <2>1, <2>2, <2>3 DEF Logs!TypeOK, Shaped, Wrapper, Spool
<1> QED BY <1>1, <1>2, <1>3

(* The instance counts as everybody does.                                   *)
LEMMA SameLogCounting ==
    /\ \A S : Logs!IsFiniteSet(S) = IsFiniteSet(S)
    /\ \A S : Logs!Cardinality(S) = Cardinality(S)
<1>1. \A S : Logs!IsFiniteSet(S) = IsFiniteSet(S)
  BY DEF Logs!IsFiniteSet, IsFiniteSet
<1>2. \A S : Logs!Cardinality(S) = Cardinality(S)
  BY DEF Logs!Cardinality, Cardinality, Logs!IsFiniteSet, IsFiniteSet
<1> QED BY <1>1, <1>2

(* What the constants are.                                                  *)
LEMMA LogBounds ==
    /\ MaxWrites \in Nat /\ Buffer \in Nat /\ Buffer # 0
    /\ MaxErrorLogs \in Nat /\ MaxToggles \in Nat
    /\ IsFiniteSet(LoggedRequests) /\ StreamedRequests \subseteq LoggedRequests
<1>1. Logs!BoundsAssumption
  BY LogsAssumption
<1>2. IsFiniteSet(LoggedRequests) /\ StreamedRequests \subseteq LoggedRequests
  BY <1>1, SameLogCounting, Zenon DEF Logs!BoundsAssumption
<1>3. /\ MaxWrites \in Nat /\ Buffer \in Nat \ {0}
      /\ MaxErrorLogs \in Nat /\ MaxToggles \in Nat
  BY <1>1, Zenon DEF Logs!BoundsAssumption
<1> QED BY <1>2, <1>3

(* The initial values are good.                                             *)
LEMMA RestingRequest ==
    ASSUME NEW on \in BOOLEAN,
           NEW w, w = [stage |-> "new", errorOnly |-> FALSE, status |-> Logs!NoStatus,
                       sse |-> FALSE, sent |-> 0, body |-> <<>>, writer |-> "none",
                       force |-> FALSE, victims |-> {}]
    PROVE  RequestGood(on, w, Logs!NoPipe, Logs!NoSpool, Logs!Unlogged)
<1>1. w \in Wrapper
  BY LogBounds DEF Wrapper, Logs!NoStatus
<1>2. Logs!NoPipe \in Logs!Pipe /\ Logs!NoSpool \in Spool
  BY LogBounds DEF Logs!NoPipe, Logs!Pipe, Logs!NoSpool, Spool
<1>3. Logs!Unlogged \in Seq(0..MaxWrites)
  BY LogBounds DEF Logs!Unlogged
<1>4. Typed(w, Logs!NoPipe, Logs!NoSpool, Logs!Unlogged)
  BY <1>1, <1>2, <1>3, LogBounds DEF Typed, Logs!NoPipe, Logs!NoSpool
<1>5. StageFine(on, w)
  BY DEF StageFine, Logged
<1>6. PipeFine(w, Logs!NoPipe, Logs!NoSpool)
  BY DEF PipeFine, Logs!NoPipe, Logs!NoSpool
<1>7. OrderFine(w.sent, Logs!NoPipe, Logs!NoSpool)
  BY DEF OrderFine, Rising, Before, Logs!ToSet, Logs!NoPipe, Logs!NoSpool
<1>8. CoverFine(w, Logs!NoPipe, Logs!NoSpool) /\ BodyFine(w) /\ LogFine(w, Logs!Unlogged)
  BY DEF CoverFine, BodyFine, LogFine
<1> QED BY <1>4, <1>5, <1>6, <1>7, <1>8 DEF RequestGood, RequestFine

LEMMA LogInvInit ==
    ASSUME Logs!Init
    PROVE  LogInv
<1>1. Shaped
  BY LogBounds DEF Logs!Init, Shaped
<1>2. \A r \in LoggedRequests : GoodNow(r)
  BY RestingRequest DEF Logs!Init, GoodNow
<1>3. Logs!TypeOK /\ AllFine
  BY <1>1, <1>2, LogTypesAre DEF GoodNow, RequestGood, AllFine
<1>4. Logs!ErrorLogs = {}
  BY DEF Logs!Init, Logs!ErrorLogs
<1>5. AgesApart /\ SomebodyCleans
  BY <1>4, LogBounds, FS_EmptySet DEF AgesApart, SomebodyCleans
<1> QED BY <1>3, <1>5 DEF LogInv

(* Sequences that rise: the empty one, ...                                  *)
LEMMA EmptyRises == Rising(<<>>) /\ Logs!ToSet(<<>>) = {}
BY DEF Rising, Logs!ToSet

(* ... one with a greater number at its end, ...                            *)
LEMMA AppendRises ==
    ASSUME NEW q \in Seq(Nat), NEW x \in Nat, Rising(q), \A y \in Logs!ToSet(q) : y < x
    PROVE  Rising(Append(q, x)) /\ Logs!ToSet(Append(q, x)) = Logs!ToSet(q) \cup {x}
<1> DEFINE p == Append(q, x)
<1>1. /\ p \in Seq(Nat) /\ Len(p) = Len(q) + 1 /\ Len(q) \in Nat
      /\ DOMAIN p = 1..(Len(q) + 1) /\ DOMAIN q = 1..Len(q)
  OBVIOUS
<1>2. (\A i \in 1..Len(q) : p[i] = q[i] /\ q[i] \in Nat) /\ p[Len(q) + 1] = x
  OBVIOUS
<1>3. \A i \in 1..Len(q) : q[i] < x
  BY <1>1 DEF Logs!ToSet
<1> HIDE DEF p
<1>4. ASSUME NEW i \in DOMAIN p, NEW j \in DOMAIN p, i <= j
      PROVE  p[j] - p[i] >= j - i
  <2>1. CASE j <= Len(q)
    <3>1. i \in DOMAIN q /\ j \in DOMAIN q
      BY <1>1, <1>4, <2>1
    <3> QED BY <1>1, <1>2, <1>4, <3>1 DEF Rising
  <2>2. CASE i = Len(q) + 1
    BY <1>1, <1>2, <1>4, <2>2
  <2>3. CASE j = Len(q) + 1 /\ i <= Len(q)
    <3>1. i \in DOMAIN q /\ Len(q) \in DOMAIN q /\ i <= Len(q)
      BY <1>1, <2>3
    <3>2. q[Len(q)] - q[i] >= Len(q) - i
      BY <3>1 DEF Rising
    <3>3. q[Len(q)] < x /\ q[Len(q)] \in Nat /\ q[i] \in Nat /\ p[i] = q[i] /\ p[j] = x
      BY <1>1, <1>2, <1>3, <2>3, <3>1
    <3> QED BY <1>1, <2>3, <3>1, <3>2, <3>3
  <2> QED BY <1>1, <1>4, <2>1, <2>2, <2>3
<1>5. Logs!ToSet(p) = Logs!ToSet(q) \cup {x}
  <2>1. \A i \in DOMAIN p : p[i] \in Logs!ToSet(q) \cup {x}
    BY <1>1, <1>2 DEF Logs!ToSet
  <2>2. \A i \in DOMAIN q : q[i] \in Logs!ToSet(p)
    BY <1>1, <1>2 DEF Logs!ToSet
  <2>3. x \in Logs!ToSet(p)
    <3>1. Len(q) + 1 \in DOMAIN p
      BY <1>1
    <3> QED BY <1>2, <3>1 DEF Logs!ToSet
  <2> QED BY <2>1, <2>2, <2>3 DEF Logs!ToSet
<1> QED BY <1>4, <1>5 DEF Rising, p

(* ... and the rest of one, which is above its head.                        *)
LEMMA TailRises ==
    ASSUME NEW q \in Seq(Nat), Rising(q), q # <<>>
    PROVE  /\ Rising(Tail(q)) /\ Logs!ToSet(q) = Logs!ToSet(Tail(q)) \cup {Head(q)}
           /\ \A y \in Logs!ToSet(Tail(q)) : Head(q) < y
<1> DEFINE t == Tail(q)
<1>1. /\ t \in Seq(Nat) /\ Len(t) = Len(q) - 1 /\ Len(q) \in Nat \ {0} /\ Head(q) = q[1]
      /\ DOMAIN t = 1..(Len(q) - 1) /\ DOMAIN q = 1..Len(q)
  OBVIOUS
<1>2. \A i \in DOMAIN t : t[i] = q[i + 1] /\ i + 1 \in DOMAIN q
  BY <1>1
<1>3. \A i \in DOMAIN q : q[i] \in Nat
  OBVIOUS
<1> HIDE DEF t
<1>4. \A i, j \in DOMAIN t : i <= j => t[j] - t[i] >= j - i
  <2> SUFFICES ASSUME NEW i \in DOMAIN t, NEW j \in DOMAIN t, i <= j
               PROVE  t[j] - t[i] >= j - i
    OBVIOUS
  <2>1. i \in Nat /\ j \in Nat /\ i + 1 <= j + 1
    BY <1>1
  <2>2. q[j + 1] - q[i + 1] >= (j + 1) - (i + 1)
    BY <1>2, <2>1 DEF Rising
  <2> QED BY <1>2, <2>1, <2>2
<1>5. \A i \in DOMAIN t : q[1] < t[i]
  <2> SUFFICES ASSUME NEW i \in DOMAIN t PROVE q[1] < t[i]
    OBVIOUS
  <2>1. 1 \in DOMAIN q /\ i + 1 \in DOMAIN q /\ i \in Nat /\ i >= 1
    BY <1>1
  <2>2. q[i + 1] - q[1] >= (i + 1) - 1
    BY <2>1 DEF Rising
  <2> QED BY <1>2, <1>3, <2>1, <2>2
<1>6. Logs!ToSet(q) = Logs!ToSet(t) \cup {q[1]}
  <2>1. \A i \in DOMAIN q : i = 1 \/ (i - 1 \in DOMAIN t /\ t[i - 1] = q[i])
    BY <1>1, <1>2
  <2>2. 1 \in DOMAIN q
    BY <1>1
  <2>3. \A i \in DOMAIN t : t[i] \in Logs!ToSet(q)
    BY <1>2 DEF Logs!ToSet
  <2>4. \A i \in DOMAIN q : q[i] \in Logs!ToSet(t) \cup {q[1]}
    BY <2>1 DEF Logs!ToSet
  <2> QED BY <2>2, <2>3, <2>4 DEF Logs!ToSet
<1> QED BY <1>1, <1>4, <1>5, <1>6 DEF Rising, Logs!ToSet, t

(* The last of a full channel's chunks is not below its length.             *)
LEMMA FullIsHigh ==
    ASSUME NEW q \in Seq(Nat), Rising(q), q # <<>>, \A y \in Logs!ToSet(q) : y > 0
    PROVE  \E y \in Logs!ToSet(q) : y >= Len(q)
<1>1. /\ Len(q) \in Nat /\ 1 \in DOMAIN q /\ Len(q) \in DOMAIN q /\ 1 <= Len(q)
      /\ q[1] \in Nat /\ q[Len(q)] \in Nat
  OBVIOUS
<1>2. q[1] > 0
  BY <1>1 DEF Logs!ToSet
<1>3. q[Len(q)] - q[1] >= Len(q) - 1
  BY <1>1 DEF Rising
<1>4. q[Len(q)] >= Len(q)
  BY <1>1, <1>2, <1>3
<1> QED BY <1>1, <1>4 DEF Logs!ToSet

(* The chunks of a channel and of a file are numbers.                       *)
LEMMA ChunksAreNumbers ==
    ASSUME NEW q \in Seq(1..MaxWrites)
    PROVE  q \in Seq(Nat) /\ \A y \in Logs!ToSet(q) : y \in Nat /\ y > 0 /\ y <= MaxWrites
BY LogBounds DEF Logs!ToSet

(* What is taken out of a channel.                                          *)
LEMMA HeadAndTail ==
    ASSUME NEW q \in Seq(1..MaxWrites), q # <<>>, Len(q) <= Buffer
    PROVE  /\ Tail(q) \in Seq(1..MaxWrites) /\ Len(Tail(q)) <= Buffer
           /\ Head(q) \in 1..MaxWrites
           /\ \A f \in Seq(1..MaxWrites) : Append(f, Head(q)) \in Seq(1..MaxWrites)
<1>1. Len(q) \in Nat /\ Len(Tail(q)) = Len(q) - 1 /\ Buffer \in Nat
  BY LogBounds
<1>2. Len(Tail(q)) <= Buffer
  BY <1>1
<1>3. Tail(q) \in Seq(1..MaxWrites) /\ Head(q) \in 1..MaxWrites
  <2> DEFINE S == 1..MaxWrites
  <2>1. q \in Seq(S) /\ q # <<>>
    OBVIOUS
  <2> HIDE DEF S
  <2>2. Tail(q) \in Seq(S) /\ Head(q) \in S
    BY ONLY <2>1
  <2> QED BY <2>2 DEF S
<1>4. ASSUME NEW f \in Seq(1..MaxWrites), NEW x \in 1..MaxWrites
      PROVE  Append(f, x) \in Seq(1..MaxWrites)
  OBVIOUS
<1> QED BY <1>2, <1>3, <1>4

-----------------------------------------------------------------------------
(* Each step of a request leaves it good.  What a step does not touch: the  *)
(* chunks that were taken in, in the channels, the files and the buffer.    *)
LEMMA ChunksUntouched ==
    ASSUME NEW w \in Wrapper, NEW v, NEW c, NEW s,
           v.sent = w.sent, v.body = w.body, v.writer = w.writer, v.errorOnly = w.errorOnly,
           OrderFine(w.sent, c, s), CoverFine(w, c, s), BodyFine(w)
    PROVE  OrderFine(v.sent, c, s) /\ CoverFine(v, c, s) /\ BodyFine(v)
BY DEF CoverFine, BodyFine

LEMMA WrapGood ==
    ASSUME NEW on \in BOOLEAN, NEW off \in BOOLEAN, off <=> ~ on,
           NEW w, NEW c, NEW s, NEW l, RequestGood(on, w, c, s, l),
           w.stage = "new"
    PROVE  RequestGood(on, [w EXCEPT !.stage = "handling", !.errorOnly = off], c, s, l)
<1> DEFINE v == [w EXCEPT !.stage = "handling", !.errorOnly = off]
<1>1. /\ Typed(w, c, s, l) /\ StageFine(on, w) /\ PipeFine(w, c, s) /\ OrderFine(w.sent, c, s)
      /\ CoverFine(w, c, s) /\ BodyFine(w) /\ LogFine(w, l)
  BY DEF RequestGood, RequestFine
<1>2. v \in Wrapper
  BY <1>1 DEF Typed, Wrapper
<1>3. /\ v.stage = "handling" /\ v.errorOnly = off /\ v.status = w.status /\ v.sse = w.sse
      /\ v.sent = w.sent /\ v.body = w.body /\ v.writer = w.writer /\ v.force = w.force
  BY <1>1 DEF Typed, Wrapper
<1> HIDE DEF v
<1>4. /\ w.status = Logs!NoStatus /\ ~ w.sse /\ w.sent = 0 /\ w.body = <<>> /\ w.writer = "none"
      /\ ~ w.force
  BY <1>1 DEF StageFine
<1>5. StageFine(on, v)
  BY <1>3, <1>4 DEF StageFine, Logged
<1>6. PipeFine(v, c, s)
  BY <1>1, <1>3, <1>4 DEF PipeFine
<1>7. OrderFine(v.sent, c, s) /\ CoverFine(v, c, s)
  BY <1>1, <1>3, <1>4 DEF CoverFine
<1>8. BodyFine(v)
  BY <1>3, <1>4 DEF BodyFine
<1>9. l = Logs!Unlogged
  BY <1>1 DEF LogFine
<1> QED BY <1>1, <1>2, <1>5, <1>6, <1>7, <1>8, <1>9 DEF RequestGood, RequestFine, Typed, LogFine, v

LEMMA WriteHeaderGood ==
    ASSUME NEW on \in BOOLEAN, NEW w, NEW c, NEW s, NEW l, RequestGood(on, w, c, s, l),
           w.stage = "handling", w.status = Logs!NoStatus, w.sent = 0,
           NEW status \in {Logs!OK, Logs!Failed}, NEW sse \in BOOLEAN, NEW v,
           v = [w EXCEPT !.status = status, !.sse = sse,
                         !.stage = IF sse /\ on THEN "opening" ELSE @]
    PROVE  RequestGood(on, v, c, s, l)
<1>1. /\ Typed(w, c, s, l) /\ StageFine(on, w) /\ PipeFine(w, c, s) /\ OrderFine(w.sent, c, s)
      /\ CoverFine(w, c, s) /\ BodyFine(w) /\ LogFine(w, l)
  BY DEF RequestGood, RequestFine
<1>2. v \in Wrapper
  BY <1>1 DEF Typed, Wrapper
<1>3. /\ v.stage = IF sse /\ on THEN "opening" ELSE "handling"
      /\ v.errorOnly = w.errorOnly /\ v.status = status /\ v.sse = sse
      /\ v.sent = w.sent /\ v.body = w.body /\ v.writer = w.writer /\ v.force = w.force
  BY <1>1 DEF Typed, Wrapper
<1>4. ~ w.sse /\ w.writer = "none" /\ ~ w.force /\ status # Logs!NoStatus
  BY <1>1 DEF StageFine, Typed, Wrapper, Logs!NoStatus, Logs!OK, Logs!Failed
<1>5. StageFine(on, v)
  BY <1>1, <1>3, <1>4 DEF StageFine, Logged
<1>6. PipeFine(v, c, s)
  BY <1>1, <1>3, <1>4 DEF PipeFine
<1>7. OrderFine(v.sent, c, s) /\ CoverFine(v, c, s) /\ BodyFine(v)
  <2>1. /\ v.sent = w.sent /\ v.body = w.body /\ v.writer = w.writer
        /\ v.errorOnly = w.errorOnly /\ w \in Wrapper
    BY <1>1, <1>3 DEF Typed
  <2> QED BY ONLY <1>1, <2>1, ChunksUntouched
<1>8. l = Logs!Unlogged
  BY <1>1 DEF LogFine
<1> QED BY <1>1, <1>2, <1>5, <1>6, <1>7, <1>8 DEF RequestGood, RequestFine, Typed, LogFine

(* The stream's log could not be opened, ...                                *)
LEMMA OpenFailsGood ==
    ASSUME NEW on \in BOOLEAN, NEW w, NEW c, NEW s, NEW l, RequestGood(on, w, c, s, l),
           w.stage = "opening"
    PROVE  RequestGood(on, [w EXCEPT !.stage = "handling", !.writer = "none"], c, s, l)
<1> DEFINE v == [w EXCEPT !.stage = "handling", !.writer = "none"]
<1>1. /\ Typed(w, c, s, l) /\ StageFine(on, w) /\ PipeFine(w, c, s) /\ OrderFine(w.sent, c, s)
      /\ CoverFine(w, c, s) /\ BodyFine(w) /\ LogFine(w, l)
  BY DEF RequestGood, RequestFine
<1>2. v \in Wrapper
  BY <1>1 DEF Typed, Wrapper
<1>3. w.writer = "none" /\ w.sse /\ w.status # Logs!NoStatus /\ on /\ ~ w.force
  BY <1>1 DEF StageFine, Logged
<1>4. /\ v.stage = "handling" /\ v.errorOnly = w.errorOnly /\ v.status = w.status
      /\ v.sse = w.sse /\ v.sent = w.sent /\ v.body = w.body /\ v.writer = w.writer
      /\ v.force = w.force
  BY <1>1, <1>3 DEF Typed, Wrapper
<1> HIDE DEF v
<1>5. StageFine(on, v)
  BY <1>1, <1>3, <1>4 DEF StageFine, Logged
<1>6. PipeFine(v, c, s)
  BY <1>1, <1>3, <1>4 DEF PipeFine
<1>7. OrderFine(v.sent, c, s) /\ CoverFine(v, c, s) /\ BodyFine(v)
  BY <1>1, <1>4, ChunksUntouched DEF Typed
<1>8. l = Logs!Unlogged
  BY <1>1 DEF LogFine
<1> QED BY <1>1, <1>2, <1>5, <1>6, <1>7, <1>8 DEF RequestGood, RequestFine, Typed, LogFine, v

(* ... or it was.                                                           *)
LEMMA OpenGood ==
    ASSUME NEW on \in BOOLEAN, NEW w, NEW c, NEW s, NEW l, RequestGood(on, w, c, s, l),
           w.stage = "opening", NEW v, NEW t,
           v = [w EXCEPT !.stage = "handling", !.writer = "file"],
           t = [s EXCEPT !.open = TRUE, !.goroutine = "running", !.temps = {"request", "response"}]
    PROVE  RequestGood(on, v, Logs!NewPipe, t, l)
<1>1. /\ Typed(w, c, s, l) /\ StageFine(on, w) /\ PipeFine(w, c, s) /\ LogFine(w, l)
  BY DEF RequestGood, RequestFine
<1>2. v \in Wrapper /\ t \in Spool
  BY <1>1 DEF Typed, Wrapper, Spool
<1>3. w.writer = "none" /\ w.sse /\ w.status # Logs!NoStatus /\ on /\ ~ w.force /\ w.sent = 0
  BY <1>1 DEF StageFine, Logged
<1>4. /\ v.stage = "handling" /\ v.errorOnly = w.errorOnly /\ v.status = w.status
      /\ v.sse = w.sse /\ v.sent = w.sent /\ v.body = w.body /\ v.writer = "file"
      /\ v.force = w.force
  BY <1>1, <1>3 DEF Typed, Wrapper
<1>5. s.queue = <<>> /\ s.file = <<>>
  BY <1>1, <1>3 DEF PipeFine
<1>6. /\ t.open = TRUE /\ t.goroutine = "running" /\ t.queue = <<>> /\ t.file = <<>>
      /\ t.temps = {"request", "response"}
  BY <1>1, <1>5 DEF Typed, Spool
<1>7. /\ Logs!NewPipe \in Logs!Pipe /\ Logs!NewPipe.open = TRUE /\ Logs!NewPipe.queue = <<>>
      /\ Logs!NewPipe.goroutine = "running"
  BY LogBounds DEF Logs!NewPipe, Logs!Pipe
<1>8. Typed(v, Logs!NewPipe, t, l)
  BY <1>1, <1>2, <1>6, <1>7, LogBounds DEF Typed
<1>9. StageFine(on, v)
  BY <1>1, <1>3, <1>4 DEF StageFine, Logged
<1>10. PipeFine(v, Logs!NewPipe, t)
  BY <1>4, <1>6, <1>7 DEF PipeFine
<1>11. OrderFine(v.sent, Logs!NewPipe, t)
  BY <1>6, <1>7, EmptyRises DEF OrderFine, Before
<1>12. CoverFine(v, Logs!NewPipe, t) /\ BodyFine(v)
  BY <1>3, <1>4 DEF CoverFine, Covers, BodyFine
<1>13. l = Logs!Unlogged
  BY <1>1 DEF LogFine
<1> QED BY <1>8, <1>9, <1>10, <1>11, <1>12, <1>13 DEF RequestGood, RequestFine, LogFine

LEMMA ReturnGood ==
    ASSUME NEW on \in BOOLEAN, NEW w, NEW c, NEW s, NEW l, RequestGood(on, w, c, s, l),
           w.stage = "handling"
    PROVE  RequestGood(on, [w EXCEPT !.stage = "finalizing"], c, s, l)
<1> DEFINE v == [w EXCEPT !.stage = "finalizing"]
<1>1. /\ Typed(w, c, s, l) /\ StageFine(on, w) /\ PipeFine(w, c, s) /\ OrderFine(w.sent, c, s)
      /\ CoverFine(w, c, s) /\ BodyFine(w) /\ LogFine(w, l)
  BY DEF RequestGood, RequestFine
<1>2. v \in Wrapper
  BY <1>1 DEF Typed, Wrapper
<1>3. /\ v.stage = "finalizing" /\ v.errorOnly = w.errorOnly /\ v.status = w.status
      /\ v.sse = w.sse /\ v.sent = w.sent /\ v.body = w.body /\ v.writer = w.writer
      /\ v.force = w.force
  BY <1>1 DEF Typed, Wrapper
<1> HIDE DEF v
<1>4. StageFine(on, v)
  BY <1>1, <1>3 DEF StageFine, Logged
<1>5. PipeFine(v, c, s)
  BY <1>1, <1>3 DEF PipeFine
<1>6. OrderFine(v.sent, c, s) /\ CoverFine(v, c, s) /\ BodyFine(v)
  BY <1>1, <1>3, ChunksUntouched DEF Typed
<1>7. l = Logs!Unlogged
  BY <1>1 DEF LogFine
<1> QED BY <1>1, <1>2, <1>4, <1>5, <1>6, <1>7 DEF RequestGood, RequestFine, Typed, LogFine, v

(* A chunk of a plain answer.                                               *)
LEMMA PlainWriteGood ==
    ASSUME NEW on \in BOOLEAN, NEW w, NEW c, NEW s, NEW l, RequestGood(on, w, c, s, l),
           w.stage = "handling", w.sent < MaxWrites, ~ (w.sse /\ c.open),
           NEW body, NEW v, v = [w EXCEPT !.sent = w.sent + 1, !.body = body],
           body \in {w.body, Append(w.body, w.sent + 1)},
           on => body = Append(w.body, w.sent + 1)
    PROVE  RequestGood(on, v, c, s, l)
<1>1. /\ Typed(w, c, s, l) /\ StageFine(on, w) /\ PipeFine(w, c, s) /\ OrderFine(w.sent, c, s)
      /\ CoverFine(w, c, s) /\ BodyFine(w) /\ LogFine(w, l)
  BY DEF RequestGood, RequestFine
<1>2. /\ w \in Wrapper /\ w.sent \in Nat /\ w.sent + 1 \in 1..MaxWrites
      /\ w.body \in Seq(1..MaxWrites)
  BY <1>1, LogBounds DEF Typed, Wrapper
<1>3. body \in Seq(1..MaxWrites) /\ v \in Wrapper
  <2>1. Append(w.body, w.sent + 1) \in Seq(1..MaxWrites)
    BY ONLY <1>2
  <2>2. body \in Seq(1..MaxWrites)
    BY <1>2, <2>1, Zenon
  <2>3. w.sent + 1 \in 0..MaxWrites
    BY <1>2, LogBounds
  <2> QED BY <1>2, <2>2, <2>3 DEF Wrapper
<1>4. /\ v.stage = "handling" /\ v.errorOnly = w.errorOnly /\ v.status = w.status
      /\ v.sse = w.sse /\ v.sent = w.sent + 1 /\ v.body = body /\ v.writer = w.writer
      /\ v.force = w.force
  BY <1>2 DEF Wrapper
<1>5. w.writer = "none"
  <2>1. w.writer # "file"
    BY <1>1 DEF StageFine, PipeFine
  <2> QED BY <1>1, <2>1 DEF StageFine, Typed, Wrapper
<1>6. StageFine(on, v)
  BY <1>1, <1>4, <1>5 DEF StageFine, Logged
<1>7. PipeFine(v, c, s)
  BY <1>1, <1>4 DEF PipeFine
<1>8. OrderFine(v.sent, c, s)
  <2>1. c.queue = <<>> /\ s.queue = <<>> /\ s.file = <<>>
    BY <1>1, <1>5 DEF PipeFine, Logs!NoPipe
  <2> QED BY <2>1, EmptyRises DEF OrderFine, Before
<1>9. CoverFine(v, c, s)
  BY <1>4, <1>5 DEF CoverFine
<1>10. BodyFine(v)
  <2> SUFFICES ASSUME ~ w.errorOnly
               PROVE  Len(v.body) = v.sent /\ \A i \in 1..v.sent : v.body[i] = i
    BY <1>4 DEF BodyFine
  <2>1. on
    BY <1>1 DEF StageFine, Logged
  <2>2. Len(w.body) = w.sent /\ \A i \in 1..w.sent : w.body[i] = i
    BY <1>1, <1>5 DEF BodyFine
  <2>3. v.body = Append(w.body, w.sent + 1) /\ v.sent = w.sent + 1
    BY <1>4, <2>1
  <2> QED BY <1>2, <2>2, <2>3
<1>11. l = Logs!Unlogged
  BY <1>1 DEF LogFine
<1>12. Typed(v, c, s, l)
  BY <1>1, <1>3 DEF Typed
<1> QED BY <1>6, <1>7, <1>8, <1>9, <1>10, <1>11, <1>12 DEF RequestGood, RequestFine, LogFine

(* A chunk of a stream: what a full channel drops is none of the first.     *)
LEMMA StreamWriteGood ==
    ASSUME NEW on \in BOOLEAN, NEW w, NEW c, NEW s, NEW l, RequestGood(on, w, c, s, l),
           w.stage = "handling", w.sent < MaxWrites, w.sse /\ c.open,
           NEW v, v = [w EXCEPT !.sent = w.sent + 1], NEW d,
           d = IF Len(c.queue) < Buffer THEN [c EXCEPT !.queue = Append(@, w.sent + 1)] ELSE c
    PROVE  RequestGood(on, v, d, s, l)
<1> DEFINE n == w.sent
<1>1. /\ Typed(w, c, s, l) /\ StageFine(on, w) /\ PipeFine(w, c, s) /\ OrderFine(n, c, s)
      /\ CoverFine(w, c, s) /\ BodyFine(w) /\ LogFine(w, l)
  BY DEF RequestGood, RequestFine
<1>2. /\ w \in Wrapper /\ n \in Nat /\ n + 1 \in 1..MaxWrites
      /\ c \in Logs!Pipe /\ s \in Spool /\ Len(c.queue) <= Buffer
      /\ c.queue \in Seq(1..MaxWrites) /\ s.queue \in Seq(1..MaxWrites)
      /\ s.file \in Seq(1..MaxWrites)
  BY <1>1, LogBounds DEF Typed, Wrapper, Logs!Pipe, Spool
<1>3. v \in Wrapper
  <2>1. n + 1 \in 0..MaxWrites
    BY <1>2, LogBounds
  <2> QED BY <1>2, <2>1 DEF Wrapper
<1>4. /\ v.stage = "handling" /\ v.errorOnly = w.errorOnly /\ v.status = w.status
      /\ v.sse = w.sse /\ v.sent = n + 1 /\ v.body = w.body /\ v.writer = w.writer
      /\ v.force = w.force
  BY <1>2 DEF Wrapper
<1>5. w.writer = "file"
  <2>1. w.writer # "none"
    BY <1>1 DEF PipeFine, Logs!NoPipe
  <2> QED BY <1>1, <2>1 DEF StageFine, Typed, Wrapper
<1>6. StageFine(on, v)
  BY <1>1, <1>4, <1>5 DEF StageFine, Logged
<1>7. d \in Logs!Pipe /\ d.open = c.open /\ d.goroutine = c.goroutine /\ Len(d.queue) <= Buffer
  <2>1. CASE Len(c.queue) < Buffer
    <3>1. /\ Append(c.queue, n + 1) \in Seq(1..MaxWrites)
          /\ Len(Append(c.queue, n + 1)) <= Buffer
      BY <1>2, <2>1, LogBounds
    <3>2. d = [c EXCEPT !.queue = Append(c.queue, n + 1)]
      BY <2>1
    <3> HIDE DEF n
    <3> QED BY <1>2, <3>1, <3>2 DEF Logs!Pipe
  <2>2. CASE ~ (Len(c.queue) < Buffer)
    BY <1>2, <2>2
  <2> QED BY <2>1, <2>2
<1>8. PipeFine(v, d, s)
  <2>1. c.open /\ c.goroutine = "running"
    BY <1>1, <1>5 DEF PipeFine
  <2> QED BY <1>1, <1>4, <1>5, <1>7, <2>1 DEF PipeFine
<1>9. /\ c.queue \in Seq(Nat) /\ \A y \in Logs!ToSet(c.queue) : y > 0 /\ y \in Nat
      /\ \A y \in Logs!ToSet(s.queue) \cup Logs!ToSet(s.file) : y \in Nat
  BY <1>2, ChunksAreNumbers
<1> HIDE DEF n
<1>10. ASSUME Len(c.queue) < Buffer
      PROVE  OrderFine(n + 1, d, s) /\ CoverFine(v, d, s)
  <2>1. d.queue = Append(c.queue, n + 1)
    BY <1>2, <1>10 DEF Logs!Pipe, n
  <2>2. \A y \in Logs!ToSet(c.queue) : y < n + 1
    BY <1>1, <1>2, <1>9 DEF OrderFine
  <2>3. Rising(d.queue) /\ Logs!ToSet(d.queue) = Logs!ToSet(c.queue) \cup {n + 1}
    <3>1. Rising(c.queue) /\ n + 1 \in Nat
      BY <1>1, <1>2 DEF OrderFine
    <3> QED BY ONLY <1>9, <2>1, <2>2, <3>1, AppendRises
  <2>4. OrderFine(n + 1, d, s)
    <3>1. \A x \in Logs!ToSet(d.queue) \cup Logs!ToSet(s.queue) \cup Logs!ToSet(s.file) : x <= n + 1
      BY ONLY <1>1, <1>2, <1>9, <2>3 DEF OrderFine
    <3>2. Before(s.file, d.queue) /\ Before(s.queue, d.queue)
      BY ONLY <1>1, <1>2, <1>9, <2>3 DEF OrderFine, Before
    <3> QED BY <1>1, <2>3, <3>1, <3>2 DEF OrderFine
  <2>5. CoverFine(v, d, s)
    <3> SUFFICES ASSUME ~ s.broken, NEW k \in 1..(n + 1), k <= Buffer
                 PROVE  k \in Logs!ToSet(d.queue) \cup Logs!ToSet(s.queue) \cup Logs!ToSet(s.file)
      BY <1>4 DEF CoverFine, Covers
    <3>1. k = n + 1 \/ k \in 1..n
      BY <1>2
    <3>2. Covers(n, Logs!ToSet(c.queue) \cup Logs!ToSet(s.queue) \cup Logs!ToSet(s.file))
      BY <1>1, <1>5 DEF CoverFine, n
    <3> QED BY <2>3, <3>1, <3>2 DEF Covers
  <2> QED BY <2>4, <2>5
<1>11. ASSUME ~ (Len(c.queue) < Buffer)
      PROVE  OrderFine(n + 1, d, s) /\ CoverFine(v, d, s)
  <2>1. d = c /\ Len(c.queue) = Buffer /\ c.queue # <<>>
    BY <1>2, <1>11, LogBounds
  <2>2. PICK y \in Logs!ToSet(c.queue) : y >= Len(c.queue)
    BY <1>1, <1>9, <2>1, FullIsHigh DEF OrderFine
  <2>3. n >= Buffer
    BY <1>1, <1>2, <1>9, <2>1, <2>2, LogBounds DEF OrderFine
  <2>4. OrderFine(n + 1, d, s)
    BY <1>1, <1>2, <1>9, <2>1 DEF OrderFine
  <2>5. CoverFine(v, d, s)
    <3> SUFFICES ASSUME ~ s.broken, NEW k \in 1..(n + 1), k <= Buffer
                 PROVE  k \in Logs!ToSet(c.queue) \cup Logs!ToSet(s.queue) \cup Logs!ToSet(s.file)
      BY <1>4, <2>1 DEF CoverFine, Covers
    <3>1. k \in 1..n
      BY <1>2, <2>3, LogBounds
    <3>2. Covers(n, Logs!ToSet(c.queue) \cup Logs!ToSet(s.queue) \cup Logs!ToSet(s.file))
      BY <1>1, <1>5 DEF CoverFine, n
    <3> QED BY <3>1, <3>2 DEF Covers
  <2> QED BY <2>4, <2>5
<1>12. BodyFine(v)
  BY <1>4, <1>5 DEF BodyFine
<1>13. l = Logs!Unlogged
  BY <1>1 DEF LogFine
<1>14. Typed(v, d, s, l)
  BY <1>1, <1>3, <1>7 DEF Typed
<1>15. OrderFine(v.sent, d, s) /\ CoverFine(v, d, s)
  BY <1>4, <1>10, <1>11
<1> QED BY <1>6, <1>8, <1>12, <1>13, <1>14, <1>15 DEF RequestGood, RequestFine, LogFine

(* The carrier takes a chunk on; what it drops is none of the first either. *)
LEMMA CarryGood ==
    ASSUME NEW on \in BOOLEAN, NEW w, NEW c, NEW s, NEW l, RequestGood(on, w, c, s, l),
           c.goroutine = "running", c.queue # <<>>,
           NEW d, d = [c EXCEPT !.queue = Tail(@)], NEW t,
           t = IF w.writer = "file" /\ Len(s.queue) < Buffer
               THEN [s EXCEPT !.queue = Append(@, Head(c.queue))] ELSE s
    PROVE  RequestGood(on, w, d, t, l)
<1> DEFINE n == w.sent
           x == Head(c.queue)
<1>1. /\ Typed(w, c, s, l) /\ StageFine(on, w) /\ PipeFine(w, c, s) /\ OrderFine(n, c, s)
      /\ CoverFine(w, c, s) /\ BodyFine(w) /\ LogFine(w, l)
  BY DEF RequestGood, RequestFine
<1>2. /\ w \in Wrapper /\ n \in Nat /\ c \in Logs!Pipe /\ s \in Spool
      /\ Len(c.queue) <= Buffer /\ Len(s.queue) <= Buffer
      /\ c.queue \in Seq(1..MaxWrites) /\ s.queue \in Seq(1..MaxWrites)
      /\ s.file \in Seq(1..MaxWrites)
  BY <1>1, LogBounds DEF Typed, Wrapper, Logs!Pipe, Spool
<1>3. /\ Tail(c.queue) \in Seq(1..MaxWrites) /\ Len(Tail(c.queue)) <= Buffer
      /\ x \in 1..MaxWrites
  BY <1>2, HeadAndTail
<1>4. /\ d \in Logs!Pipe /\ d.queue = Tail(c.queue) /\ d.open = c.open
      /\ d.goroutine = c.goroutine
  BY <1>2, <1>3 DEF Logs!Pipe
<1>5. w.writer = "file"
  <2>1. w.writer # "none"
    BY <1>1 DEF PipeFine, Logs!NoPipe
  <2> QED BY <1>1, <2>1 DEF StageFine, Typed, Wrapper
<1>6. s.goroutine = "running"
  BY <1>1, <1>5 DEF PipeFine, StageFine
<1>7. /\ c.queue \in Seq(Nat) /\ \A y \in Logs!ToSet(c.queue) : y \in Nat
      /\ s.queue \in Seq(Nat) /\ \A y \in Logs!ToSet(s.queue) : y \in Nat /\ y > 0
      /\ \A y \in Logs!ToSet(s.file) : y \in Nat
  BY <1>2, ChunksAreNumbers
<1>8. /\ Rising(d.queue) /\ Logs!ToSet(c.queue) = Logs!ToSet(d.queue) \cup {x}
      /\ \A y \in Logs!ToSet(d.queue) : x < y
  <2>1. Rising(c.queue)
    BY <1>1 DEF OrderFine
  <2> QED BY ONLY <1>4, <1>7, <2>1, TailRises, c.queue # <<>>
<1>9. \A y \in Logs!ToSet(s.queue) : y < x
  BY <1>1, <1>8 DEF OrderFine, Before
<1>10. /\ t \in Spool /\ Len(t.queue) <= Buffer /\ t.open = s.open /\ t.goroutine = s.goroutine
       /\ t.file = s.file /\ t.broken = s.broken /\ t.temps = s.temps
  <2>1. CASE Len(s.queue) < Buffer
    <3>1. Append(s.queue, x) \in Seq(1..MaxWrites) /\ Len(Append(s.queue, x)) <= Buffer
      BY <1>2, <1>3, <2>1, LogBounds
    <3>2. t = [s EXCEPT !.queue = Append(s.queue, x)]
      BY <1>5, <2>1
    <3> HIDE DEF x
    <3> QED BY <1>2, <3>1, <3>2 DEF Spool
  <2>2. CASE ~ (Len(s.queue) < Buffer)
    BY <1>2, <2>2
  <2> QED BY <2>1, <2>2
<1> HIDE DEF x, n
<1>11. ASSUME Len(s.queue) < Buffer
       PROVE  OrderFine(n, d, t) /\ CoverFine(w, d, t)
  <2>1. t.queue = Append(s.queue, x)
    BY <1>2, <1>5, <1>11 DEF Spool, x
  <2>2. Rising(t.queue) /\ Logs!ToSet(t.queue) = Logs!ToSet(s.queue) \cup {x}
    <3>1. Rising(s.queue) /\ x \in Nat
      BY <1>1, <1>3 DEF OrderFine
    <3> QED BY ONLY <1>7, <1>9, <2>1, <3>1, AppendRises
  <2>3. OrderFine(n, d, t)
    <3>1. Before(t.file, t.queue) /\ Before(t.file, d.queue) /\ Before(t.queue, d.queue)
      BY ONLY <1>1, <1>8, <1>10, <2>2 DEF OrderFine, Before
    <3>2. \A y \in Logs!ToSet(d.queue) \cup Logs!ToSet(t.queue) \cup Logs!ToSet(t.file) : y <= n
      BY ONLY <1>1, <1>8, <1>10, <2>2 DEF OrderFine
    <3>3. Rising(t.file)
      BY <1>1, <1>10 DEF OrderFine
    <3> QED BY <1>8, <2>2, <3>1, <3>2, <3>3 DEF OrderFine
  <2>4. CoverFine(w, d, t)
    BY ONLY <1>1, <1>8, <1>10, <2>2 DEF CoverFine, Covers
  <2> QED BY <2>3, <2>4
<1>12. ASSUME ~ (Len(s.queue) < Buffer)
       PROVE  OrderFine(n, d, t) /\ CoverFine(w, d, t)
  <2>1. t = s /\ Len(s.queue) = Buffer /\ s.queue # <<>>
    BY <1>2, <1>12, LogBounds
  <2>2. PICK y \in Logs!ToSet(s.queue) : y >= Len(s.queue)
    BY <1>1, <1>7, <2>1, FullIsHigh DEF OrderFine
  <2>3. x > Buffer
    BY <1>3, <1>7, <1>9, <2>1, <2>2, LogBounds
  <2>4. OrderFine(n, d, t)
    <3>1. Before(t.file, d.queue) /\ Before(t.queue, d.queue)
      BY ONLY <1>1, <1>8, <2>1 DEF OrderFine, Before
    <3>2. \A z \in Logs!ToSet(d.queue) \cup Logs!ToSet(t.queue) \cup Logs!ToSet(t.file) : z <= n
      BY ONLY <1>1, <1>8, <2>1 DEF OrderFine
    <3> QED BY <1>1, <1>8, <2>1, <3>1, <3>2 DEF OrderFine
  <2>5. CoverFine(w, d, t)
    <3> SUFFICES ASSUME ~ s.broken, NEW k \in 1..n, k <= Buffer
                 PROVE  k \in Logs!ToSet(d.queue) \cup Logs!ToSet(s.queue) \cup Logs!ToSet(s.file)
      BY <2>1 DEF CoverFine, Covers, n
    <3>1. k # x
      BY <1>2, <1>3, <2>3, LogBounds
    <3>2. Covers(n, Logs!ToSet(c.queue) \cup Logs!ToSet(s.queue) \cup Logs!ToSet(s.file))
      BY <1>1, <1>5 DEF CoverFine, n
    <3> QED BY <1>8, <3>1, <3>2 DEF Covers
  <2> QED BY <2>4, <2>5
<1>13. PipeFine(w, d, t)
  BY <1>1, <1>4, <1>5, <1>6, <1>10 DEF PipeFine
<1>14. Typed(w, d, t, l)
  BY <1>1, <1>3, <1>4, <1>10 DEF Typed
<1>15. OrderFine(w.sent, d, t) /\ CoverFine(w, d, t)
  BY <1>11, <1>12 DEF n
<1> QED BY <1>1, <1>13, <1>14, <1>15 DEF RequestGood, RequestFine

LEMMA CarrierEndsGood ==
    ASSUME NEW on \in BOOLEAN, NEW w, NEW c, NEW s, NEW l, RequestGood(on, w, c, s, l),
           c.goroutine = "running", c.queue = <<>>, ~ c.open,
           NEW d, d = [c EXCEPT !.goroutine = "ended"]
    PROVE  RequestGood(on, w, d, s, l)
<1>1. /\ Typed(w, c, s, l) /\ StageFine(on, w) /\ PipeFine(w, c, s) /\ OrderFine(w.sent, c, s)
      /\ CoverFine(w, c, s) /\ BodyFine(w) /\ LogFine(w, l)
  BY DEF RequestGood, RequestFine
<1>2. d \in Logs!Pipe /\ d.queue = c.queue /\ d.open = c.open /\ d.goroutine = "ended"
  BY <1>1 DEF Typed, Logs!Pipe
<1>3. w.writer # "none"
  BY <1>1 DEF PipeFine, Logs!NoPipe
<1>4. PipeFine(w, d, s)
  BY <1>1, <1>2, <1>3 DEF PipeFine
<1>5. OrderFine(w.sent, d, s) /\ CoverFine(w, d, s)
  BY <1>1, <1>2 DEF OrderFine, CoverFine
<1> QED BY <1>1, <1>2, <1>4, <1>5 DEF RequestGood, RequestFine, Typed

(* The spooler writes a chunk to the file, or drops it as the disk failed.  *)
LEMMA SpoolChunkGood ==
    ASSUME NEW on \in BOOLEAN, NEW w, NEW c, NEW s, NEW l, RequestGood(on, w, c, s, l),
           s.goroutine = "running", s.queue # <<>>,
           NEW fails \in BOOLEAN, s.broken => fails, NEW t,
           t = [s EXCEPT !.queue = Tail(@), !.broken = fails,
                         !.file = IF fails THEN @ ELSE Append(@, Head(s.queue))]
    PROVE  RequestGood(on, w, c, t, l)
<1> DEFINE n == w.sent
           x == Head(s.queue)
<1>1. /\ Typed(w, c, s, l) /\ StageFine(on, w) /\ PipeFine(w, c, s) /\ OrderFine(n, c, s)
      /\ CoverFine(w, c, s) /\ BodyFine(w) /\ LogFine(w, l)
  BY DEF RequestGood, RequestFine
<1>2. /\ s \in Spool /\ Len(s.queue) <= Buffer
      /\ s.queue \in Seq(1..MaxWrites) /\ s.file \in Seq(1..MaxWrites)
  BY <1>1, LogBounds DEF Typed, Spool
<1>3. /\ Tail(s.queue) \in Seq(1..MaxWrites) /\ Len(Tail(s.queue)) <= Buffer
      /\ x \in 1..MaxWrites /\ Append(s.file, x) \in Seq(1..MaxWrites)
  BY <1>2, HeadAndTail
<1>4. /\ t \in Spool /\ t.queue = Tail(s.queue) /\ t.open = s.open /\ t.goroutine = "running"
      /\ t.broken = fails /\ t.temps = s.temps
      /\ t.file = IF fails THEN s.file ELSE Append(s.file, x)
  <2> DEFINE f == IF fails THEN s.file ELSE Append(s.file, x)
  <2>1. f \in Seq(1..MaxWrites)
    BY <1>2, <1>3
  <2>2. t = [s EXCEPT !.queue = Tail(s.queue), !.broken = fails, !.file = f]
    OBVIOUS
  <2> HIDE DEF f
  <2>3. /\ t \in Spool /\ t.queue = Tail(s.queue) /\ t.open = s.open /\ t.goroutine = "running"
        /\ t.broken = fails /\ t.temps = s.temps /\ t.file = f
    BY <1>2, <1>3, <2>1, <2>2 DEF Spool
  <2> QED BY <2>3 DEF f
<1>5. w.writer = "file"
  <2>1. w.writer # "none"
    BY <1>1 DEF PipeFine
  <2> QED BY <1>1, <2>1 DEF StageFine, Typed, Wrapper
<1>6. /\ s.queue \in Seq(Nat) /\ s.file \in Seq(Nat) /\ x \in Nat
      /\ \A y \in Logs!ToSet(s.queue) \cup Logs!ToSet(s.file) : y \in Nat
  BY <1>2, <1>3, ChunksAreNumbers
<1>7. /\ Rising(t.queue) /\ Logs!ToSet(s.queue) = Logs!ToSet(t.queue) \cup {x}
      /\ \A y \in Logs!ToSet(t.queue) : x < y
  <2>1. Rising(s.queue)
    BY <1>1 DEF OrderFine
  <2> QED BY ONLY <1>4, <1>6, <2>1, TailRises, s.queue # <<>>
<1> HIDE DEF x
<1>8. ASSUME ~ fails
      PROVE  Rising(t.file) /\ Logs!ToSet(t.file) = Logs!ToSet(s.file) \cup {x}
  <2>1. \A y \in Logs!ToSet(s.file) : y < x
    BY <1>1, <1>7 DEF OrderFine, Before
  <2>2. Rising(s.file) /\ t.file = Append(s.file, x)
    BY <1>1, <1>4, <1>8 DEF OrderFine
  <2> QED BY ONLY <1>6, <2>1, <2>2, AppendRises
<1>9. /\ Rising(t.file) /\ Logs!ToSet(t.file) \subseteq Logs!ToSet(s.file) \cup {x}
      /\ ~ fails => Logs!ToSet(t.file) = Logs!ToSet(s.file) \cup {x}
  BY <1>1, <1>4, <1>8 DEF OrderFine
<1>10. OrderFine(n, c, t)
  <2>1. Before(t.file, t.queue) /\ Before(t.file, c.queue) /\ Before(t.queue, c.queue)
    BY ONLY <1>1, <1>7, <1>9 DEF OrderFine, Before
  <2>2. \A y \in Logs!ToSet(c.queue) \cup Logs!ToSet(t.queue) \cup Logs!ToSet(t.file) : y <= n
    BY ONLY <1>1, <1>7, <1>9 DEF OrderFine
  <2> QED BY <1>1, <1>7, <1>9, <2>1, <2>2 DEF OrderFine
<1>11. CoverFine(w, c, t)
  <2> SUFFICES ASSUME ~ fails
               PROVE  Covers(n, Logs!ToSet(c.queue) \cup Logs!ToSet(t.queue) \cup Logs!ToSet(t.file))
    BY <1>4 DEF CoverFine
  <2>1. Covers(n, Logs!ToSet(c.queue) \cup Logs!ToSet(s.queue) \cup Logs!ToSet(s.file))
    BY <1>1, <1>5 DEF CoverFine
  <2> QED BY <1>7, <1>9, <2>1 DEF Covers
<1>12. PipeFine(w, c, t)
  BY <1>1, <1>4, <1>5 DEF PipeFine
<1>13. Typed(w, c, t, l)
  BY <1>1, <1>3, <1>4 DEF Typed
<1> QED BY <1>1, <1>10, <1>11, <1>12, <1>13 DEF RequestGood, RequestFine

LEMMA SpoolerEndsGood ==
    ASSUME NEW on \in BOOLEAN, NEW w, NEW c, NEW s, NEW l, RequestGood(on, w, c, s, l),
           s.goroutine = "running", s.queue = <<>>, ~ s.open,
           NEW fails \in BOOLEAN, s.broken => fails, NEW t,
           t = [s EXCEPT !.goroutine = "ended", !.broken = fails]
    PROVE  RequestGood(on, w, c, t, l)
<1>1. /\ Typed(w, c, s, l) /\ StageFine(on, w) /\ PipeFine(w, c, s) /\ OrderFine(w.sent, c, s)
      /\ CoverFine(w, c, s) /\ BodyFine(w) /\ LogFine(w, l)
  BY DEF RequestGood, RequestFine
<1>2. /\ t \in Spool /\ t.queue = s.queue /\ t.open = s.open /\ t.goroutine = "ended"
      /\ t.file = s.file /\ t.broken = fails /\ t.temps = s.temps
  BY <1>1 DEF Typed, Spool
<1>3. w.writer # "none"
  BY <1>1 DEF PipeFine
<1>4. PipeFine(w, c, t)
  BY <1>1, <1>2, <1>3 DEF PipeFine
<1>5. OrderFine(w.sent, c, t) /\ CoverFine(w, c, t)
  BY <1>1, <1>2 DEF OrderFine, CoverFine
<1> QED BY <1>1, <1>2, <1>4, <1>5 DEF RequestGood, RequestFine, Typed

(* Finalize, with force and the next stage as it computes them.             *)
LEMMA FinalizeGood ==
    ASSUME NEW on \in BOOLEAN, NEW w, NEW c, NEW s, NEW l, RequestGood(on, w, c, s, l),
           w.stage = "finalizing",
           NEW force \in BOOLEAN, force <=> w.errorOnly /\ w.status = Logs!Failed /\ ~ on,
           NEW next, next = IF ~ on /\ ~ force THEN "done"
                            ELSE IF w.sse /\ w.writer # "none" THEN "draining" ELSE "logging",
           NEW open \in BOOLEAN, open <=> c.open /\ next # "draining",
           NEW v, v = [w EXCEPT !.stage = next, !.force = force],
           NEW d, d = [c EXCEPT !.open = open]
    PROVE  RequestGood(on, v, d, s, l)
<1>1. /\ Typed(w, c, s, l) /\ StageFine(on, w) /\ PipeFine(w, c, s) /\ OrderFine(w.sent, c, s)
      /\ CoverFine(w, c, s) /\ BodyFine(w) /\ LogFine(w, l)
  BY DEF RequestGood, RequestFine
<1>2. next \in {"done", "draining", "logging"}
  OBVIOUS
<1>3. v \in Wrapper
  BY <1>1, <1>2 DEF Typed, Wrapper
<1>4. /\ v.stage = next /\ v.errorOnly = w.errorOnly /\ v.status = w.status
      /\ v.sse = w.sse /\ v.sent = w.sent /\ v.body = w.body /\ v.writer = w.writer
      /\ v.force = force
  BY <1>1 DEF Typed, Wrapper
<1>5. d \in Logs!Pipe /\ d.open = open /\ d.queue = c.queue /\ d.goroutine = c.goroutine
  BY <1>1 DEF Typed, Logs!Pipe
<1>6. w.writer \in {"none", "file"}
  BY <1>1 DEF StageFine, Typed, Wrapper
<1>7. ASSUME w.writer = "file"
      PROVE  StageFine(on, v) /\ PipeFine(v, d, s)
  <2>1. on /\ w.sse /\ ~ force /\ next = "draining"
    <3>1. on /\ w.sse
      BY <1>1, <1>7 DEF StageFine, Logged
    <3> QED BY <1>7, <3>1
  <2>2. StageFine(on, v)
    BY <1>1, <1>4, <1>7, <2>1 DEF StageFine, Logged
  <2>3. ~ open
    BY <2>1
  <2>4. PipeFine(v, d, s)
    BY <1>1, <1>4, <1>5, <1>7, <2>1, <2>3 DEF PipeFine
  <2> QED BY <2>2, <2>4
<1>8. ASSUME w.writer = "none"
      PROVE  StageFine(on, v) /\ PipeFine(v, d, s)
  <2>1. next \in {"done", "logging"} /\ (force => next = "logging")
    BY <1>8
  <2>2. StageFine(on, v)
    <3>1. w.errorOnly \/ on
      BY <1>1 DEF StageFine, Logged
    <3>2. w.sse => w.status # Logs!NoStatus
      BY <1>1 DEF StageFine
    <3> QED BY <1>4, <1>8, <2>1, <3>1, <3>2 DEF StageFine, Logged
  <2>3. c = Logs!NoPipe /\ c.open = FALSE
    BY <1>1, <1>8 DEF PipeFine, Logs!NoPipe
  <2>4. open = FALSE
    BY <2>3
  <2>5. d = c
    BY <2>3, <2>4 DEF Logs!NoPipe
  <2>6. PipeFine(v, d, s)
    BY <1>1, <1>4, <1>8, <2>5 DEF PipeFine
  <2> QED BY <2>2, <2>6
<1>9. OrderFine(v.sent, d, s) /\ CoverFine(v, d, s) /\ BodyFine(v)
  BY <1>1, <1>4, <1>5 DEF OrderFine, CoverFine, BodyFine
<1>10. l = Logs!Unlogged
  BY <1>1 DEF LogFine
<1>11. Typed(v, d, s, l)
  BY <1>1, <1>3, <1>5 DEF Typed
<1>12. StageFine(on, v) /\ PipeFine(v, d, s)
  BY <1>6, <1>7, <1>8
<1> QED BY <1>9, <1>10, <1>11, <1>12 DEF RequestGood, RequestFine, LogFine

LEMMA CloseWriterGood ==
    ASSUME NEW on \in BOOLEAN, NEW w, NEW c, NEW s, NEW l, RequestGood(on, w, c, s, l),
           w.stage = "draining", c.goroutine = "ended",
           NEW v, v = [w EXCEPT !.stage = IF w.writer = "file" THEN "closing" ELSE "done"],
           NEW t, t = [s EXCEPT !.open = FALSE]
    PROVE  RequestGood(on, v, c, t, l)
<1>1. /\ Typed(w, c, s, l) /\ StageFine(on, w) /\ PipeFine(w, c, s) /\ OrderFine(w.sent, c, s)
      /\ CoverFine(w, c, s) /\ BodyFine(w) /\ LogFine(w, l)
  BY DEF RequestGood, RequestFine
<1>2. w.writer = "file"
  BY <1>1 DEF StageFine
<1>3. v \in Wrapper
  BY <1>1, <1>2 DEF Typed, Wrapper
<1>4. /\ v.stage = "closing" /\ v.errorOnly = w.errorOnly /\ v.status = w.status
      /\ v.sse = w.sse /\ v.sent = w.sent /\ v.body = w.body /\ v.writer = w.writer
      /\ v.force = w.force
  BY <1>1, <1>2 DEF Typed, Wrapper
<1>5. /\ t \in Spool /\ t.queue = s.queue /\ t.open = FALSE /\ t.goroutine = s.goroutine
      /\ t.file = s.file /\ t.broken = s.broken /\ t.temps = s.temps
  BY <1>1 DEF Typed, Spool
<1>6. StageFine(on, v)
  BY <1>1, <1>2, <1>4 DEF StageFine, Logged
<1>7. PipeFine(v, c, t)
  BY <1>1, <1>2, <1>4, <1>5 DEF PipeFine
<1>8. OrderFine(v.sent, c, t) /\ CoverFine(v, c, t) /\ BodyFine(v)
  BY <1>1, <1>4, <1>5 DEF OrderFine, CoverFine, BodyFine
<1>9. l = Logs!Unlogged
  BY <1>1 DEF LogFine
<1>10. Typed(v, c, t, l)
  BY <1>1, <1>3, <1>5 DEF Typed
<1> QED BY <1>6, <1>7, <1>8, <1>9, <1>10 DEF RequestGood, RequestFine, LogFine

(* What a log may be made of.                                               *)
LEMMA ChunksMakeLogs ==
    ASSUME NEW q \in Seq(1..MaxWrites)
    PROVE  q \in Seq(0..MaxWrites)
BY LogBounds

LEMMA AssembleLogGood ==
    ASSUME NEW on \in BOOLEAN, NEW w, NEW c, NEW s, NEW l, RequestGood(on, w, c, s, l),
           w.stage = "closing", s.goroutine = "ended",
           NEW written \in BOOLEAN, s.broken => ~ written,
           NEW v, v = [w EXCEPT !.stage = "assembling"],
           NEW k, k = IF written THEN s.file ELSE l
    PROVE  RequestGood(on, v, c, s, k)
<1>1. /\ Typed(w, c, s, l) /\ StageFine(on, w) /\ PipeFine(w, c, s) /\ OrderFine(w.sent, c, s)
      /\ CoverFine(w, c, s) /\ BodyFine(w) /\ LogFine(w, l)
  BY DEF RequestGood, RequestFine
<1>2. w.writer = "file"
  BY <1>1 DEF StageFine
<1>3. v \in Wrapper
  BY <1>1 DEF Typed, Wrapper
<1>4. /\ v.stage = "assembling" /\ v.errorOnly = w.errorOnly /\ v.status = w.status
      /\ v.sse = w.sse /\ v.sent = w.sent /\ v.body = w.body /\ v.writer = w.writer
      /\ v.force = w.force
  BY <1>1 DEF Typed, Wrapper
<1>5. StageFine(on, v)
  BY <1>1, <1>2, <1>4 DEF StageFine, Logged
<1>6. PipeFine(v, c, s)
  BY <1>1, <1>2, <1>4 DEF PipeFine
<1>7. OrderFine(v.sent, c, s) /\ CoverFine(v, c, s) /\ BodyFine(v)
  BY <1>1, <1>4, ChunksUntouched DEF Typed
<1>8. s.file \in Seq(1..MaxWrites) /\ l \in Seq(0..MaxWrites)
  BY <1>1 DEF Typed, Spool
<1>9. k \in Seq(0..MaxWrites)
  BY <1>8, ChunksMakeLogs, Zenon
<1>10. LogFine(v, k)
  <2>1. l = Logs!Unlogged
    BY <1>1 DEF LogFine
  <2>2. ASSUME written
        PROVE  Rising(s.file) /\ Covers(w.sent, Logs!ToSet(s.file))
    <3>1. c.queue = <<>> /\ s.queue = <<>>
      BY <1>1, <1>2 DEF PipeFine
    <3>2. Covers(w.sent, Logs!ToSet(c.queue) \cup Logs!ToSet(s.queue) \cup Logs!ToSet(s.file))
      BY <1>1, <1>2, <2>2 DEF CoverFine
    <3>3. Logs!ToSet(c.queue) \cup Logs!ToSet(s.queue) \cup Logs!ToSet(s.file) = Logs!ToSet(s.file)
      BY <3>1, EmptyRises
    <3>4. Rising(s.file)
      BY <1>1 DEF OrderFine
    <3> QED BY <3>2, <3>3, <3>4
  <2> QED BY <1>4, <2>1, <2>2 DEF LogFine
<1>11. Typed(v, c, s, k)
  BY <1>1, <1>3, <1>9 DEF Typed
<1> QED BY <1>5, <1>6, <1>7, <1>10, <1>11 DEF RequestGood, RequestFine

LEMMA CleanupGood ==
    ASSUME NEW on \in BOOLEAN, NEW w, NEW c, NEW s, NEW l, RequestGood(on, w, c, s, l),
           w.stage = "assembling",
           NEW v, v = [w EXCEPT !.stage = "done"], NEW t, t = [s EXCEPT !.temps = {}]
    PROVE  RequestGood(on, v, c, t, l)
<1>1. /\ Typed(w, c, s, l) /\ StageFine(on, w) /\ PipeFine(w, c, s) /\ OrderFine(w.sent, c, s)
      /\ CoverFine(w, c, s) /\ BodyFine(w) /\ LogFine(w, l)
  BY DEF RequestGood, RequestFine
<1>2. w.writer = "file"
  BY <1>1 DEF StageFine
<1>3. v \in Wrapper
  BY <1>1 DEF Typed, Wrapper
<1>4. /\ v.stage = "done" /\ v.errorOnly = w.errorOnly /\ v.status = w.status
      /\ v.sse = w.sse /\ v.sent = w.sent /\ v.body = w.body /\ v.writer = w.writer
      /\ v.force = w.force
  BY <1>1 DEF Typed, Wrapper
<1>5. /\ t \in Spool /\ t.queue = s.queue /\ t.open = s.open /\ t.goroutine = s.goroutine
      /\ t.file = s.file /\ t.broken = s.broken /\ t.temps = {}
  BY <1>1 DEF Typed, Spool
<1>6. StageFine(on, v)
  BY <1>1, <1>2, <1>4 DEF StageFine, Logged
<1>7. PipeFine(v, c, t)
  BY <1>1, <1>2, <1>4, <1>5 DEF PipeFine
<1>8. OrderFine(v.sent, c, t) /\ CoverFine(v, c, t) /\ BodyFine(v) /\ LogFine(v, l)
  BY <1>1, <1>4, <1>5 DEF OrderFine, CoverFine, BodyFine, LogFine
<1>9. Typed(v, c, t, l)
  BY <1>1, <1>3, <1>5 DEF Typed
<1> QED BY <1>6, <1>7, <1>8, <1>9 DEF RequestGood, RequestFine

(* The stages of a log that is not a stream's.                              *)
LEMMA PlainStageGood ==
    ASSUME NEW on \in BOOLEAN, NEW w, NEW c, NEW s, NEW l, RequestGood(on, w, c, s, l),
           w.stage \in {"logging", "writing", "listing", "removing"},
           NEW v \in Wrapper, v.stage \in {"writing", "listing", "removing", "done"},
           v.errorOnly = w.errorOnly, v.status = w.status, v.sse = w.sse, v.sent = w.sent,
           v.body = w.body, v.writer = w.writer, v.force = w.force,
           NEW t \in Spool, t.open = s.open, t.queue = s.queue, t.goroutine = s.goroutine,
           t.file = s.file, t.broken = s.broken, v.stage = "done" => t.temps = {},
           v.stage = "writing" => w.stage = "logging",
           v.stage = "listing" => w.stage = "writing" /\ w.force,
           v.stage = "removing" => w.stage = "listing",
           NEW k, k \in {l, w.body}, k # l => w.stage = "writing"
    PROVE  RequestGood(on, v, c, t, k)
<1>1. /\ Typed(w, c, s, l) /\ StageFine(on, w) /\ PipeFine(w, c, s) /\ OrderFine(w.sent, c, s)
      /\ CoverFine(w, c, s) /\ BodyFine(w) /\ LogFine(w, l)
  BY DEF RequestGood, RequestFine
<1>2. w.writer = "none"
  BY <1>1 DEF StageFine, Typed, Wrapper
<1>3. StageFine(on, v)
  <2>1. Logged(v) => Logged(w)
    BY <1>2 DEF Logged
  <2>2. v.stage \in {"listing", "removing"} => w.force
    BY <1>1 DEF StageFine
  <2>3. w.force /\ v.stage \in {"writing", "listing"} => ~ on
    BY <1>1 DEF StageFine
  <2> QED BY <1>1, <1>2, <2>1, <2>2, <2>3 DEF StageFine
<1>4. PipeFine(v, c, t)
  BY <1>1, <1>2 DEF PipeFine
<1>5. OrderFine(v.sent, c, t) /\ CoverFine(v, c, t) /\ BodyFine(v)
  BY <1>1 DEF OrderFine, CoverFine, BodyFine
<1>6. k \in Seq(0..MaxWrites)
  <2>1. w.body \in Seq(1..MaxWrites) /\ l \in Seq(0..MaxWrites)
    BY <1>1 DEF Typed, Wrapper
  <2> QED BY <2>1, ChunksMakeLogs, Zenon
<1>7. LogFine(v, k)
  <2>1. CASE k = l
    <3>1. l # Logs!Unlogged => w.stage \in {"listing", "removing"}
      BY <1>1 DEF LogFine
    <3>2. l # Logs!Unlogged => v.stage \in {"listing", "removing", "done"}
      BY <3>1
    <3> QED BY <1>1, <2>1, <3>2 DEF LogFine
  <2>2. CASE k # l
    <3>1. k = w.body /\ v.stage \in {"listing", "done"}
      BY <2>2
    <3>2. ASSUME ~ w.errorOnly PROVE Rising(w.body) /\ Covers(w.sent, Logs!ToSet(w.body))
      <4>1. Len(w.body) = w.sent /\ \A i \in 1..w.sent : w.body[i] = i
        BY <1>1, <1>2, <3>2 DEF BodyFine
      <4>2. DOMAIN w.body = 1..w.sent /\ w.sent \in Nat
        BY <1>1, <4>1, LogBounds DEF Typed, Wrapper
      <4>3. Rising(w.body)
        BY <4>1, <4>2 DEF Rising
      <4>4. \A i \in 1..w.sent : i \in Logs!ToSet(w.body)
        BY <4>1, <4>2 DEF Logs!ToSet
      <4> QED BY <4>3, <4>4 DEF Covers
    <3> QED BY <3>1, <3>2 DEF LogFine
  <2> QED BY <2>1, <2>2
<1>8. Typed(v, c, t, k)
  BY <1>1, <1>6 DEF Typed
<1> QED BY <1>3, <1>4, <1>5, <1>7, <1>8 DEF RequestGood, RequestFine

(* The log is opened, and the body may have to be kept in a file, ...       *)
LEMMA OpenLogGood ==
    ASSUME NEW on \in BOOLEAN, NEW w, NEW c, NEW s, NEW l, RequestGood(on, w, c, s, l),
           w.stage = "logging", NEW temps \in {{}, {"request"}}
    PROVE  RequestGood(on, [w EXCEPT !.stage = "writing"], c, [s EXCEPT !.temps = temps], l)
<1>1. w \in Wrapper /\ s \in Spool
  BY DEF RequestGood, Typed
<1> DEFINE v == [w EXCEPT !.stage = "writing"]
           t == [s EXCEPT !.temps = temps]
<1>2. /\ v \in Wrapper /\ v.stage = "writing" /\ v.errorOnly = w.errorOnly
      /\ v.status = w.status /\ v.sse = w.sse /\ v.sent = w.sent /\ v.body = w.body
      /\ v.writer = w.writer /\ v.force = w.force
  BY <1>1 DEF Wrapper
<1>3. /\ t \in Spool /\ t.open = s.open /\ t.queue = s.queue /\ t.goroutine = s.goroutine
      /\ t.file = s.file /\ t.broken = s.broken
  BY <1>1 DEF Spool
<1> HIDE DEF v, t
<1>4. RequestGood(on, v, c, t, l)
  BY <1>2, <1>3, PlainStageGood
<1> QED BY <1>4 DEF v, t

(* ... or it cannot be.                                                     *)
LEMMA NoLogGood ==
    ASSUME NEW on \in BOOLEAN, NEW w, NEW c, NEW s, NEW l, RequestGood(on, w, c, s, l),
           w.stage = "logging"
    PROVE  RequestGood(on, [w EXCEPT !.stage = "done"], c, s, l)
<1>1. w \in Wrapper /\ s \in Spool
  BY DEF RequestGood, Typed
<1> DEFINE v == [w EXCEPT !.stage = "done"]
<1>2. /\ v \in Wrapper /\ v.stage = "done" /\ v.errorOnly = w.errorOnly
      /\ v.status = w.status /\ v.sse = w.sse /\ v.sent = w.sent /\ v.body = w.body
      /\ v.writer = w.writer /\ v.force = w.force
  BY <1>1 DEF Wrapper
<1>3. s.temps = {}
  BY DEF RequestGood, RequestFine, StageFine, PipeFine, Typed, Wrapper
<1> HIDE DEF v
<1>4. RequestGood(on, v, c, s, l)
  BY <1>1, <1>2, <1>3, PlainStageGood
<1> QED BY <1>4 DEF v

LEMMA WriteLogGood ==
    ASSUME NEW on \in BOOLEAN, NEW w, NEW c, NEW s, NEW l, RequestGood(on, w, c, s, l),
           w.stage = "writing",
           NEW v, v = [w EXCEPT !.stage = IF w.force /\ ~ on THEN "listing" ELSE "done"],
           NEW t, t = [s EXCEPT !.temps = IF v.stage = "done" THEN {} ELSE @]
    PROVE  RequestGood(on, v, c, t, w.body)
<1>1. w \in Wrapper /\ s \in Spool
  BY DEF RequestGood, Typed
<1>2. /\ v \in Wrapper /\ v.stage = IF w.force /\ ~ on THEN "listing" ELSE "done"
      /\ v.errorOnly = w.errorOnly
      /\ v.status = w.status /\ v.sse = w.sse /\ v.sent = w.sent /\ v.body = w.body
      /\ v.writer = w.writer /\ v.force = w.force
  BY <1>1 DEF Wrapper
<1>3. /\ t \in Spool /\ t.open = s.open /\ t.queue = s.queue /\ t.goroutine = s.goroutine
      /\ t.file = s.file /\ t.broken = s.broken /\ (v.stage = "done" => t.temps = {})
  <2>1. (IF v.stage = "done" THEN {} ELSE s.temps) \in SUBSET {"request", "response"}
    BY <1>1 DEF Spool
  <2> QED BY <1>1, <2>1 DEF Spool
<1>4. v.stage \in {"listing", "done"} /\ (v.stage = "listing" => w.force)
  BY <1>2
<1>5. v.stage # "writing" /\ v.stage # "removing" /\ w.body \in {l, w.body}
  BY <1>4
<1>6. /\ v \in Wrapper /\ v.errorOnly = w.errorOnly
      /\ v.status = w.status /\ v.sse = w.sse /\ v.sent = w.sent /\ v.body = w.body
      /\ v.writer = w.writer /\ v.force = w.force
  BY <1>2
<1> DEFINE k == w.body
<1>7. k \in {l, w.body}
  OBVIOUS
<1> HIDE DEF k
<1>8. RequestGood(on, v, c, t, k)
  BY ONLY RequestGood(on, w, c, s, l), on \in BOOLEAN, w.stage = "writing",
          <1>3, <1>4, <1>5, <1>6, <1>7, PlainStageGood
<1> QED BY <1>8 DEF k

LEMMA ListErrorLogsGood ==
    ASSUME NEW on \in BOOLEAN, NEW w, NEW c, NEW s, NEW l, RequestGood(on, w, c, s, l),
           w.stage = "listing", NEW victims \in SUBSET LoggedRequests,
           NEW v, v = [w EXCEPT !.stage = "removing", !.victims = victims]
    PROVE  RequestGood(on, v, c, s, l)
<1>1. w \in Wrapper /\ s \in Spool
  BY DEF RequestGood, Typed
<1>2. /\ v \in Wrapper /\ v.stage = "removing" /\ v.errorOnly = w.errorOnly
      /\ v.status = w.status /\ v.sse = w.sse /\ v.sent = w.sent /\ v.body = w.body
      /\ v.writer = w.writer /\ v.force = w.force
  BY <1>1 DEF Wrapper
<1> QED BY <1>1, <1>2, PlainStageGood

LEMMA RemoveErrorLogsGood ==
    ASSUME NEW on \in BOOLEAN, NEW w, NEW c, NEW s, NEW l, RequestGood(on, w, c, s, l),
           w.stage = "removing",
           NEW v, v = [w EXCEPT !.stage = "done", !.victims = {}],
           NEW t, t = [s EXCEPT !.temps = {}]
    PROVE  RequestGood(on, v, c, t, l)
<1>1. w \in Wrapper /\ s \in Spool
  BY DEF RequestGood, Typed
<1>2. /\ v \in Wrapper /\ v.stage = "done" /\ v.errorOnly = w.errorOnly
      /\ v.status = w.status /\ v.sse = w.sse /\ v.sent = w.sent /\ v.body = w.body
      /\ v.writer = w.writer /\ v.force = w.force
  BY <1>1 DEF Wrapper
<1>3. /\ t \in Spool /\ t.open = s.open /\ t.queue = s.queue /\ t.goroutine = s.goroutine
      /\ t.file = s.file /\ t.broken = s.broken /\ t.temps = {}
  BY <1>1 DEF Spool
<1> QED BY <1>2, <1>3, PlainStageGood

(* Logging is switched while nobody is being logged, or writes an error log. *)
LEMMA SetEnabledGood ==
    ASSUME NEW on \in BOOLEAN, NEW off \in BOOLEAN, off <=> ~ on,
           NEW w, NEW c, NEW s, NEW l, RequestGood(on, w, c, s, l),
           ~ (on /\ Logged(w)),
           ~ (~ on /\ w.force /\ w.stage \in {"logging", "writing", "listing"})
    PROVE  RequestGood(off, w, c, s, l)
BY DEF RequestGood, RequestFine, StageFine

-----------------------------------------------------------------------------
(* One request moves, from w, c, s, l to v, d, t, k.                        *)
Moves(r, v, d, t, k) ==
    /\ lWrapper' = [lWrapper EXCEPT ![r] = v] /\ lChunks' = [lChunks EXCEPT ![r] = d]
    /\ lSpool' = [lSpool EXCEPT ![r] = t] /\ lLog' = [lLog EXCEPT ![r] = k]
    /\ lEnabled' = lEnabled /\ lToggles' = lToggles

AllGood == Shaped /\ \A q \in LoggedRequests : GoodNow(q)

LEMMA MoveGood ==
    ASSUME AllGood, NEW r \in LoggedRequests, NEW v, NEW d, NEW t, NEW k, Moves(r, v, d, t, k),
           RequestGood(lEnabled, v, d, t, k), lErrorLogs' \in [LoggedRequests -> Nat]
    PROVE  Logs!TypeOK' /\ AllFine'
<1>1. Shaped'
  <2>1. /\ lWrapper' = [q \in LoggedRequests |-> lWrapper'[q]]
        /\ lChunks' = [q \in LoggedRequests |-> lChunks'[q]]
        /\ lSpool' = [q \in LoggedRequests |-> lSpool'[q]]
        /\ lLog' = [q \in LoggedRequests |-> lLog'[q]]
    BY DEF AllGood, Shaped, Moves
  <2>2. lEnabled' \in BOOLEAN /\ lToggles' \in 0..MaxToggles
    BY DEF AllGood, Shaped, Moves
  <2> QED BY <2>1, <2>2 DEF Shaped
<1>2. /\ lWrapper'[r] = v /\ lChunks'[r] = d /\ lSpool'[r] = t /\ lLog'[r] = k
      /\ lEnabled' = lEnabled
      /\ \A q \in LoggedRequests \ {r} : /\ lWrapper'[q] = lWrapper[q] /\ lChunks'[q] = lChunks[q]
                                         /\ lSpool'[q] = lSpool[q] /\ lLog'[q] = lLog[q]
  BY DEF AllGood, Shaped, Moves
<1>3. \A q \in LoggedRequests : GoodNext(q)
  <2>1. GoodNext(r)
    BY <1>2 DEF GoodNext
  <2>2. ASSUME NEW q \in LoggedRequests \ {r} PROVE GoodNext(q)
    BY <1>2 DEF GoodNext, GoodNow, AllGood
  <2> QED BY <2>1, <2>2
<1> QED BY <1>1, <1>3, NextLogTypesAre DEF GoodNext, RequestGood, AllFine

(* What does not change is set to what it is.                               *)
LEMMA Unmoved ==
    ASSUME Shaped, NEW r \in LoggedRequests
    PROVE  /\ lWrapper = [lWrapper EXCEPT ![r] = lWrapper[r]]
           /\ lChunks = [lChunks EXCEPT ![r] = lChunks[r]]
           /\ lSpool = [lSpool EXCEPT ![r] = lSpool[r]] /\ lLog = [lLog EXCEPT ![r] = lLog[r]]
           /\ lErrorLogs \in [LoggedRequests -> Nat] /\ lEnabled \in BOOLEAN
BY DEF Shaped

LEMMA WrapStep ==
    ASSUME AllGood, NEW r \in LoggedRequests, Logs!Wrap(r)
    PROVE  Logs!TypeOK' /\ AllFine'
<1> DEFINE off == ~ lEnabled
           v == [lWrapper[r] EXCEPT !.stage = "handling", !.errorOnly = off]
<1>1. RequestGood(lEnabled, lWrapper[r], lChunks[r], lSpool[r], lLog[r])
  BY DEF AllGood, GoodNow
<1>2. lEnabled \in BOOLEAN /\ off \in BOOLEAN /\ (off <=> ~ lEnabled)
  BY DEF AllGood, Shaped
<1>3. lWrapper[r].stage = "new"
  BY DEF Logs!Wrap, Logs!Stage
<1>4. Moves(r, v, lChunks[r], lSpool[r], lLog[r]) /\ lErrorLogs' = lErrorLogs
  BY Unmoved DEF AllGood, Moves, Logs!Wrap
<1> HIDE DEF off
<1>5. RequestGood(lEnabled, v, lChunks[r], lSpool[r], lLog[r])
  BY <1>1, <1>2, <1>3, WrapGood
<1> HIDE DEF v
<1> QED BY <1>4, <1>5, MoveGood, Unmoved DEF AllGood

LEMMA WriteHeaderStep ==
    ASSUME AllGood, NEW r \in LoggedRequests, NEW status \in {Logs!OK, Logs!Failed},
           NEW sse \in BOOLEAN, Logs!WriteHeader(r, status, sse)
    PROVE  Logs!TypeOK' /\ AllFine'
<1> DEFINE v == [lWrapper[r] EXCEPT !.status = status, !.sse = sse,
                                    !.stage = IF sse /\ lEnabled THEN "opening" ELSE @]
<1>1. RequestGood(lEnabled, lWrapper[r], lChunks[r], lSpool[r], lLog[r])
  BY DEF AllGood, GoodNow
<1>2. lWrapper[r].sent = 0
  <2>1. lWrapper[r].sent \in Nat
    BY <1>1, LogBounds DEF RequestGood, Typed, Wrapper
  <2>2. ~ (lWrapper[r].sent > 0)
    BY DEF Logs!WriteHeader
  <2> QED BY <2>1, <2>2
<1>3. lWrapper[r].stage = "handling" /\ lWrapper[r].status = Logs!NoStatus
  BY DEF Logs!WriteHeader, Logs!Stage
<1>4. Moves(r, v, lChunks[r], lSpool[r], lLog[r]) /\ lErrorLogs' = lErrorLogs
  BY Unmoved DEF AllGood, Moves, Logs!WriteHeader
<1>5. RequestGood(lEnabled, v, lChunks[r], lSpool[r], lLog[r])
  BY <1>1, <1>2, <1>3, WriteHeaderGood, Unmoved DEF AllGood
<1> HIDE DEF v
<1> QED BY <1>4, <1>5, MoveGood, Unmoved DEF AllGood

LEMMA OpenStreamLogStep ==
    ASSUME AllGood, NEW r \in LoggedRequests, Logs!OpenStreamLog(r)
    PROVE  Logs!TypeOK' /\ AllFine'
<1>1. RequestGood(lEnabled, lWrapper[r], lChunks[r], lSpool[r], lLog[r])
  BY DEF AllGood, GoodNow
<1>2. lWrapper[r].stage = "opening" /\ lErrorLogs' = lErrorLogs
  BY DEF Logs!OpenStreamLog, Logs!Stage
<1>3. lEnabled
  BY <1>1, <1>2 DEF RequestGood, RequestFine, StageFine, Logged
<1>4. PICK kind \in {"file", "none"} :
        /\ lWrapper' = [lWrapper EXCEPT ![r].stage = "handling", ![r].writer = kind]
        /\ lChunks' = [lChunks EXCEPT ![r] = IF kind = "none" THEN @ ELSE Logs!NewPipe]
        /\ lSpool' = IF kind = "file"
                     THEN [lSpool EXCEPT ![r].open = TRUE, ![r].goroutine = "running",
                                         ![r].temps = {"request", "response"}]
                     ELSE lSpool
        /\ lEnabled' = lEnabled /\ lToggles' = lToggles /\ lLog' = lLog
  BY <1>3 DEF Logs!OpenStreamLog
<1>5. CASE kind = "none"
  <2> DEFINE v == [lWrapper[r] EXCEPT !.stage = "handling", !.writer = "none"]
  <2>1. Moves(r, v, lChunks[r], lSpool[r], lLog[r])
    BY <1>4, <1>5, Unmoved DEF AllGood, Moves
  <2>2. RequestGood(lEnabled, v, lChunks[r], lSpool[r], lLog[r])
    BY <1>1, <1>2, OpenFailsGood, Unmoved DEF AllGood
  <2> HIDE DEF v
  <2> QED BY <1>2, <2>1, <2>2, MoveGood, Unmoved DEF AllGood
<1>6. CASE kind = "file"
  <2> DEFINE v == [lWrapper[r] EXCEPT !.stage = "handling", !.writer = "file"]
             t == [lSpool[r] EXCEPT !.open = TRUE, !.goroutine = "running",
                                    !.temps = {"request", "response"}]
  <2>1. Moves(r, v, Logs!NewPipe, t, lLog[r])
    BY <1>4, <1>6, Unmoved DEF AllGood, Moves
  <2>2. RequestGood(lEnabled, v, Logs!NewPipe, t, lLog[r])
    BY <1>1, <1>2, OpenGood, Unmoved DEF AllGood
  <2> HIDE DEF v, t
  <2> QED BY <1>2, <2>1, <2>2, MoveGood, Unmoved DEF AllGood
<1> QED BY <1>4, <1>5, <1>6

LEMMA WriteStep ==
    ASSUME AllGood, NEW r \in LoggedRequests, Logs!Write(r)
    PROVE  Logs!TypeOK' /\ AllFine'
<1> DEFINE w == lWrapper[r]
           c == lChunks[r]
<1>1. RequestGood(lEnabled, w, c, lSpool[r], lLog[r])
  BY DEF AllGood, GoodNow
<1>2. w.stage = "handling" /\ w.sent < MaxWrites /\ lErrorLogs' = lErrorLogs
  BY DEF Logs!Write, Logs!Stage
<1>3. CASE w.sse /\ c.open
  <2> DEFINE v == [w EXCEPT !.sent = w.sent + 1]
             d == IF Len(c.queue) < Buffer THEN [c EXCEPT !.queue = Append(@, w.sent + 1)] ELSE c
  <2>1. w \in Wrapper
    BY <1>1 DEF RequestGood, Typed
  <2>2. [w EXCEPT !.sent = w.sent + 1, !.body = w.body] = v
    BY <2>1 DEF Wrapper
  <2>3. Moves(r, v, d, lSpool[r], lLog[r])
    <3>1. lWrapper' = [lWrapper EXCEPT ![r] = [w EXCEPT !.sent = w.sent + 1, !.body = w.body]]
      BY <1>3 DEF Logs!Write
    <3>2. lChunks' = [lChunks EXCEPT ![r] = d]
      BY <1>3, Unmoved DEF Logs!Write, AllGood
    <3> QED BY <2>2, <3>1, <3>2, Unmoved DEF AllGood, Moves, Logs!Write
  <2>4. RequestGood(lEnabled, v, d, lSpool[r], lLog[r])
    BY <1>1, <1>2, <1>3, StreamWriteGood, Unmoved DEF AllGood
  <2> HIDE DEF v, d
  <2> QED BY <1>2, <2>3, <2>4, MoveGood, Unmoved DEF AllGood
<1>4. CASE ~ (w.sse /\ c.open)
  <2> DEFINE body == IF Logs!ShouldBufferBody(r) THEN Append(w.body, w.sent + 1) ELSE w.body
             v == [w EXCEPT !.sent = w.sent + 1, !.body = body]
  <2>1. Moves(r, v, c, lSpool[r], lLog[r])
    BY <1>4, Unmoved DEF AllGood, Moves, Logs!Write
  <2>2. body \in {w.body, Append(w.body, w.sent + 1)}
    OBVIOUS
  <2>3. lEnabled => body = Append(w.body, w.sent + 1)
    BY DEF Logs!ShouldBufferBody
  <2> HIDE DEF body
  <2>4. RequestGood(lEnabled, v, c, lSpool[r], lLog[r])
    BY <1>1, <1>2, <1>4, <2>2, <2>3, PlainWriteGood, Unmoved DEF AllGood
  <2> HIDE DEF v
  <2> QED BY <1>2, <2>1, <2>4, MoveGood, Unmoved DEF AllGood
<1> QED BY <1>3, <1>4

LEMMA ReturnStep ==
    ASSUME AllGood, NEW r \in LoggedRequests, Logs!Return(r)
    PROVE  Logs!TypeOK' /\ AllFine'
<1> DEFINE v == [lWrapper[r] EXCEPT !.stage = "finalizing"]
<1>1. RequestGood(lEnabled, lWrapper[r], lChunks[r], lSpool[r], lLog[r])
  BY DEF AllGood, GoodNow
<1>2. lWrapper[r].stage = "handling"
  BY DEF Logs!Return, Logs!Stage
<1>3. Moves(r, v, lChunks[r], lSpool[r], lLog[r]) /\ lErrorLogs' = lErrorLogs
  BY Unmoved DEF AllGood, Moves, Logs!Return
<1>4. RequestGood(lEnabled, v, lChunks[r], lSpool[r], lLog[r])
  BY <1>1, <1>2, ReturnGood, Unmoved DEF AllGood
<1> HIDE DEF v
<1> QED BY <1>3, <1>4, MoveGood, Unmoved DEF AllGood

LEMMA CarryStep ==
    ASSUME AllGood, NEW r \in LoggedRequests, Logs!Carry(r)
    PROVE  Logs!TypeOK' /\ AllFine'
<1> DEFINE w == lWrapper[r]
           c == lChunks[r]
           s == lSpool[r]
           d == [c EXCEPT !.queue = Tail(@)]
           t == IF w.writer = "file" /\ Len(s.queue) < Buffer
                THEN [s EXCEPT !.queue = Append(@, Head(c.queue))] ELSE s
<1>1. RequestGood(lEnabled, w, c, s, lLog[r])
  BY DEF AllGood, GoodNow
<1>2. c.goroutine = "running" /\ c.queue # <<>> /\ lErrorLogs' = lErrorLogs
  BY DEF Logs!Carry
<1>3. Moves(r, w, d, t, lLog[r])
  <2>1. lSpool' = [lSpool EXCEPT ![r] = t]
    BY Unmoved DEF Logs!Carry, AllGood
  <2>2. lChunks' = [lChunks EXCEPT ![r] = d]
    BY DEF Logs!Carry
  <2> HIDE DEF d, t
  <2> QED BY <2>1, <2>2, Unmoved DEF AllGood, Moves, Logs!Carry
<1>4. RequestGood(lEnabled, w, d, t, lLog[r])
  BY <1>1, <1>2, CarryGood, Unmoved DEF AllGood
<1> HIDE DEF d, t
<1> QED BY <1>2, <1>3, <1>4, MoveGood, Unmoved DEF AllGood

LEMMA CarrierEndsStep ==
    ASSUME AllGood, NEW r \in LoggedRequests, Logs!CarrierEnds(r)
    PROVE  Logs!TypeOK' /\ AllFine'
<1> DEFINE d == [lChunks[r] EXCEPT !.goroutine = "ended"]
<1>1. RequestGood(lEnabled, lWrapper[r], lChunks[r], lSpool[r], lLog[r])
  BY DEF AllGood, GoodNow
<1>2. Moves(r, lWrapper[r], d, lSpool[r], lLog[r]) /\ lErrorLogs' = lErrorLogs
  BY Unmoved DEF AllGood, Moves, Logs!CarrierEnds
<1>3. RequestGood(lEnabled, lWrapper[r], d, lSpool[r], lLog[r])
  BY <1>1, CarrierEndsGood, Unmoved DEF AllGood, Logs!CarrierEnds
<1> HIDE DEF d
<1> QED BY <1>2, <1>3, MoveGood, Unmoved DEF AllGood

LEMMA SpoolChunkStep ==
    ASSUME AllGood, NEW r \in LoggedRequests, Logs!SpoolChunk(r)
    PROVE  Logs!TypeOK' /\ AllFine'
<1> DEFINE s == lSpool[r]
<1>1. RequestGood(lEnabled, lWrapper[r], lChunks[r], s, lLog[r])
  BY DEF AllGood, GoodNow
<1>2. s.goroutine = "running" /\ s.queue # <<>> /\ lErrorLogs' = lErrorLogs
  BY DEF Logs!SpoolChunk
<1>3. PICK fails \in BOOLEAN :
        /\ s.broken => fails
        /\ lSpool' = [lSpool EXCEPT ![r].queue = Tail(@), ![r].broken = fails,
                         ![r].file = IF fails THEN @ ELSE Append(@, Head(s.queue))]
  BY DEF Logs!SpoolChunk
<1> DEFINE t == [s EXCEPT !.queue = Tail(@), !.broken = fails,
                          !.file = IF fails THEN @ ELSE Append(@, Head(s.queue))]
<1>4. Moves(r, lWrapper[r], lChunks[r], t, lLog[r])
  <2>1. lSpool' = [lSpool EXCEPT ![r] = t]
    BY <1>3 DEF AllGood, Shaped
  <2> HIDE DEF t
  <2> QED BY <2>1, Unmoved DEF AllGood, Moves, Logs!SpoolChunk
<1>5. RequestGood(lEnabled, lWrapper[r], lChunks[r], t, lLog[r])
  BY <1>1, <1>2, <1>3, SpoolChunkGood, Unmoved DEF AllGood
<1> HIDE DEF t
<1> QED BY <1>2, <1>4, <1>5, MoveGood, Unmoved DEF AllGood

LEMMA SpoolerEndsStep ==
    ASSUME AllGood, NEW r \in LoggedRequests, Logs!SpoolerEnds(r)
    PROVE  Logs!TypeOK' /\ AllFine'
<1> DEFINE s == lSpool[r]
<1>1. RequestGood(lEnabled, lWrapper[r], lChunks[r], s, lLog[r])
  BY DEF AllGood, GoodNow
<1>2. s.goroutine = "running" /\ s.queue = <<>> /\ ~ s.open /\ lErrorLogs' = lErrorLogs
  BY DEF Logs!SpoolerEnds
<1>3. PICK fails \in BOOLEAN :
        /\ s.broken => fails
        /\ lSpool' = [lSpool EXCEPT ![r].goroutine = "ended", ![r].broken = fails]
  BY DEF Logs!SpoolerEnds
<1> DEFINE t == [s EXCEPT !.goroutine = "ended", !.broken = fails]
<1>4. Moves(r, lWrapper[r], lChunks[r], t, lLog[r])
  <2>1. lSpool' = [lSpool EXCEPT ![r] = t]
    BY <1>3 DEF AllGood, Shaped
  <2> HIDE DEF t
  <2> QED BY <2>1, Unmoved DEF AllGood, Moves, Logs!SpoolerEnds
<1>5. RequestGood(lEnabled, lWrapper[r], lChunks[r], t, lLog[r])
  BY <1>1, <1>2, <1>3, SpoolerEndsGood, Unmoved DEF AllGood
<1> HIDE DEF t
<1> QED BY <1>2, <1>4, <1>5, MoveGood, Unmoved DEF AllGood

LEMMA FinalizeStep ==
    ASSUME AllGood, NEW r \in LoggedRequests, Logs!Finalize(r)
    PROVE  Logs!TypeOK' /\ AllFine'
<1> DEFINE w == lWrapper[r]
           c == lChunks[r]
           force == w.errorOnly /\ w.status = Logs!Failed /\ ~ lEnabled
           next == IF ~ lEnabled /\ ~ force THEN "done"
                   ELSE IF w.sse /\ w.writer # "none" THEN "draining" ELSE "logging"
           open == c.open /\ next # "draining"
           v == [w EXCEPT !.stage = next, !.force = force]
           d == [c EXCEPT !.open = open]
<1>1. RequestGood(lEnabled, w, c, lSpool[r], lLog[r])
  BY DEF AllGood, GoodNow
<1>2. w.stage = "finalizing" /\ lErrorLogs' = lErrorLogs
  BY DEF Logs!Finalize, Logs!Stage
<1>3. Moves(r, v, d, lSpool[r], lLog[r])
  <2>1. lWrapper' = [lWrapper EXCEPT ![r] = v] /\ lChunks' = [lChunks EXCEPT ![r] = d]
    BY Zenon DEF Logs!Finalize
  <2> HIDE DEF v, d
  <2> QED BY <2>1, Unmoved DEF AllGood, Moves, Logs!Finalize
<1>4. lEnabled \in BOOLEAN /\ force \in BOOLEAN /\ open \in BOOLEAN
  BY Unmoved DEF AllGood
<1>5. RequestGood(lEnabled, v, d, lSpool[r], lLog[r])
  <2>1. (force <=> w.errorOnly /\ w.status = Logs!Failed /\ ~ lEnabled)
        /\ (open <=> c.open /\ next # "draining")
    OBVIOUS
  <2> HIDE DEF force
  <2>2. next = IF ~ lEnabled /\ ~ force THEN "done"
               ELSE IF w.sse /\ w.writer # "none" THEN "draining" ELSE "logging"
    OBVIOUS
  <2> HIDE DEF next, open
  <2>3. v = [w EXCEPT !.stage = next, !.force = force] /\ d = [c EXCEPT !.open = open]
    OBVIOUS
  <2> HIDE DEF v, d, w, c
  <2> QED BY <1>1, <1>2, <1>4, <2>1, <2>2, <2>3, FinalizeGood
<1> HIDE DEF v, d
<1> QED BY <1>2, <1>3, <1>5, MoveGood, Unmoved DEF AllGood

LEMMA CloseWriterStep ==
    ASSUME AllGood, NEW r \in LoggedRequests, Logs!CloseWriter(r)
    PROVE  Logs!TypeOK' /\ AllFine'
<1> DEFINE v == [lWrapper[r] EXCEPT !.stage = IF lWrapper[r].writer = "file"
                                              THEN "closing" ELSE "done"]
           t == [lSpool[r] EXCEPT !.open = FALSE]
<1>1. RequestGood(lEnabled, lWrapper[r], lChunks[r], lSpool[r], lLog[r])
  BY DEF AllGood, GoodNow
<1>2. lWrapper[r].stage = "draining" /\ lChunks[r].goroutine = "ended"
  BY DEF Logs!CloseWriter, Logs!Stage
<1>3. Moves(r, v, lChunks[r], t, lLog[r]) /\ lErrorLogs' = lErrorLogs
  BY Unmoved DEF AllGood, Moves, Logs!CloseWriter
<1>4. RequestGood(lEnabled, v, lChunks[r], t, lLog[r])
  BY <1>1, <1>2, CloseWriterGood, Unmoved DEF AllGood
<1> HIDE DEF v, t
<1> QED BY <1>3, <1>4, MoveGood, Unmoved DEF AllGood

LEMMA AssembleLogStep ==
    ASSUME AllGood, NEW r \in LoggedRequests, Logs!AssembleLog(r)
    PROVE  Logs!TypeOK' /\ AllFine'
<1>1. RequestGood(lEnabled, lWrapper[r], lChunks[r], lSpool[r], lLog[r])
  BY DEF AllGood, GoodNow
<1>2. /\ lWrapper[r].stage = "closing" /\ lSpool[r].goroutine = "ended"
      /\ lErrorLogs' = lErrorLogs
  BY DEF Logs!AssembleLog, Logs!Stage
<1>3. PICK written \in BOOLEAN :
        /\ lSpool[r].broken => ~ written
        /\ lLog' = [lLog EXCEPT ![r] = IF written THEN lSpool[r].file ELSE @]
  BY DEF Logs!AssembleLog
<1> DEFINE v == [lWrapper[r] EXCEPT !.stage = "assembling"]
           k == IF written THEN lSpool[r].file ELSE lLog[r]
<1>4. Moves(r, v, lChunks[r], lSpool[r], k)
  BY <1>3, Unmoved DEF AllGood, Moves, Logs!AssembleLog
<1>5. RequestGood(lEnabled, v, lChunks[r], lSpool[r], k)
  BY <1>1, <1>2, <1>3, AssembleLogGood, Unmoved DEF AllGood
<1> HIDE DEF v, k
<1> QED BY <1>2, <1>4, <1>5, MoveGood, Unmoved DEF AllGood

LEMMA CleanupTempFilesStep ==
    ASSUME AllGood, NEW r \in LoggedRequests, Logs!CleanupTempFiles(r)
    PROVE  Logs!TypeOK' /\ AllFine'
<1> DEFINE v == [lWrapper[r] EXCEPT !.stage = "done"]
           t == [lSpool[r] EXCEPT !.temps = {}]
<1>1. RequestGood(lEnabled, lWrapper[r], lChunks[r], lSpool[r], lLog[r])
  BY DEF AllGood, GoodNow
<1>2. lWrapper[r].stage = "assembling"
  BY DEF Logs!CleanupTempFiles, Logs!Stage
<1>3. Moves(r, v, lChunks[r], t, lLog[r]) /\ lErrorLogs' = lErrorLogs
  BY Unmoved DEF AllGood, Moves, Logs!CleanupTempFiles
<1>4. RequestGood(lEnabled, v, lChunks[r], t, lLog[r])
  BY <1>1, <1>2, CleanupGood, Unmoved DEF AllGood
<1> HIDE DEF v, t
<1> QED BY <1>3, <1>4, MoveGood, Unmoved DEF AllGood

(* The ages of the error logs stay numbers.                                 *)
LEMMA AgesAreNumbers ==
    ASSUME Shaped, NEW r \in LoggedRequests
    PROVE  /\ Logs!WrittenTo(r) \in [LoggedRequests -> Nat]
           /\ Logs!ErrorLogs \subseteq LoggedRequests /\ Logs!Excess \subseteq Logs!ErrorLogs
<1>1. \A q \in LoggedRequests : lErrorLogs[q] \in Nat
  BY DEF Shaped
<1> QED BY <1>1 DEF Logs!WrittenTo, Logs!ErrorLogs, Logs!Excess

LEMMA OpenLogStep ==
    ASSUME AllGood, NEW r \in LoggedRequests, Logs!OpenLog(r)
    PROVE  Logs!TypeOK' /\ AllFine'
<1>1. RequestGood(lEnabled, lWrapper[r], lChunks[r], lSpool[r], lLog[r])
  BY DEF AllGood, GoodNow
<1>2. lWrapper[r].stage = "logging"
  BY DEF Logs!OpenLog, Logs!Stage
<1>3. lErrorLogs' \in [LoggedRequests -> Nat]
  BY AgesAreNumbers, Unmoved, Zenon DEF Logs!OpenLog, AllGood
<1>4. CASE lWrapper' = [lWrapper EXCEPT ![r].stage = "done"] /\ lSpool' = lSpool
  <2> DEFINE v == [lWrapper[r] EXCEPT !.stage = "done"]
  <2>1. Moves(r, v, lChunks[r], lSpool[r], lLog[r])
    BY <1>4, Unmoved DEF AllGood, Moves, Logs!OpenLog
  <2>2. RequestGood(lEnabled, v, lChunks[r], lSpool[r], lLog[r])
    BY <1>1, <1>2, NoLogGood, Unmoved DEF AllGood
  <2> HIDE DEF v
  <2> QED BY <1>3, <2>1, <2>2, MoveGood
<1>5. CASE /\ lWrapper' = [lWrapper EXCEPT ![r].stage = "writing"]
           /\ \E temps \in {{}, {"request"}} : lSpool' = [lSpool EXCEPT ![r].temps = temps]
  <2>1. PICK temps \in {{}, {"request"}} : lSpool' = [lSpool EXCEPT ![r].temps = temps]
    BY <1>5
  <2> DEFINE v == [lWrapper[r] EXCEPT !.stage = "writing"]
             t == [lSpool[r] EXCEPT !.temps = temps]
  <2>2. Moves(r, v, lChunks[r], t, lLog[r])
    BY <1>5, <2>1, Unmoved DEF AllGood, Moves, Logs!OpenLog
  <2>3. RequestGood(lEnabled, v, lChunks[r], t, lLog[r])
    BY <1>1, <1>2, OpenLogGood, Unmoved DEF AllGood
  <2> HIDE DEF v, t
  <2> QED BY <1>3, <2>2, <2>3, MoveGood
<1> QED BY <1>4, <1>5, Zenon DEF Logs!OpenLog

LEMMA WriteLogStep ==
    ASSUME AllGood, NEW r \in LoggedRequests, Logs!WriteLog(r)
    PROVE  Logs!TypeOK' /\ AllFine'
<1> DEFINE w == lWrapper[r]
           v == [w EXCEPT !.stage = IF w.force /\ ~ lEnabled THEN "listing" ELSE "done"]
           t == [lSpool[r] EXCEPT !.temps = IF v.stage = "done" THEN {} ELSE @]
<1>1. RequestGood(lEnabled, w, lChunks[r], lSpool[r], lLog[r])
  BY DEF AllGood, GoodNow
<1>2. w.stage = "writing"
  BY DEF Logs!WriteLog, Logs!Stage
<1>3. lErrorLogs' \in [LoggedRequests -> Nat]
  BY AgesAreNumbers, Unmoved, Zenon DEF Logs!WriteLog, AllGood
<1>4. /\ lWrapper' = [lWrapper EXCEPT ![r].stage =
                         IF w.force /\ ~ lEnabled THEN "listing" ELSE "done"]
      /\ lLog' = [lLog EXCEPT ![r] = w.body]
  BY DEF Logs!WriteLog
<1>5. lWrapper' = [lWrapper EXCEPT ![r] = v] /\ lWrapper'[r] = v
  BY <1>4 DEF AllGood, Shaped
<1>6. lSpool' = [lSpool EXCEPT ![r] = t]
  <2> HIDE DEF v
  <2> QED BY <1>5 DEF Logs!WriteLog
<1>7. Moves(r, v, lChunks[r], t, w.body)
  <2> HIDE DEF v, t
  <2> QED BY <1>4, <1>5, <1>6, Unmoved DEF AllGood, Moves, Logs!WriteLog
<1>8. RequestGood(lEnabled, v, lChunks[r], t, w.body)
  <2>1. v = [w EXCEPT !.stage = IF w.force /\ ~ lEnabled THEN "listing" ELSE "done"]
    OBVIOUS
  <2> HIDE DEF v
  <2>2. t = [lSpool[r] EXCEPT !.temps = IF v.stage = "done" THEN {} ELSE @]
    OBVIOUS
  <2>3. lEnabled \in BOOLEAN
    BY Unmoved DEF AllGood
  <2> HIDE DEF t, w
  <2> QED BY ONLY <1>1, <1>2, <2>1, <2>2, <2>3, WriteLogGood
<1> HIDE DEF v, t
<1> QED BY <1>3, <1>7, <1>8, MoveGood

LEMMA ListErrorLogsStep ==
    ASSUME AllGood, NEW r \in LoggedRequests, Logs!ListErrorLogs(r)
    PROVE  Logs!TypeOK' /\ AllFine'
<1> DEFINE victims == Logs!Excess
           v == [lWrapper[r] EXCEPT !.stage = "removing", !.victims = victims]
<1>1. RequestGood(lEnabled, lWrapper[r], lChunks[r], lSpool[r], lLog[r])
  BY DEF AllGood, GoodNow
<1>2. lWrapper[r].stage = "listing"
  BY DEF Logs!ListErrorLogs, Logs!Stage
<1>3. victims \in SUBSET LoggedRequests
  BY AgesAreNumbers DEF AllGood
<1>4. Moves(r, v, lChunks[r], lSpool[r], lLog[r]) /\ lErrorLogs' = lErrorLogs
  <2>1. lWrapper' = [lWrapper EXCEPT ![r] = v]
    BY Zenon DEF Logs!ListErrorLogs
  <2> HIDE DEF v
  <2> QED BY <2>1, Unmoved DEF AllGood, Moves, Logs!ListErrorLogs
<1> HIDE DEF victims
<1>5. RequestGood(lEnabled, v, lChunks[r], lSpool[r], lLog[r])
  BY <1>1, <1>2, <1>3, ListErrorLogsGood, Unmoved DEF AllGood
<1> HIDE DEF v
<1> QED BY <1>4, <1>5, MoveGood, Unmoved DEF AllGood

LEMMA RemoveErrorLogsStep ==
    ASSUME AllGood, NEW r \in LoggedRequests, Logs!RemoveErrorLogs(r)
    PROVE  Logs!TypeOK' /\ AllFine'
<1> DEFINE v == [lWrapper[r] EXCEPT !.stage = "done", !.victims = {}]
           t == [lSpool[r] EXCEPT !.temps = {}]
<1>1. RequestGood(lEnabled, lWrapper[r], lChunks[r], lSpool[r], lLog[r])
  BY DEF AllGood, GoodNow
<1>2. lWrapper[r].stage = "removing"
  BY DEF Logs!RemoveErrorLogs, Logs!Stage
<1>3. Moves(r, v, lChunks[r], t, lLog[r])
  BY Unmoved DEF AllGood, Moves, Logs!RemoveErrorLogs
<1>4. lErrorLogs' \in [LoggedRequests -> Nat]
  <2>1. \A q \in LoggedRequests : lErrorLogs[q] \in Nat
    BY DEF AllGood, Shaped
  <2>2. lErrorLogs' = [q \in LoggedRequests |->
                          IF q \in lWrapper[r].victims THEN 0 ELSE lErrorLogs[q]]
    BY DEF Logs!RemoveErrorLogs
  <2> QED BY <2>1, <2>2
<1>5. RequestGood(lEnabled, v, lChunks[r], t, lLog[r])
  BY <1>1, <1>2, RemoveErrorLogsGood, Unmoved DEF AllGood
<1> HIDE DEF v, t
<1> QED BY <1>3, <1>4, <1>5, MoveGood

LEMMA SetEnabledStep ==
    ASSUME AllGood, Logs!SetEnabled
    PROVE  Logs!TypeOK' /\ AllFine'
<1> DEFINE off == ~ lEnabled
<1>1. /\ lEnabled' = off /\ lToggles' = lToggles + 1 /\ lToggles < MaxToggles
      /\ lWrapper' = lWrapper /\ lChunks' = lChunks /\ lSpool' = lSpool /\ lLog' = lLog
      /\ lErrorLogs' = lErrorLogs
  BY DEF Logs!SetEnabled
<1>2. /\ \A r \in LoggedRequests : ~ (lEnabled /\ Logs!IsLogged(r))
      /\ \A r \in LoggedRequests : ~ (~ lEnabled /\ Logs!WritesErrorLog(r))
  BY DEF Logs!SetEnabled
<1>3. lEnabled \in BOOLEAN /\ off \in BOOLEAN /\ (off <=> ~ lEnabled)
  BY DEF AllGood, Shaped
<1>4. Shaped'
  <2>1. lToggles + 1 \in 0..MaxToggles
    BY <1>1, LogBounds DEF AllGood, Shaped
  <2> HIDE DEF off
  <2> QED BY <1>1, <1>3, <2>1 DEF AllGood, Shaped
<1>5. ASSUME NEW r \in LoggedRequests PROVE GoodNext(r)
  <2>1. RequestGood(lEnabled, lWrapper[r], lChunks[r], lSpool[r], lLog[r])
    BY DEF AllGood, GoodNow
  <2>2. ~ (lEnabled /\ Logged(lWrapper[r]))
    BY <1>2, Zenon DEF Logs!IsLogged, Logged, Logs!Stage
  <2>3. ~ (~ lEnabled /\ lWrapper[r].force
             /\ lWrapper[r].stage \in {"logging", "writing", "listing"})
    BY <1>2, Zenon DEF Logs!WritesErrorLog
  <2> HIDE DEF off
  <2>4. RequestGood(off, lWrapper[r], lChunks[r], lSpool[r], lLog[r])
    BY <1>3, <2>1, <2>2, <2>3, SetEnabledGood
  <2> QED BY <1>1, <2>4 DEF GoodNext
<1> QED BY <1>4, <1>5, NextLogTypesAre DEF GoodNext, RequestGood, AllFine

-----------------------------------------------------------------------------
(* The error logs.                                                          *)
LEMMA ErrorLogsAreFew ==
    /\ IsFiniteSet(Logs!ErrorLogs) /\ Cardinality(Logs!ErrorLogs) \in Nat
    /\ \A V : Cardinality(Logs!ErrorLogs \ V) \in Nat
    /\ \A V : Cardinality(Logs!ErrorLogs \ V) <= Cardinality(Logs!ErrorLogs)
<1>1. Logs!ErrorLogs \in SUBSET LoggedRequests
  BY DEF Logs!ErrorLogs
<1>2. IsFiniteSet(Logs!ErrorLogs)
  BY <1>1, LogBounds, FS_Subset
<1>3. ASSUME NEW V
      PROVE  /\ IsFiniteSet(Logs!ErrorLogs \ V)
             /\ Cardinality(Logs!ErrorLogs \ V) <= Cardinality(Logs!ErrorLogs)
  <2>1. Logs!ErrorLogs \ V \in SUBSET Logs!ErrorLogs
    OBVIOUS
  <2> QED BY <1>2, <2>1, FS_Subset
<1> QED BY <1>2, <1>3, FS_CardinalityType

(* What was written to last is the youngest; the order stays.               *)
LEMMA WrittenToFine ==
    ASSUME Shaped, AgesApart, NEW r \in LoggedRequests, lErrorLogs' = Logs!WrittenTo(r)
    PROVE  AgesApart' /\ Logs!ErrorLogs' = Logs!ErrorLogs \cup {r}
<1>1. \A q \in LoggedRequests :
         /\ lErrorLogs[q] \in Nat
         /\ lErrorLogs'[q] = IF q = r THEN 1
                             ELSE IF q \in Logs!ErrorLogs THEN lErrorLogs[q] + 1 ELSE 0
  BY DEF Shaped, Logs!WrittenTo
<1>2. \A q \in LoggedRequests : q \in Logs!ErrorLogs <=> lErrorLogs[q] > 0
  BY DEF Logs!ErrorLogs
<1>3. \A q \in LoggedRequests : lErrorLogs'[q] > 0 <=> q \in Logs!ErrorLogs \cup {r}
  BY <1>1, <1>2
<1>4. Logs!ErrorLogs' = Logs!ErrorLogs \cup {r}
  <2>1. Logs!ErrorLogs' = {q \in LoggedRequests : lErrorLogs'[q] > 0}
    BY DEF Logs!ErrorLogs
  <2>2. Logs!ErrorLogs \subseteq LoggedRequests
    BY DEF Logs!ErrorLogs
  <2> QED BY <1>3, <2>1, <2>2
<1>5. ASSUME NEW p \in Logs!ErrorLogs', NEW q \in Logs!ErrorLogs', lErrorLogs'[p] = lErrorLogs'[q]
      PROVE  p = q
  <2>1. p \in LoggedRequests /\ q \in LoggedRequests
    BY DEF Logs!ErrorLogs
  <2>2. p # r => p \in Logs!ErrorLogs /\ lErrorLogs'[p] = lErrorLogs[p] + 1
    BY <1>1, <1>4, <2>1
  <2>3. q # r => q \in Logs!ErrorLogs /\ lErrorLogs'[q] = lErrorLogs[q] + 1
    BY <1>1, <1>4, <2>1
  <2>4. lErrorLogs'[r] = 1
    BY <1>1
  <2>5. (p = r) <=> (q = r)
    BY <1>1, <1>2, <1>5, <2>1, <2>2, <2>3, <2>4
  <2>6. p # r => lErrorLogs[p] = lErrorLogs[q]
    BY <1>1, <1>5, <2>1, <2>2, <2>3, <2>5
  <2> QED BY <2>2, <2>3, <2>5, <2>6 DEF AgesApart
<1>6. AgesApart'
  BY <1>5 DEF AgesApart
<1> QED BY <1>4, <1>6

LEMMA RemovedFine ==
    ASSUME Shaped, AgesApart, NEW V,
           lErrorLogs' = [q \in LoggedRequests |-> IF q \in V THEN 0 ELSE lErrorLogs[q]]
    PROVE  AgesApart' /\ Logs!ErrorLogs' = Logs!ErrorLogs \ V
<1>1. \A q \in LoggedRequests :
         lErrorLogs[q] \in Nat /\ lErrorLogs'[q] = IF q \in V THEN 0 ELSE lErrorLogs[q]
  BY DEF Shaped
<1>2. \A q \in LoggedRequests : q \in Logs!ErrorLogs <=> lErrorLogs[q] > 0
  BY DEF Logs!ErrorLogs
<1>3. \A q \in LoggedRequests : lErrorLogs'[q] > 0 <=> q \in Logs!ErrorLogs \ V
  BY <1>1, <1>2
<1>4. Logs!ErrorLogs' = Logs!ErrorLogs \ V
  <2>1. Logs!ErrorLogs' = {q \in LoggedRequests : lErrorLogs'[q] > 0}
    BY DEF Logs!ErrorLogs
  <2>2. Logs!ErrorLogs \subseteq LoggedRequests
    BY DEF Logs!ErrorLogs
  <2> QED BY <1>3, <2>1, <2>2
<1>5. AgesApart'
  <2>1. \A q \in Logs!ErrorLogs' : q \in Logs!ErrorLogs /\ lErrorLogs'[q] = lErrorLogs[q]
    <3>1. \A q \in Logs!ErrorLogs : q \in LoggedRequests
      BY DEF Logs!ErrorLogs
    <3> QED BY <1>1, <1>4, <3>1
  <2> QED BY <2>1 DEF AgesApart
<1> QED BY <1>4, <1>5

(* Who listed the error logs leaves few enough.                             *)
LEMMA ExcessLeavesFew ==
    ASSUME Shaped, AgesApart, MaxErrorLogs # 0
    PROVE  Cardinality(Logs!ErrorLogs \ Logs!Excess) <= MaxErrorLogs
<1> DEFINE S == Logs!ErrorLogs
           younger(x) == {y \in S : lErrorLogs[y] < lErrorLogs[x]}
<1>1. MaxErrorLogs \in Nat /\ MaxErrorLogs > 0
  BY LogBounds
<1>2. \A x \in S : lErrorLogs[x] \in Nat
  BY DEF Shaped, Logs!ErrorLogs
<1>3. \A x \in S : Logs!Newer(x) = Cardinality(younger(x))
  BY SameLogCounting, Zenon DEF Logs!Newer
<1>4. \A x \in S : Cardinality(younger(x)) \in Nat
  <2> SUFFICES ASSUME NEW x \in S PROVE Cardinality(younger(x)) \in Nat
    OBVIOUS
  <2>1. younger(x) \in SUBSET S
    OBVIOUS
  <2> HIDE DEF younger, S
  <2> QED BY <2>1, ErrorLogsAreFew, FS_Subset, FS_CardinalityType DEF S
<1>5. S \ Logs!Excess = {x \in S : Cardinality(younger(x)) < MaxErrorLogs}
  <2>1. \A x \in S : x \in Logs!Excess <=> Cardinality(younger(x)) >= MaxErrorLogs
    <3> HIDE DEF younger
    <3> QED BY <1>1, <1>3 DEF Logs!Excess
  <2> HIDE DEF younger, S
  <2> QED BY <1>1, <1>4, <2>1
<1>6. \A x, y \in S : lErrorLogs[x] = lErrorLogs[y] => x = y
  BY DEF AgesApart
<1>7. IsFiniteSet(S)
  BY ErrorLogsAreFew
<1>8. Cardinality({x \in S : Cardinality({y \in S : lErrorLogs[y] < lErrorLogs[x]}) < MaxErrorLogs})
        <= MaxErrorLogs
  <2> HIDE DEF S
  <2> QED BY ONLY <1>1, <1>2, <1>6, <1>7, FewNewest
<1> QED BY <1>5, <1>8

Cleans(w) == \/ w.force /\ w.stage \in {"writing", "listing"}
             \/ w.stage = "removing"

(* Whoever has not begun to clean or goes on as he was leaves the others to *)
(* it.                                                                      *)
LEMMA OthersClean ==
    ASSUME SomebodyCleans, Logs!ErrorLogs' \subseteq Logs!ErrorLogs,
           \A q \in LoggedRequests : lWrapper'[q] = lWrapper[q] \/ ~ Cleans(lWrapper[q])
    PROVE  SomebodyCleans'
<1> DEFINE E == Logs!ErrorLogs
           F == Logs!ErrorLogs'
<1>1. ASSUME NEW V
      PROVE  /\ Cardinality(F \ V) \in Nat /\ Cardinality(E \ V) \in Nat
             /\ Cardinality(F \ V) <= Cardinality(E \ V)
  <2>1. IsFiniteSet(E \ V)
    <3>1. E \ V \in SUBSET E /\ IsFiniteSet(E)
      BY ErrorLogsAreFew
    <3> HIDE DEF E
    <3> QED BY <3>1, FS_Subset
  <2>2. F \ V \in SUBSET (E \ V)
    OBVIOUS
  <2> HIDE DEF E, F
  <2> QED BY <2>1, <2>2, FS_Subset, FS_CardinalityType
<1>2. MaxErrorLogs \in Nat
  BY LogBounds
<1>3. CASE Cardinality(E) <= MaxErrorLogs
  <2>1. PICK V : V = {}
    OBVIOUS
  <2>2. E \ V = E /\ F \ V = F
    BY <2>1
  <2>3. Cardinality(E \ V) <= MaxErrorLogs
    BY <1>3, <2>2, Zenon
  <2>4. Cardinality(F \ V) <= MaxErrorLogs
    <3> HIDE DEF E, F
    <3> QED BY <1>1, <1>2, <2>3
  <2>5. Cardinality(F) <= MaxErrorLogs
    BY <2>2, <2>4, Zenon
  <2> QED BY <2>5 DEF SomebodyCleans
<1>4. ASSUME NEW r \in LoggedRequests, lWrapper[r].force,
             lWrapper[r].stage \in {"writing", "listing"}
      PROVE  SomebodyCleans'
  <2>1. lWrapper'[r] = lWrapper[r]
    BY <1>4 DEF Cleans
  <2> QED BY <1>4, <2>1 DEF SomebodyCleans
<1>5. ASSUME NEW r \in LoggedRequests, lWrapper[r].stage = "removing",
             Cardinality(E \ lWrapper[r].victims) <= MaxErrorLogs
      PROVE  SomebodyCleans'
  <2>1. lWrapper'[r] = lWrapper[r]
    BY <1>5 DEF Cleans
  <2>2. Cardinality(F \ lWrapper[r].victims) <= MaxErrorLogs
    <3> HIDE DEF E, F
    <3> QED BY <1>1, <1>2, <1>5
  <2> QED BY <1>5, <2>1, <2>2 DEF SomebodyCleans
<1>6. CASE MaxErrorLogs = 0
  BY <1>6 DEF SomebodyCleans
<1> QED BY <1>3, <1>4, <1>5, <1>6 DEF SomebodyCleans

(* A step that leaves the error logs alone, of a request that does not      *)
(* clean.                                                                   *)
LEMMA RestClean ==
    ASSUME AgesApart, SomebodyCleans, lErrorLogs' = lErrorLogs,
           \A q \in LoggedRequests : lWrapper'[q] = lWrapper[q] \/ ~ Cleans(lWrapper[q])
    PROVE  AgesApart' /\ SomebodyCleans'
<1>1. Logs!ErrorLogs' = Logs!ErrorLogs
  BY DEF Logs!ErrorLogs
<1>2. AgesApart'
  BY <1>1 DEF AgesApart
<1> QED BY <1>1, <1>2, OthersClean

(* The first error log of a request is written to by one that cleans then.  *)
LEMMA OpenLogCleans ==
    ASSUME AllGood, AgesApart, SomebodyCleans, NEW r \in LoggedRequests, Logs!OpenLog(r)
    PROVE  AgesApart' /\ SomebodyCleans'
<1>1. lWrapper[r].stage = "logging"
  BY DEF Logs!OpenLog, Logs!Stage
<1>2. \A q \in LoggedRequests : lWrapper'[q] = lWrapper[q] \/ ~ Cleans(lWrapper[q])
  <2>1. \A q \in LoggedRequests \ {r} : lWrapper'[q] = lWrapper[q]
    BY DEF Logs!OpenLog, AllGood, Shaped
  <2> QED BY <1>1, <2>1 DEF Cleans
<1>3. CASE lErrorLogs' = lErrorLogs
  BY <1>2, <1>3, RestClean
<1>4. CASE lErrorLogs' # lErrorLogs
  <2>1. /\ lWrapper' = [lWrapper EXCEPT ![r].stage = "writing"]
        /\ lErrorLogs' = Logs!WrittenTo(r) /\ lWrapper[r].force
    BY <1>4, Zenon DEF Logs!OpenLog
  <2>2. AgesApart'
    BY <2>1, WrittenToFine DEF AllGood
  <2>3. lWrapper'[r].force /\ lWrapper'[r].stage = "writing"
    <3>1. lWrapper'[r] = [lWrapper[r] EXCEPT !.stage = "writing"]
      BY <2>1 DEF AllGood, Shaped
    <3>2. lWrapper[r] \in Wrapper
      BY DEF AllGood, GoodNow, RequestGood, Typed
    <3> QED BY <2>1, <3>1, <3>2 DEF Wrapper
  <2>4. SomebodyCleans'
    BY <2>3 DEF SomebodyCleans
  <2> QED BY <2>2, <2>4
<1> QED BY <1>3, <1>4

LEMMA WriteLogCleans ==
    ASSUME AllGood, AgesApart, SomebodyCleans, NEW r \in LoggedRequests, Logs!WriteLog(r)
    PROVE  AgesApart' /\ SomebodyCleans'
<1>1. lWrapper[r] \in Wrapper /\ lWrapper[r].stage = "writing"
  BY DEF Logs!WriteLog, Logs!Stage, AllGood, GoodNow, RequestGood, Typed
<1>2. lWrapper' = [lWrapper EXCEPT ![r].stage =
                      IF lWrapper[r].force /\ ~ lEnabled THEN "listing" ELSE "done"]
  BY DEF Logs!WriteLog
<1>3. lErrorLogs' = IF r \in Logs!ErrorLogs THEN Logs!WrittenTo(r) ELSE lErrorLogs
  BY DEF Logs!WriteLog
<1>4. /\ AgesApart'
      /\ Logs!ErrorLogs' = Logs!ErrorLogs
  <2>1. CASE r \in Logs!ErrorLogs
    BY <1>3, <2>1, WrittenToFine DEF AllGood
  <2>2. CASE r \notin Logs!ErrorLogs
    BY <1>3, <2>2 DEF AgesApart, Logs!ErrorLogs
  <2> QED BY <2>1, <2>2
<1>5. CASE lWrapper[r].force
  <2>1. ~ lEnabled
    BY <1>1, <1>5 DEF AllGood, GoodNow, RequestGood, RequestFine, StageFine
  <2>2. lWrapper'[r] = [lWrapper[r] EXCEPT !.stage = "listing"]
    BY <1>2, <1>5, <2>1 DEF AllGood, Shaped
  <2>3. lWrapper'[r].force /\ lWrapper'[r].stage = "listing"
    BY <1>1, <1>5, <2>2 DEF Wrapper
  <2>4. SomebodyCleans'
    BY <2>3 DEF SomebodyCleans
  <2> QED BY <1>4, <2>4
<1>6. CASE ~ lWrapper[r].force
  <2>1. \A q \in LoggedRequests \ {r} : lWrapper'[q] = lWrapper[q]
    BY <1>2 DEF AllGood, Shaped
  <2>2. ~ Cleans(lWrapper[r])
    BY <1>1, <1>6 DEF Cleans
  <2> QED BY <1>4, <2>1, <2>2, OthersClean
<1> QED BY <1>5, <1>6

LEMMA ListErrorLogsCleans ==
    ASSUME AllGood, AgesApart, SomebodyCleans, NEW r \in LoggedRequests, Logs!ListErrorLogs(r)
    PROVE  AgesApart' /\ SomebodyCleans'
<1>1. lWrapper' = [lWrapper EXCEPT ![r].stage = "removing", ![r].victims = Logs!Excess]
  BY DEF Logs!ListErrorLogs
<1>2. lErrorLogs' = lErrorLogs /\ Logs!ErrorLogs' = Logs!ErrorLogs
  BY DEF Logs!ListErrorLogs, Logs!ErrorLogs
<1>3. AgesApart'
  BY <1>2 DEF AgesApart
<1>4. lWrapper'[r].stage = "removing" /\ lWrapper'[r].victims = Logs!Excess
  <2>1. lWrapper[r] \in Wrapper
    BY DEF AllGood, GoodNow, RequestGood, Typed
  <2> DEFINE victims == Logs!Excess
  <2>2. lWrapper'[r] = [lWrapper[r] EXCEPT !.stage = "removing", !.victims = victims]
    BY <1>1 DEF AllGood, Shaped
  <2> HIDE DEF victims
  <2>3. lWrapper'[r].stage = "removing" /\ lWrapper'[r].victims = victims
    BY <2>1, <2>2 DEF Wrapper
  <2> QED BY <2>3 DEF victims
<1>5. MaxErrorLogs # 0 => Cardinality(Logs!ErrorLogs \ Logs!Excess) <= MaxErrorLogs
  BY ExcessLeavesFew DEF AllGood
<1>6. MaxErrorLogs # 0 =>
        Cardinality(Logs!ErrorLogs' \ lWrapper'[r].victims) <= MaxErrorLogs
  BY <1>2, <1>4, <1>5, Zenon
<1>7. SomebodyCleans'
  BY <1>4, <1>6 DEF SomebodyCleans
<1> QED BY <1>3, <1>7

LEMMA RemoveErrorLogsCleans ==
    ASSUME AllGood, AgesApart, SomebodyCleans, NEW r \in LoggedRequests, Logs!RemoveErrorLogs(r)
    PROVE  AgesApart' /\ SomebodyCleans'
<1> DEFINE V == lWrapper[r].victims
<1>1. lWrapper[r].stage = "removing"
  BY DEF Logs!RemoveErrorLogs, Logs!Stage
<1>2. lErrorLogs' = [q \in LoggedRequests |-> IF q \in V THEN 0 ELSE lErrorLogs[q]]
  BY DEF Logs!RemoveErrorLogs
<1>3. AgesApart' /\ Logs!ErrorLogs' = Logs!ErrorLogs \ V
  <2> HIDE DEF V
  <2> QED BY <1>2, RemovedFine DEF AllGood
<1>4. \A q \in LoggedRequests \ {r} : lWrapper'[q] = lWrapper[q]
  BY DEF Logs!RemoveErrorLogs, AllGood, Shaped
<1>5. CASE Cardinality(Logs!ErrorLogs \ V) <= MaxErrorLogs
  <2>1. Cardinality(Logs!ErrorLogs') <= MaxErrorLogs
    BY <1>3, <1>5, Zenon
  <2> QED BY <1>3, <2>1 DEF SomebodyCleans
<1>6. CASE ~ (Cardinality(Logs!ErrorLogs \ V) <= MaxErrorLogs)
  <2> DEFINE E == Logs!ErrorLogs
             F == Logs!ErrorLogs'
  <2>1. ASSUME NEW U
        PROVE  /\ Cardinality(F \ U) \in Nat /\ Cardinality(E \ U) \in Nat
               /\ Cardinality(F \ U) <= Cardinality(E \ U)
    <3>1. IsFiniteSet(E \ U)
      <4>1. E \ U \in SUBSET E /\ IsFiniteSet(E)
        BY ErrorLogsAreFew
      <4> HIDE DEF E
      <4> QED BY <4>1, FS_Subset
    <3>2. F \ U \in SUBSET (E \ U)
      BY <1>3
    <3> HIDE DEF E, F, V
    <3> QED BY <3>1, <3>2, FS_Subset, FS_CardinalityType
  <2>2. ~ (Cardinality(E) <= MaxErrorLogs)
    <3>1. Cardinality(E \ V) \in Nat /\ Cardinality(E) \in Nat /\ Cardinality(E \ V) <= Cardinality(E)
      BY ErrorLogsAreFew
    <3> HIDE DEF E, V
    <3> QED BY <1>6, <3>1, LogBounds DEF E
  <2>3. CASE MaxErrorLogs = 0
    BY <1>3, <2>3 DEF SomebodyCleans
  <2>4. ASSUME NEW q \in LoggedRequests, lWrapper[q].force,
               lWrapper[q].stage \in {"writing", "listing"}
        PROVE  SomebodyCleans'
    <3>1. lWrapper'[q] = lWrapper[q]
      BY <1>1, <1>4, <2>4
    <3> QED BY <2>4, <3>1 DEF SomebodyCleans
  <2>5. ASSUME NEW q \in LoggedRequests, lWrapper[q].stage = "removing",
               Cardinality(E \ lWrapper[q].victims) <= MaxErrorLogs
        PROVE  SomebodyCleans'
    <3>1. q # r
      BY <1>6, <2>5
    <3>2. lWrapper'[q] = lWrapper[q]
      BY <1>4, <3>1
    <3>3. Cardinality(F \ lWrapper[q].victims) <= MaxErrorLogs
      <4> DEFINE U == lWrapper[q].victims
      <4>1. Cardinality(E \ U) <= MaxErrorLogs /\ MaxErrorLogs \in Nat
        BY <2>5, LogBounds
      <4> HIDE DEF E, F, U
      <4>2. Cardinality(F \ U) <= MaxErrorLogs
        BY <2>1, <4>1
      <4> QED BY <4>2 DEF U
    <3> QED BY <2>5, <3>2, <3>3 DEF SomebodyCleans
  <2>6. SomebodyCleans'
    BY <2>2, <2>3, <2>4, <2>5 DEF SomebodyCleans
  <2> QED BY <1>3, <2>6
<1> QED BY <1>5, <1>6

(* Every step keeps the invariant.                                          *)
LEMMA LogInvNext ==
    ASSUME LogInv, [Logs!Next]_(Logs!vars)
    PROVE  LogInv'
<1> DEFINE Fine == (Logs!TypeOK /\ AllFine)'
           Clean == (AgesApart /\ SomebodyCleans)'
<1>1. AllGood /\ AgesApart /\ SomebodyCleans
  BY LogTypesAre DEF LogInv, AllGood, AllFine, GoodNow, RequestGood
<1>2. ASSUME lErrorLogs' = lErrorLogs,
             \A q \in LoggedRequests : lWrapper'[q] = lWrapper[q] \/ ~ Cleans(lWrapper[q])
      PROVE  Clean
  BY <1>1, <1>2, RestClean
<1>3. ASSUME NEW r \in LoggedRequests, lErrorLogs' = lErrorLogs,
             NEW w, lWrapper' = [lWrapper EXCEPT ![r] = w], ~ Cleans(lWrapper[r])
      PROVE  Clean
  <2>1. \A q \in LoggedRequests \ {r} : lWrapper'[q] = lWrapper[q]
    BY <1>1, <1>3 DEF AllGood, Shaped
  <2> QED BY <1>2, <1>3, <2>1
<1>4. CASE Logs!SetEnabled
  <2>1. lErrorLogs' = lErrorLogs /\ lWrapper' = lWrapper
    BY <1>4 DEF Logs!SetEnabled
  <2> QED BY <1>1, <1>2, <1>4, <2>1, SetEnabledStep DEF LogInv
<1>5. ASSUME NEW r \in LoggedRequests, Logs!Wrap(r) PROVE LogInv'
  <2>1. Clean
    BY <1>1, <1>3, <1>5 DEF Logs!Wrap, Logs!Stage, Cleans
  <2> QED BY <1>1, <1>5, <2>1, WrapStep DEF LogInv
<1>6. ASSUME NEW r \in LoggedRequests, Logs!OpenStreamLog(r) PROVE LogInv'
  <2>1. PICK kind : lWrapper' = [lWrapper EXCEPT ![r].stage = "handling", ![r].writer = kind]
    BY <1>6 DEF Logs!OpenStreamLog
  <2>2. lErrorLogs' = lErrorLogs /\ ~ Cleans(lWrapper[r])
    BY <1>6 DEF Logs!OpenStreamLog, Logs!Stage, Cleans
  <2>3. Clean
    BY <1>3, <2>1, <2>2
  <2> QED BY <1>1, <1>6, <2>3, OpenStreamLogStep DEF LogInv
<1>7. ASSUME NEW r \in LoggedRequests, Logs!Write(r) PROVE LogInv'
  <2>1. PICK w : lWrapper' = [lWrapper EXCEPT ![r] = w]
    BY <1>7 DEF Logs!Write
  <2>2. lErrorLogs' = lErrorLogs /\ ~ Cleans(lWrapper[r])
    BY <1>7 DEF Logs!Write, Logs!Stage, Cleans
  <2>3. Clean
    BY <1>3, <2>1, <2>2
  <2> QED BY <1>1, <1>7, <2>3, WriteStep DEF LogInv
<1>8. ASSUME NEW r \in LoggedRequests, Logs!Return(r) PROVE LogInv'
  <2>1. Clean
    BY <1>1, <1>3, <1>8 DEF Logs!Return, Logs!Stage, Cleans
  <2> QED BY <1>1, <1>8, <2>1, ReturnStep DEF LogInv
<1>9. ASSUME NEW r \in LoggedRequests, Logs!Goroutines(r) PROVE LogInv'
  <2>1. lErrorLogs' = lErrorLogs /\ lWrapper' = lWrapper
    BY <1>9 DEF Logs!Goroutines, Logs!Carry, Logs!CarrierEnds, Logs!SpoolChunk, Logs!SpoolerEnds
  <2>2. Clean
    BY <1>2, <2>1
  <2>3. Fine
    BY <1>1, <1>9, CarryStep, CarrierEndsStep, SpoolChunkStep, SpoolerEndsStep DEF Logs!Goroutines
  <2> QED BY <2>2, <2>3 DEF LogInv
<1>10. ASSUME NEW r \in LoggedRequests, Logs!Finalize(r) PROVE LogInv'
  <2>1. PICK w : lWrapper' = [lWrapper EXCEPT ![r] = w]
    BY <1>10 DEF Logs!Finalize
  <2>2. lErrorLogs' = lErrorLogs /\ ~ Cleans(lWrapper[r])
    BY <1>10 DEF Logs!Finalize, Logs!Stage, Cleans
  <2>3. Clean
    BY <1>3, <2>1, <2>2
  <2> QED BY <1>1, <1>10, <2>3, FinalizeStep DEF LogInv
<1>11. ASSUME NEW r \in LoggedRequests,
              Logs!CloseWriter(r) \/ Logs!AssembleLog(r) \/ Logs!CleanupTempFiles(r)
       PROVE  LogInv'
  <2>1. PICK stage : lWrapper' = [lWrapper EXCEPT ![r].stage = stage]
    BY <1>11 DEF Logs!CloseWriter, Logs!AssembleLog, Logs!CleanupTempFiles
  <2>2. lErrorLogs' = lErrorLogs /\ ~ Cleans(lWrapper[r])
    BY <1>11 DEF Logs!CloseWriter, Logs!AssembleLog, Logs!CleanupTempFiles, Logs!Stage, Cleans
  <2>3. Clean
    BY <1>3, <2>1, <2>2
  <2>4. Fine
    BY <1>1, <1>11, CloseWriterStep, AssembleLogStep, CleanupTempFilesStep
  <2> QED BY <2>3, <2>4 DEF LogInv
<1>12. ASSUME NEW r \in LoggedRequests,
              \/ Logs!OpenLog(r) \/ Logs!WriteLog(r)
              \/ Logs!ListErrorLogs(r) \/ Logs!RemoveErrorLogs(r)
       PROVE  LogInv'
  <2>1. Clean
    BY <1>1, <1>12, OpenLogCleans, WriteLogCleans, ListErrorLogsCleans, RemoveErrorLogsCleans
  <2>2. Fine
    BY <1>1, <1>12, OpenLogStep, WriteLogStep, ListErrorLogsStep, RemoveErrorLogsStep
  <2> QED BY <2>1, <2>2 DEF LogInv
<1>13. ASSUME NEW r \in LoggedRequests, NEW status \in {Logs!OK, Logs!Failed}, NEW sse \in BOOLEAN,
              Logs!WriteHeader(r, status, sse)
       PROVE  LogInv'
  <2>1. PICK w : lWrapper' = [lWrapper EXCEPT ![r] = w]
    BY <1>13 DEF Logs!WriteHeader
  <2>2. lErrorLogs' = lErrorLogs /\ ~ Cleans(lWrapper[r])
    BY <1>13 DEF Logs!WriteHeader, Logs!Stage, Cleans
  <2>3. Clean
    BY <1>3, <2>1, <2>2
  <2> QED BY <1>1, <1>13, <2>3, WriteHeaderStep DEF LogInv
<1>14. CASE UNCHANGED Logs!vars
  BY <1>14 DEF Logs!vars, LogInv, Logs!TypeOK, AllFine, AgesApart, SomebodyCleans, Logs!ErrorLogs
<1>15. ASSUME NEW r \in LoggedRequests, Logs!Finish(r) PROVE LogInv'
  BY <1>10, <1>11, <1>12, <1>15 DEF Logs!Finish
<1> HIDE DEF Fine, Clean
<1>16. CASE Logs!Next
  BY <1>4, <1>5, <1>6, <1>7, <1>8, <1>9, <1>13, <1>15, <1>16 DEF Logs!Next
<1> QED BY <1>14, <1>16

(* What the invariant says of the logs.                                     *)
LEMMA LogInvTells ==
    ASSUME LogInv
    PROVE  /\ Logs!TypeOK /\ Logs!LogHoldsAnswer
           /\ Logs!NothingLeftBehind /\ Logs!ErrorLogsBounded
<1>1. \A r \in LoggedRequests : GoodNow(r)
  BY LogTypesAre DEF LogInv, AllFine, GoodNow, RequestGood
<1>2. Logs!LogHoldsAnswer
  <2> SUFFICES ASSUME NEW r \in LoggedRequests, lLog[r] # Logs!Unlogged,
                      ~ lWrapper[r].errorOnly
               PROVE  /\ \A i, j \in DOMAIN lLog[r] : i < j => lLog[r][i] < lLog[r][j]
                      /\ 1..(IF lWrapper[r].sent < Buffer THEN lWrapper[r].sent ELSE Buffer)
                            \subseteq Logs!ToSet(lLog[r])
    BY Zenon DEF Logs!LogHoldsAnswer
  <2>1. Rising(lLog[r]) /\ Covers(lWrapper[r].sent, Logs!ToSet(lLog[r]))
    BY <1>1 DEF GoodNow, RequestGood, RequestFine, LogFine
  <2>2. lLog[r] \in Seq(0..MaxWrites) /\ lWrapper[r].sent \in Nat /\ Buffer \in Nat
    BY <1>1, LogBounds DEF GoodNow, RequestGood, Typed, Wrapper
  <2> DEFINE q == lLog[r]
             n == lWrapper[r].sent
             S == Logs!ToSet(lLog[r])
  <2>3. ASSUME NEW i \in DOMAIN q, NEW j \in DOMAIN q, i < j PROVE q[i] < q[j]
    <3>1. i \in Nat /\ j \in Nat /\ q[i] \in Nat /\ q[j] \in Nat
      BY <2>2, LogBounds
    <3>2. q[j] - q[i] >= j - i
      BY <2>1, <2>3, <3>1 DEF Rising
    <3> HIDE DEF q
    <3> QED BY <2>3, <3>1, <3>2
  <2>4. 1..(IF n < Buffer THEN n ELSE Buffer) \subseteq S
    <3>1. n \in Nat /\ Buffer \in Nat /\ \A k \in 1..n : k <= Buffer => k \in S
      BY <2>1, <2>2 DEF Covers
    <3> HIDE DEF n, S
    <3> QED BY <3>1
  <2> QED BY <2>3, <2>4
<1>3. Logs!NothingLeftBehind
  <2> SUFFICES ASSUME NEW r \in LoggedRequests, lWrapper[r].stage = "done"
               PROVE  /\ lSpool[r].temps = {} /\ lChunks[r].goroutine # "running"
                      /\ lSpool[r].goroutine # "running"
    BY Zenon DEF Logs!NothingLeftBehind, Logs!Stage
  <2>1. lWrapper[r].writer \in {"none", "file"}
    BY <1>1 DEF GoodNow, RequestGood, RequestFine, StageFine, Typed, Wrapper
  <2>2. PipeFine(lWrapper[r], lChunks[r], lSpool[r])
    BY <1>1 DEF GoodNow, RequestGood, RequestFine
  <2> QED BY <2>1, <2>2 DEF PipeFine, Logs!NoPipe
<1>4. Logs!ErrorLogsBounded
  <2> SUFFICES ASSUME MaxErrorLogs > 0,
                      \A r \in LoggedRequests :
                         lWrapper[r].stage \notin {"logging", "writing", "listing", "removing"}
               PROVE  Cardinality(Logs!ErrorLogs) <= MaxErrorLogs
    BY SameLogCounting, Zenon DEF Logs!ErrorLogsBounded
  <2>1. MaxErrorLogs # 0
    BY LogBounds
  <2>2. SomebodyCleans
    BY DEF LogInv
  <2> QED BY <2>1, <2>2, Zenon DEF SomebodyCleans
<1> QED BY <1>2, <1>3, <1>4 DEF LogInv

(* A step of the composition is a step of the logs or leaves them alone.    *)
LEMMA LogStep ==
    ASSUME [AnswersNext]_<<part, vars, stream, logs>>
    PROVE  [Logs!Next]_(Logs!vars)
BY DEF AnswersNext, ConductorPart, StreamPart, LogPart, logs, Logs!vars

(* However requests overlap and whatever fails of a stream's files: a log   *)
(* that was finished holds each chunk once and in order, and all of the     *)
(* first ones; no temporary file and no goroutine outlives its request; and *)
(* when nobody works on the error logs there are no more than the limit.    *)
THEOREM LogsStayKept == AnswersSpec => []LogsKept
<1>1. AnswersInit => LogInv
  BY LogInvInit DEF AnswersInit
<1>2. LogInv /\ [AnswersNext]_<<part, vars, stream, logs>> => LogInv'
  BY LogStep, LogInvNext
<1>3. LogInv => LogsKept
  BY LogInvTells DEF LogsKept
<1> QED BY <1>1, <1>2, <1>3, PTL DEF AnswersSpec
=============================================================================
