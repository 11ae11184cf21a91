--------------------------- MODULE SubsystemsProofs ---------------------------
(***************************************************************************)
(* Proofs about the subsystems beside each other (Subsystems), for every   *)
(* value of their constants.  RegistryLock: the registry's mutex locks up  *)
(* by the nested lock of GetFirstAvailableModel only.                      *)
(* CircuitBreaker: its counters and clocks keep their ranges.  Each of     *)
(* ConfigReload, WsRelay, Usage and CodexSession has an inductive invariant *)
(* (ConfigInv, RelayInv, UsageInv, CodexInv), whose consequences PartsMove *)
(* carries over to the composition.                                        *)
(***************************************************************************)
EXTENDS Subsystems, NumberLemmas, TLAPS

-----------------------------------------------------------------------------
\* RegistryLock

(* The threads that query the registry with one lock operation.             *)
Queriers == Readers \cup Hooks

(* How often a chooser holds the read lock before each of its operations.   *)
Nested(n) == IF n \in {0, 1} THEN 0 ELSE IF n \in {3, 5} THEN 2 ELSE 1

(* The strengthening of OnlyNestingLocksUp: where each kind of thread can   *)
(* be, what it holds there, and what it waits for.                          *)
LockInv ==
    /\ TypeOK
    /\ \A t \in Queriers : /\ at[t] \in {0, 1, 2}
                           /\ holds[t] = IF at[t] = 2 THEN 1 ELSE 0
                           /\ t \in waiting => at[t] = 1
    /\ \A t \in Choosers : /\ at[t] \in 0..6
                           /\ holds[t] = Nested(at[t])
                           /\ t \in waiting => at[t] \in {1, 2, 4}
    /\ \A t \in Writers : /\ at[t] \in {0, 1, 2, 3}
                          /\ holds[t] = 0
                          /\ t \in waiting => at[t] = 1 /\ writer = t
                          /\ at[t] \in {2, 3} => writer = t
                          /\ at[t] \in {1, 2} => at[HookOf(t)] = 0
    /\ writer = NoWriter => waiting = {}
    /\ writer # NoWriter => at[writer] # 0 /\ (at[writer] = 1 => writer \in waiting)

(* The sequence of lock operations of each kind of thread. *)
LEMMA MethodOfQuerier ==
    ASSUME NEW t \in Queriers
    PROVE  Method(t) = <<"rlock", "runlock">>
<1>1. t \notin Writers /\ t \notin Choosers
  BY RolesAssumption DEF Queriers, Callers
<1> QED BY <1>1, Zenon DEF Method, Query

(* GetFirstAvailableModel's. *)
LEMMA MethodOfChooser ==
    ASSUME NEW t \in Choosers
    PROVE  Method(t) = <<"rlock", "rlock", "runlock", "rlock", "runlock", "runlock">>
<1>1. t \notin Writers
  BY RolesAssumption
<1> QED BY <1>1, Zenon DEF Method, GetFirstAvailableModel

(* A registration's. *)
LEMMA MethodOfWriter ==
    ASSUME NEW t \in Writers
    PROVE  Method(t) = <<"lock", "hook", "unlock">>
<1>1. t \notin Choosers
  BY RolesAssumption
<1> QED BY <1>1, Zenon DEF Method, RegisterClient

(* Where a query stands in its operations, and where a step takes it. *)
LEMMA QuerierStep ==
    ASSUME NEW t \in Queriers, at[t] \in {0, 1, 2}
    PROVE  /\ Doing(t, "rlock") <=> at[t] = 1 /\ t \notin waiting
           /\ Doing(t, "runlock") <=> at[t] = 2 /\ t \notin waiting
           /\ ~ Doing(t, "lock") /\ ~ Doing(t, "hook") /\ ~ Doing(t, "unlock")
           /\ at[t] = 1 => Following(t) = 2
           /\ at[t] = 2 => Following(t) = 0
           /\ at[t] # 0 => Method(t)[at[t]] # "lock"
<1> DEFINE steps == <<"rlock", "runlock">>
<1>1. Method(t) = steps
  BY MethodOfQuerier
<1>2. Len(steps) = 2 /\ steps[1] = "rlock" /\ steps[2] = "runlock"
  OBVIOUS
<1> HIDE DEF steps
<1>3. Len(Method(t)) = 2 /\ Method(t)[1] = "rlock" /\ Method(t)[2] = "runlock"
  BY <1>1, <1>2
<1> QED BY <1>3 DEF Doing, Following

(* The same for a chooser, ... *)
LEMMA ChooserStep ==
    ASSUME NEW t \in Choosers, at[t] \in 0..6
    PROVE  /\ Doing(t, "rlock") <=> at[t] \in {1, 2, 4} /\ t \notin waiting
           /\ Doing(t, "runlock") <=> at[t] \in {3, 5, 6} /\ t \notin waiting
           /\ ~ Doing(t, "lock") /\ ~ Doing(t, "hook") /\ ~ Doing(t, "unlock")
           /\ at[t] \in 1..5 => Following(t) = at[t] + 1
           /\ at[t] = 6 => Following(t) = 0
           /\ at[t] # 0 => Method(t)[at[t]] # "lock"
<1> DEFINE steps == <<"rlock", "rlock", "runlock", "rlock", "runlock", "runlock">>
<1>1. Method(t) = steps
  BY MethodOfChooser
<1>2. /\ Len(steps) = 6
      /\ steps[1] = "rlock" /\ steps[2] = "rlock" /\ steps[3] = "runlock"
      /\ steps[4] = "rlock" /\ steps[5] = "runlock" /\ steps[6] = "runlock"
  OBVIOUS
<1> HIDE DEF steps
<1>3. /\ Len(Method(t)) = 6
      /\ Method(t)[1] = "rlock" /\ Method(t)[2] = "rlock" /\ Method(t)[3] = "runlock"
      /\ Method(t)[4] = "rlock" /\ Method(t)[5] = "runlock" /\ Method(t)[6] = "runlock"
  BY <1>1, <1>2
<1>4. at[t] \in {0, 1, 2, 3, 4, 5, 6}
  OBVIOUS
<1> QED BY <1>3, <1>4 DEF Doing, Following

(* ... and for a registration. *)
LEMMA WriterStep ==
    ASSUME NEW t \in Writers, at[t] \in {0, 1, 2, 3}
    PROVE  /\ Doing(t, "lock") <=> at[t] = 1 /\ t \notin waiting
           /\ Doing(t, "hook") <=> at[t] = 2 /\ t \notin waiting
           /\ Doing(t, "unlock") <=> at[t] = 3 /\ t \notin waiting
           /\ ~ Doing(t, "rlock") /\ ~ Doing(t, "runlock")
           /\ at[t] = 1 => Following(t) = 2
           /\ at[t] = 2 => Following(t) = 3
           /\ at[t] = 3 => Following(t) = 0
           /\ at[t] \in {2, 3} => Method(t)[at[t]] # "lock"
<1> DEFINE steps == <<"lock", "hook", "unlock">>
<1>1. Method(t) = steps
  BY MethodOfWriter
<1>2. Len(steps) = 3 /\ steps[1] = "lock" /\ steps[2] = "hook" /\ steps[3] = "unlock"
  OBVIOUS
<1> HIDE DEF steps
<1>3. /\ Len(Method(t)) = 3
      /\ Method(t)[1] = "lock" /\ Method(t)[2] = "hook" /\ Method(t)[3] = "unlock"
  BY <1>1, <1>2
<1> QED BY <1>3 DEF Doing, Following

(* No thread plays two parts. *)
LEMMA Roles ==
    /\ Threads = Queriers \cup Choosers \cup Writers
    /\ Queriers \cap Writers = {} /\ Queriers \cap Choosers = {} /\ Choosers \cap Writers = {}
    /\ NoWriter \notin Threads
    /\ \A w \in Writers : HookOf(w) \in Hooks /\ HookOf(w) \in Queriers
    /\ \A v, w \in Writers : HookOf(v) = HookOf(w) => v = w
BY RolesAssumption DEF Threads, Callers, Queriers, Hooks, HookOf

(* A chooser that goes on holds the lock once more, or once less. *)
LEMMA ChooserMoves ==
    ASSUME LockInv, NEW t \in Choosers, NEW n \in 0..6,
           at' = [at EXCEPT ![t] = n], holds' = [holds EXCEPT ![t] = Nested(n)],
           waiting' = waiting, writer' = writer, t \notin waiting
    PROVE  LockInv'
<1> USE Roles
<1>1. /\ \A s \in Threads : at'[s] = IF s = t THEN n ELSE at[s]
      /\ \A s \in Threads : holds'[s] = IF s = t THEN Nested(n) ELSE holds[s]
  BY DEF LockInv, TypeOK
<1>2. TypeOK'
  BY DEF LockInv, TypeOK, Nested
<1>3. \A s \in Queriers \cup Writers : s \in Threads /\ at'[s] = at[s] /\ holds'[s] = holds[s]
  BY <1>1
<1>4. \A s \in Choosers : /\ at'[s] \in 0..6
                          /\ holds'[s] = Nested(at'[s])
                          /\ s \in waiting => at'[s] \in {1, 2, 4}
  BY <1>1 DEF LockInv
<1>5. writer # NoWriter => writer \in Writers
  BY DEF LockInv, TypeOK
<1>6. \A w \in Writers : at'[HookOf(w)] = at[HookOf(w)]
  BY <1>3
<1> QED BY <1>2, <1>3, <1>4, <1>5, <1>6 DEF LockInv

(* Queries, choosers and registrations lock up in one way only: whenever    *)
(* anybody is in a method somebody can go on, or a chooser sleeps in an     *)
(* RLock inside its own read lock; for any number of each.                  *)
THEOREM LocksUpOnlyByNesting == Spec => []OnlyNestingLocksUp
<1>1. Init => LockInv
  BY Roles DEF Init, LockInv, TypeOK, Nested
<1>2. LockInv /\ [Next]_vars => LockInv'
  <2> SUFFICES ASSUME LockInv, [Next]_vars PROVE LockInv'
    OBVIOUS
  <2> USE Roles
  <2>1. ASSUME NEW t \in Callers, Call(t) PROVE LockInv'
    <3>1. t \in Threads /\ \A w \in Writers : HookOf(w) # t
      BY RolesAssumption DEF Threads
    <3>2. /\ at[t] = 0 /\ (t \in Writers => at[HookOf(t)] = 0)
          /\ at' = [at EXCEPT ![t] = 1] /\ UNCHANGED <<holds, writer, waiting>>
      BY <2>1 DEF Call
    <3>3. t \notin waiting /\ holds[t] = 0 /\ writer # t
      BY <3>1, <3>2 DEF LockInv, Nested
    <3>4. \A s \in Threads : at'[s] = IF s = t THEN 1 ELSE at[s]
      BY <3>1, <3>2 DEF LockInv, TypeOK
    <3>5. TypeOK'
      BY <3>1, <3>2 DEF LockInv, TypeOK
    <3>6. writer # NoWriter => writer \in Writers
      BY DEF LockInv, TypeOK
    <3> QED BY <3>1, <3>2, <3>3, <3>4, <3>5, <3>6 DEF LockInv, Nested
  <2>2. ASSUME NEW t \in Threads, RLock(t) PROVE LockInv'
    <3>1. CASE writer = NoWriter
      <4>1. /\ holds' = [holds EXCEPT ![t] = @ + 1] /\ at' = [at EXCEPT ![t] = Following(t)]
            /\ waiting' = waiting /\ writer' = writer /\ t \notin waiting
        BY <2>2, <3>1 DEF RLock, Advance, Doing
      <4>2. CASE t \in Queriers
        <5>1. at[t] = 1 /\ Following(t) = 2 /\ holds[t] = 0
          BY <2>2, <4>2, QuerierStep DEF RLock, LockInv
        <5> QED BY <3>1, <4>1, <4>2, <5>1 DEF LockInv, TypeOK
      <4>3. CASE t \in Choosers
        <5>1. /\ at[t] \in {1, 2, 4} /\ Following(t) = at[t] + 1 /\ at[t] + 1 \in 0..6
              /\ holds[t] = Nested(at[t]) /\ holds \in [Threads -> 0..2]
          BY <2>2, <4>3, ChooserStep DEF RLock, LockInv, TypeOK
        <5>2. holds[t] + 1 = Nested(at[t] + 1)
          BY <5>1 DEF Nested
        <5>3. holds' = [holds EXCEPT ![t] = Nested(at[t] + 1)]
          BY <4>1, <5>1, <5>2
        <5> QED BY <4>1, <4>3, <5>1, <5>3, ChooserMoves
      <4>4. t \notin Writers
        BY <2>2, WriterStep DEF RLock, LockInv
      <4> QED BY <4>2, <4>3, <4>4
    <3>2. CASE writer # NoWriter
      <4>1. waiting' = waiting \cup {t} /\ UNCHANGED <<holds, at, writer>>
        BY <2>2, <3>2 DEF RLock
      <4>2. \/ t \in Queriers /\ at[t] = 1
            \/ t \in Choosers /\ at[t] \in {1, 2, 4}
        BY <2>2, QuerierStep, ChooserStep, WriterStep DEF RLock, LockInv
      <4>3. writer \in Writers
        BY <3>2 DEF LockInv, TypeOK
      <4> QED BY <3>2, <4>1, <4>2, <4>3 DEF LockInv, TypeOK
    <3> QED BY <3>1, <3>2
  <2>3. ASSUME NEW t \in Threads, RUnlock(t) PROVE LockInv'
    <3>1. /\ holds' = [holds EXCEPT ![t] = @ - 1] /\ at' = [at EXCEPT ![t] = Following(t)]
          /\ waiting' = waiting /\ writer' = writer /\ t \notin waiting
      BY <2>3 DEF RUnlock, Advance, Doing
    <3>2. CASE t \in Queriers
      <4>1. at[t] = 2 /\ Following(t) = 0 /\ holds[t] = 1
        BY <2>3, <3>2, QuerierStep DEF RUnlock, LockInv
      <4>2. writer # NoWriter => writer \in Writers
        BY DEF LockInv, TypeOK
      <4> QED BY <3>1, <3>2, <4>1, <4>2 DEF LockInv, TypeOK
    <3>3. CASE t \in Choosers
      <4>1. /\ at[t] \in {3, 5, 6} /\ holds[t] = Nested(at[t]) /\ holds \in [Threads -> 0..2]
            /\ Following(t) \in 0..6 /\ holds[t] - 1 = Nested(Following(t))
        BY <2>3, <3>3, ChooserStep DEF RUnlock, LockInv, TypeOK, Nested
      <4>2. holds' = [holds EXCEPT ![t] = Nested(Following(t))]
        BY <3>1, <4>1
      <4> QED BY <3>1, <3>3, <4>1, <4>2, ChooserMoves
    <3>4. t \notin Writers
      BY <2>3, WriterStep DEF RUnlock, LockInv
    <3> QED BY <3>2, <3>3, <3>4
  <2>4. ASSUME NEW t \in Threads, Lock(t) PROVE LockInv'
    <3>1. t \in Writers /\ at[t] = 1
      BY <2>4, QuerierStep, ChooserStep, WriterStep DEF Lock, LockInv
    <3> QED BY <2>4, <3>1 DEF Lock, LockInv, TypeOK
  <2>5. ASSUME NEW t \in Threads, LockGranted(t) PROVE LockInv'
    <3>1. t \in Writers /\ at[t] = 1 /\ Following(t) = 2
      BY <2>5, WriterStep DEF LockGranted, LockInv, TypeOK
    <3> QED BY <2>5, <3>1 DEF LockGranted, Advance, LockInv, TypeOK
  <2>6. ASSUME NEW t \in Threads, TriggerHook(t) PROVE LockInv'
    <3>1. t \in Writers /\ at[t] = 2 /\ Following(t) = 3
      BY <2>6, QuerierStep, ChooserStep, WriterStep DEF TriggerHook, LockInv
    <3>2. HookOf(t) \in Queriers /\ HookOf(t) # t
      BY <3>1 DEF Queriers
    <3>3. at[HookOf(t)] = 0 /\ HookOf(t) \notin waiting /\ holds[HookOf(t)] = 0
      BY <3>1, <3>2 DEF LockInv
    <3>4. \A s \in Threads : at'[s] = IF s = t THEN 3 ELSE IF s = HookOf(t) THEN 1 ELSE at[s]
      BY <2>6, <3>1, <3>2 DEF TriggerHook, LockInv, TypeOK
    <3>5. UNCHANGED <<holds, writer, waiting>> /\ TypeOK'
      BY <2>6, <3>1, <3>2 DEF TriggerHook, LockInv, TypeOK
    <3>6. writer = t /\ NoWriter # t
      BY <3>1 DEF LockInv
    <3> QED BY <3>1, <3>2, <3>3, <3>4, <3>5, <3>6 DEF LockInv
  <2>7. ASSUME NEW t \in Threads, Unlock(t) PROVE LockInv'
    <3>1. t \in Writers /\ at[t] = 3 /\ Following(t) = 0 /\ writer = t
      BY <2>7, QuerierStep, ChooserStep, WriterStep DEF Unlock, LockInv
    <3>2. t \notin waiting
      BY <2>7 DEF Unlock, Doing
    <3>3. waiting \subseteq Queriers \cup Choosers
      BY <3>1, <3>2 DEF LockInv, TypeOK
    <3>4. \A s \in waiting \cap Queriers : at[s] = 1 /\ holds[s] = 0 /\ Following(s) = 2
      BY QuerierStep DEF LockInv
    <3>5. \A s \in waiting \cap Choosers : /\ at[s] \in {1, 2, 4} /\ Following(s) = at[s] + 1
                                           /\ holds[s] + 1 = Nested(at[s] + 1)
      BY ChooserStep DEF LockInv, Nested
    <3>6. /\ writer' = NoWriter /\ waiting' = {}
          /\ holds' = [s \in Threads |-> IF s \in waiting THEN holds[s] + 1 ELSE holds[s]]
          /\ at' = [s \in Threads |-> IF s \in waiting \cup {t} THEN Following(s) ELSE at[s]]
      BY <2>7 DEF Unlock
    <3>7. \A s \in Queriers : /\ at'[s] \in {0, 1, 2}
                              /\ holds'[s] = IF at'[s] = 2 THEN 1 ELSE 0
      BY <3>1, <3>4, <3>6 DEF LockInv
    <3>8. \A s \in Choosers : at'[s] \in 0..6 /\ holds'[s] = Nested(at'[s])
      BY <3>1, <3>5, <3>6 DEF LockInv
    <3>9. \A s \in Writers : /\ at'[s] = IF s = t THEN 0 ELSE at[s]
                             /\ holds'[s] = 0 /\ (s # t => at[s] \in {0, 1})
      BY <3>1, <3>2, <3>3, <3>6 DEF LockInv
    <3>10. \A w \in Writers \ {t} : at[w] = 1 => at'[HookOf(w)] = 0
      BY <3>1, <3>4, <3>6 DEF LockInv
    <3>11. TypeOK'
      BY <3>1, <3>6, <3>7, <3>8, <3>9 DEF TypeOK, Nested
    <3> QED BY <3>6, <3>7, <3>8, <3>9, <3>10, <3>11 DEF LockInv
  <2>8. CASE UNCHANGED vars
    BY <2>8 DEF vars, LockInv, TypeOK
  <2> QED BY <2>1, <2>2, <2>3, <2>4, <2>5, <2>6, <2>7, <2>8 DEF Next, Step
<1>3. LockInv => OnlyNestingLocksUp
  <2> SUFFICES ASSUME LockInv PROVE OnlyNestingLocksUp
    OBVIOUS
  <2> USE Roles
  <2>1. \A t \in waiting : /\ holds[t] # 0 => CaughtInside(t)
                           /\ writer = t => at[t] = 1
    BY DEF LockInv, TypeOK, CaughtInside, Nested
  <2>2. ASSUME NEW t \in Threads, at[t] # 0, t \notin waiting, t \notin Writers
        PROVE  MayGoOn(t)
    BY <2>2, QuerierStep, ChooserStep DEF LockInv, MayGoOn
  <2>3. ASSUME NEW t \in Threads, at[t] # 0
        PROVE  \E s \in Threads : MayGoOn(s) \/ CaughtInside(s)
    <3>1. CASE writer = NoWriter
      BY <2>3, <3>1 DEF LockInv, MayGoOn
    <3>2. CASE writer # NoWriter
      <4>1. writer \in Writers /\ writer \in Threads /\ at[writer] \in {1, 2, 3}
        BY <3>2 DEF LockInv, TypeOK
      <4>2. CASE at[writer] \in {2, 3}
        <5>1. writer \notin waiting
          BY <4>1, <4>2 DEF LockInv
        <5>2. MayGoOn(writer)
          BY <4>1, <4>2, <5>1, WriterStep DEF MayGoOn
        <5> QED BY <4>1, <5>2
      <4>3. CASE at[writer] = 1
        <5>1. writer \in waiting
          BY <3>2, <4>3 DEF LockInv
        <5>2. CASE \A s \in Threads : holds[s] = 0
          BY <4>1, <4>3, <5>1, <5>2 DEF MayGoOn
        <5>3. ASSUME NEW s \in Threads, holds[s] # 0 PROVE MayGoOn(s) \/ CaughtInside(s)
          <6>1. s \notin Writers /\ at[s] # 0
            BY <5>3 DEF LockInv, Nested
          <6> QED BY <2>1, <2>2, <5>3, <6>1
        <5> QED BY <5>2, <5>3
      <4> QED BY <4>1, <4>2, <4>3
    <3> QED BY <3>1, <3>2
  <2> QED BY <2>1, <2>3 DEF OnlyNestingLocksUp
<1> QED BY <1>1, <1>2, <1>3, PTL DEF Spec

-----------------------------------------------------------------------------
\* CircuitBreaker

(* The counters, clocks and caller positions stay in their ranges. *)
THEOREM TypeCorrect == BreakerSpec => []BreakerTypeOK
<1>1. BreakerInit => BreakerTypeOK
  BY SendersAssumption, ThresholdAssumption, ClockAssumption
     DEF BreakerInit, BreakerTypeOK, CircuitState, PC
<1>2. BreakerTypeOK /\ [BreakerNext]_breaker => BreakerTypeOK'
  <2> SUFFICES ASSUME BreakerTypeOK, [BreakerNext]_breaker PROVE BreakerTypeOK'
    OBVIOUS
  <2> USE ThresholdAssumption, ClockAssumption
      DEF BreakerTypeOK, CircuitState, PC, AtMost, Goto
  <2>1. CASE Tick
    BY <2>1 DEF Tick
  <2>2. ASSUME NEW c \in Senders, SenderStep(c) PROVE BreakerTypeOK'
    <3>1. CASE AllowLoad(c)  BY <3>1 DEF AllowLoad
    <3>2. CASE AllowElapsed(c)  BY <3>2 DEF AllowElapsed
    <3>3. CASE AllowSwap(c)  BY <3>3 DEF AllowSwap
    <3>4. CASE SuccessZero(c)  BY <3>4 DEF SuccessZero
    <3>5. CASE SuccessClose(c)  BY <3>5 DEF SuccessClose
    <3>6. CASE FailureAdd(c)  BY <3>6 DEF FailureAdd
    <3>7. CASE FailureStamp(c)  BY <3>7 DEF FailureStamp
    <3>8. CASE FailureOpen(c)  BY <3>8 DEF FailureOpen
    <3> QED BY <2>2, <3>1, <3>2, <3>3, <3>4, <3>5, <3>6, <3>7, <3>8 DEF SenderStep, Report
  <2>3. CASE UNCHANGED breaker
    BY <2>3 DEF breaker
  <2> QED BY <2>1, <2>2, <2>3 DEF BreakerNext
<1> QED BY <1>1, <1>2, PTL DEF BreakerSpec

-----------------------------------------------------------------------------
\* ConfigReload

(* Where a worker is in the callback of a reload.                           *)
Serving == {"previous", "apply", "serve"}

(* What is served is one configuration. *)
OneServed == cServed.server = cServed.service /\ cServed.selector = Config!Strategy(cServed.service)

(* How far the callback of a worker is. *)
ServedSoFar(w) ==
    /\ cJob[w].pc = "previous" => OneServed
    /\ cJob[w].pc = "apply" => OneServed /\ cJob[w].prev = Config!Strategy(cServed.service)
    /\ cJob[w].pc = "serve" => cServed.server = cJob[w].cfg
       /\ cServed.selector = Config!Strategy(cJob[w].cfg)

(* An edit under way is one of the MaxEdits. *)
EditFits == cTorn => cFile < MaxEdits

(* One worker at a time is in the callback, and what each part serves from  *)
(* follows how far that worker is.                                          *)
Together ==
    /\ \A v, w \in Config!Workers : cJob[v].pc \in Serving /\ cJob[w].pc \in Serving => v = w
    /\ (\A w \in Config!Workers : cJob[w].pc \notin Serving) => OneServed
    /\ \A w \in Config!Workers : ServedSoFar(w)

(* It is so as long as no callback has begun in the middle of another one.  *)
ConfigInv == Config!TypeOK /\ EditFits /\ (~cCrossed => Together)

(* Nothing but the callback touches what is served: a worker that is not in *)
(* the callback goes on, or begins it when no other is in it. *)
LEMMA WorkerGoesOn ==
    ASSUME ConfigInv, Config!TypeOK', EditFits', UNCHANGED cServed, NEW w \in Config!Workers,
           NEW j \in Config!Job,
           cJob' = [cJob EXCEPT ![w] = j],
           cJob[w].pc \notin Serving, j.pc \notin {"apply", "serve"},
           ~cCrossed' => ~cCrossed,
           ~cCrossed' /\ j.pc = "previous" => \A v \in Config!Workers : cJob[v].pc \notin Serving
    PROVE  ConfigInv'
<1> SUFFICES ASSUME ~cCrossed' PROVE Together'
  BY DEF ConfigInv
<1>1. cJob'[w] = j /\ \A v \in Config!Workers \ {w} : cJob'[v] = cJob[v]
  BY DEF ConfigInv, Config!TypeOK
<1>2. Together
  BY DEF ConfigInv
<1>3. \A v \in Config!Workers : cJob'[v].pc \in Serving => (v # w /\ cJob[v].pc \in Serving)
      \/ (v = w /\ j.pc = "previous")
  BY <1>1 DEF Serving
<1>4. \A v, u \in Config!Workers : cJob'[v].pc \in Serving /\ cJob'[u].pc \in Serving => v = u
  BY <1>2, <1>3 DEF Together
<1>5. j.pc = "previous" => OneServed
  BY <1>2 DEF Together
<1>6. (\A v \in Config!Workers : cJob'[v].pc \notin Serving) => OneServed'
  <2> SUFFICES ASSUME \A v \in Config!Workers : cJob'[v].pc \notin Serving PROVE OneServed'
    OBVIOUS
  <2>1. \A v \in Config!Workers : cJob[v].pc \notin Serving
    BY <1>1
  <2> QED BY <1>2, <2>1 DEF Together, OneServed, Config!Strategy
<1>7. ASSUME NEW v \in Config!Workers PROVE ServedSoFar(v)'
  <2>1. CASE v = w
    BY <1>1, <1>5, <2>1 DEF ServedSoFar, OneServed, Config!Strategy
  <2>2. CASE v # w
    BY <1>1, <1>2, <2>2 DEF Together, ServedSoFar, OneServed, Config!Strategy
  <2> QED BY <2>1, <2>2
<1> QED BY <1>4, <1>6, <1>7 DEF Together

(* A callback that crosses no other begins alone. *)
LEMMA BeginsAlone ==
    ASSUME Config!BeginsCallback, ~cCrossed'
    PROVE  ~cCrossed /\ \A v \in Config!Workers : cJob[v].pc \notin Serving
BY Zenon DEF Config!BeginsCallback, Serving

(* The values of the types. *)
LEMMA ConfigTypes ==
    ASSUME Config!NamesAssumption
    PROVE  /\ \A c : Config!Strategy(c) \in 0..1 \/ c \notin Config!Configs
           /\ Config!Idle \in Config!Job /\ \A r \in Reloaders : r \in Config!Workers
           /\ Handler \in Config!Workers /\ Deferred \in Config!Workers
<1>1. ASSUME NEW c \in Config!Configs PROVE Config!Strategy(c) \in 0..1
  BY DEF Config!Strategy, Config!Configs, Config!NamesAssumption
<1>2. Config!Idle \in Config!Job
  BY DEF Config!Idle, Config!Job, Config!Configs, Config!NamesAssumption
<1> QED BY <1>1, <1>2 DEF Config!Workers

(* The steps of a reload before and after the callback.                     *)
LEMMA ReloadKeeps ==
    ASSUME Config!NamesAssumption, ConfigInv, NEW r \in Reloaders, Config!Reload(r)
    PROVE  ConfigInv'
<1>1. cJob[r] \in Config!Job /\ r \in Config!Workers /\ cJob \in [Config!Workers -> Config!Job]
  BY ConfigTypes DEF ConfigInv, Config!TypeOK
<1> USE DEF Config!NamesAssumption
<1>2. PICK j \in Config!Job : /\ cJob' = [cJob EXCEPT ![r] = j] /\ UNCHANGED cServed
                              /\ cJob[r].pc \notin Serving /\ j.pc \notin {"apply", "serve"}
                              /\ j.pc = "previous" => Config!BeginsCallback
                              /\ j.pc # "previous" => UNCHANGED cCrossed
  <2>1. CASE Config!ConfigTimerFires(r)
    <3> DEFINE j == [cJob[r] EXCEPT !.pc = "check"]
    <3>1. j \in Config!Job /\ j.pc = "check" /\ cJob[r].pc = "idle"
      BY <1>1, <2>1 DEF Config!ConfigTimerFires, Config!Job, Config!Idle
    <3> QED BY <2>1, <3>1 DEF Config!ConfigTimerFires, Serving
  <2>2. CASE Config!Check(r)
    <3> DEFINE j == IF cTorn THEN Config!Idle ELSE [cJob[r] EXCEPT !.pc = "compare", !.seen = cFile]
    <3>1. j \in Config!Job /\ j.pc \in {"idle", "compare"}
      BY <1>1, ConfigTypes DEF Config!Job, Config!Idle, ConfigInv, Config!TypeOK
    <3> QED BY <2>2, <3>1 DEF Config!Check, Serving
  <2>3. CASE Config!Compare(r)
    <3> DEFINE j == IF cHash = cJob[r].seen THEN Config!Idle ELSE [cJob[r] EXCEPT !.pc = "load"]
    <3>1. j \in Config!Job /\ j.pc \in {"idle", "load"}
      BY <1>1, ConfigTypes DEF Config!Job, Config!Idle
    <3> QED BY <2>3, <3>1 DEF Config!Compare, Serving
  <2>4. CASE Config!Load(r)
    <3> DEFINE j == [cJob[r] EXCEPT !.pc = "install", !.cfg = IF cTorn THEN Default ELSE cFile]
    <3>1. j \in Config!Job /\ j.pc = "install"
      BY <1>1 DEF Config!Job, Config!Configs, ConfigInv, Config!TypeOK
    <3>2. cJob' = [cJob EXCEPT ![r] = j]
      BY <2>4 DEF Config!Load
    <3> QED BY <2>4, <3>1, <3>2 DEF Config!Load, Serving
  <2>5. CASE Config!Install(r)
    <3> DEFINE j == [cJob[r] EXCEPT !.pc = "reload"]
    <3>1. j \in Config!Job /\ j.pc = "reload"
      BY <1>1 DEF Config!Job, Config!Picked
    <3> QED BY <2>5, <3>1 DEF Config!Install, Serving
  <2>6. CASE Config!ReloadClients(r)
    <3> DEFINE j == [cJob[r] EXCEPT !.pc = "previous", !.cfg = cConfig]
    <3>1. j \in Config!Job /\ j.pc = "previous"
      BY <1>1 DEF Config!Job, Config!Picked, ConfigInv, Config!TypeOK
    <3>2. cJob' = [cJob EXCEPT ![r] = j]
      BY <2>6 DEF Config!ReloadClients
    <3> QED BY <2>6, <3>1, <3>2 DEF Config!ReloadClients, Serving
  <2>7. CASE Config!Rehash(r)
    <3>1. cJob' = [cJob EXCEPT ![r] = Config!Idle] /\ Config!Idle \in Config!Job
          /\ Config!Idle.pc = "idle"
      BY <2>7, ConfigTypes DEF Config!Rehash, Config!Idle
    <3> QED BY <2>7, <3>1 DEF Config!Rehash, Serving
  <2> QED BY <2>1, <2>2, <2>3, <2>4, <2>5, <2>6, <2>7 DEF Config!Reload
<1> HIDE DEF Config!NamesAssumption
<1>3. /\ cFile' \in 0..MaxEdits
         /\ {cTorn', cNotified', cTimer', cRecent', cOwed', cStopped',
             cCrossed'} \subseteq BOOLEAN
      /\ cPend' \in {"none", "set", "fired"}
  BY DEF Config!Reload, Config!ConfigTimerFires, Config!Check, Config!Compare, Config!Load,
     Config!Install, Config!ReloadClients, Config!Rehash, Config!BeginsCallback, ConfigInv,
     Config!TypeOK
<1>4. cHash' \in 0..MaxEdits \cup {NoHash}
  <2>1. cJob[r].seen \in 0..MaxEdits
    BY <1>1 DEF Config!Job
  <2> QED BY <2>1 DEF Config!Reload, Config!ConfigTimerFires, Config!Check, Config!Compare,
             Config!Load, Config!Install, Config!ReloadClients, Config!Rehash, ConfigInv,
             Config!TypeOK
<1>5. cConfig' \in Config!Configs
  <2>1. cJob[r].cfg \in Config!Configs
    BY <1>1 DEF Config!Job
  <2> QED BY <2>1 DEF Config!Reload, Config!ConfigTimerFires, Config!Check, Config!Compare,
             Config!Load, Config!Install, Config!ReloadClients, Config!Rehash, ConfigInv,
             Config!TypeOK
<1>6. cJob' \in [Config!Workers -> Config!Job]
  BY <1>1, <1>2
<1>7. Config!TypeOK'
  BY <1>2, <1>3, <1>4, <1>5, <1>6 DEF ConfigInv, Config!TypeOK
<1>8. UNCHANGED <<cFile, cTorn>>
  BY DEF Config!Reload, Config!ConfigTimerFires, Config!Check, Config!Compare, Config!Load,
     Config!Install, Config!ReloadClients, Config!Rehash
<1>9. EditFits'
  BY <1>8 DEF ConfigInv, EditFits
<1>10. (~cCrossed' => ~cCrossed) /\ (~cCrossed' /\ j.pc = "previous"
          => \A v \in Config!Workers : cJob[v].pc \notin Serving)
  BY <1>2, BeginsAlone
<1> QED BY <1>1, <1>2, <1>7, <1>9, <1>10, WorkerGoesOn

(* The handler of changed auth files and the timer of the server update. *)
LEMMA ServerUpdateKeeps ==
    ASSUME Config!NamesAssumption, ConfigInv,
           Config!AuthFileChanged \/ Config!TriggerServerUpdate \/ Config!DeferredFires
           \/ Config!DeferredTaken
    PROVE  ConfigInv'
<1>1. cJob \in [Config!Workers -> Config!Job] /\ Handler \in Config!Workers
      /\ Deferred \in Config!Workers /\ Config!Idle \in Config!Job
  BY ConfigTypes DEF ConfigInv, Config!TypeOK
<1>2. PICK w \in Config!Workers, j \in Config!Job :
        /\ cJob' = [cJob EXCEPT ![w] = j] /\ UNCHANGED cServed
        /\ cJob[w].pc \notin Serving /\ j.pc \notin {"apply", "serve"}
        /\ j.pc = "previous" => Config!BeginsCallback
        /\ j.pc # "previous" => UNCHANGED cCrossed
  <2>1. CASE Config!AuthFileChanged
    <3> DEFINE j == [cJob[Handler] EXCEPT !.pc = "trigger", !.cfg = cConfig]
    <3>1. j \in Config!Job /\ j.pc = "trigger" /\ cJob[Handler].pc = "idle"
      BY <1>1, <2>1 DEF Config!AuthFileChanged, Config!Job, Config!Picked, Config!Idle, ConfigInv,
         Config!TypeOK
    <3>2. cJob' = [cJob EXCEPT ![Handler] = j]
      BY <2>1 DEF Config!AuthFileChanged
    <3> QED BY <1>1, <2>1, <3>1, <3>2 DEF Config!AuthFileChanged, Serving
  <2>2. CASE Config!TriggerServerUpdate
    <3> DEFINE j == [cJob[Handler] EXCEPT !.pc = "previous"]
    <3>1. j \in Config!Job /\ j.pc = "previous" /\ Config!Idle.pc = "idle"
          /\ cJob[Handler].pc = "trigger"
      BY <1>1, <2>2 DEF Config!TriggerServerUpdate, Config!Job, Config!Picked, Config!Idle
    <3>2. cJob' = [cJob EXCEPT ![Handler] = j] \/ cJob' = [cJob EXCEPT ![Handler] = Config!Idle]
      BY <2>2 DEF Config!TriggerServerUpdate
    <3> QED BY <1>1, <2>2, <3>1, <3>2 DEF Config!TriggerServerUpdate, Serving
  <2>3. CASE Config!DeferredFires
    <3> DEFINE j == [cJob[Deferred] EXCEPT !.pc = "taken", !.cfg = cConfig]
    <3>1. j \in Config!Job /\ j.pc = "taken" /\ cJob[Deferred].pc = "idle"
      BY <1>1, <2>3 DEF Config!DeferredFires, Config!Job, Config!Picked, Config!Idle, ConfigInv,
         Config!TypeOK
    <3>2. cJob' = [cJob EXCEPT ![Deferred] = j]
      BY <2>3 DEF Config!DeferredFires
    <3> QED BY <1>1, <2>3, <3>1, <3>2 DEF Config!DeferredFires, Serving
  <2>4. CASE Config!DeferredTaken
    <3> DEFINE j == [cJob[Deferred] EXCEPT !.pc = "previous"]
    <3>1. j \in Config!Job /\ j.pc = "previous" /\ Config!Idle.pc = "idle"
          /\ cJob[Deferred].pc = "taken"
      BY <1>1, <2>4 DEF Config!DeferredTaken, Config!Job, Config!Picked, Config!Idle
    <3>2. cJob' = [cJob EXCEPT ![Deferred] = j] \/ cJob' = [cJob EXCEPT ![Deferred] = Config!Idle]
      BY <2>4 DEF Config!DeferredTaken
    <3> QED BY <1>1, <2>4, <3>1, <3>2 DEF Config!DeferredTaken, Serving
  <2> QED BY <2>1, <2>2, <2>3, <2>4
<1>3. /\ cFile' \in 0..MaxEdits
         /\ {cTorn', cNotified', cTimer', cRecent', cOwed', cStopped',
             cCrossed'} \subseteq BOOLEAN
      /\ cPend' \in {"none", "set", "fired"} /\ cConfig' \in Config!Configs
      /\ cHash' \in 0..MaxEdits \cup {NoHash}
  BY DEF Config!AuthFileChanged, Config!TriggerServerUpdate, Config!DeferredFires,
     Config!DeferredTaken, Config!BeginsCallback, ConfigInv, Config!TypeOK
<1>4. cJob' \in [Config!Workers -> Config!Job]
  BY <1>1, <1>2
<1>5. Config!TypeOK'
  BY <1>2, <1>3, <1>4 DEF ConfigInv, Config!TypeOK
<1>6. UNCHANGED <<cFile, cTorn>>
  BY DEF Config!AuthFileChanged, Config!TriggerServerUpdate, Config!DeferredFires,
     Config!DeferredTaken
<1>7. EditFits'
  BY <1>6 DEF ConfigInv, EditFits
<1>8. (~cCrossed' => ~cCrossed) /\ (~cCrossed' /\ j.pc = "previous"
         => \A v \in Config!Workers : cJob[v].pc \notin Serving)
  BY <1>2, BeginsAlone
<1> QED BY <1>2, <1>5, <1>7, <1>8, WorkerGoesOn

(* What a step of the callback keeps when it leaves the worker where        *)
(* ServedSoFar says, if it is the only one in the callback.                 *)
LEMMA CallbackMoves ==
    ASSUME ConfigInv, NEW w \in Config!Workers, cJob[w].pc \in Serving, NEW j \in Config!Job,
           cJob' = [cJob EXCEPT ![w] = j],
           Together => ServedSoFar(w)' /\ (j.pc \notin Serving => OneServed'),
           cServed' \in [selector : 0..1, server : Config!Configs, service : Config!Configs],
           UNCHANGED <<cFile, cTorn, cNotified, cTimer, cHash, cConfig, cRecent, cPend, cOwed,
           cStopped, cCrossed>>
    PROVE  ConfigInv'
<1>1. cJob' \in [Config!Workers -> Config!Job] /\ cJob'[w] = j /\ \A v \in Config!Workers \ {w} :
      cJob'[v] = cJob[v]
  BY DEF ConfigInv, Config!TypeOK
<1>2. Config!TypeOK'
  BY <1>1 DEF ConfigInv, Config!TypeOK
<1>3. EditFits'
  BY DEF ConfigInv, EditFits
<1>4. ASSUME ~cCrossed' PROVE Together'
  <2>1. Together
    BY <1>4 DEF ConfigInv
  <2>2. \A v \in Config!Workers \ {w} : cJob'[v].pc \notin Serving
    BY <1>1, <2>1 DEF Together
  <2>3. \A v \in Config!Workers \ {w} : ServedSoFar(v)'
    BY <2>2 DEF ServedSoFar, Serving
  <2> QED BY <1>1, <2>1, <2>2, <2>3 DEF Together
<1> QED BY <1>2, <1>3, <1>4 DEF ConfigInv

(* The callback: the strategy it compares with is the one that is served,   *)
(* so the selector, the server and the service end with one configuration.  *)
LEMMA CallbackKeeps ==
    ASSUME Config!NamesAssumption, ConfigInv, NEW w \in Config!Workers, Config!Callback(w)
    PROVE  ConfigInv'
<1>1. cJob[w] \in Config!Job /\ cJob \in [Config!Workers -> Config!Job]
      /\ (Together => ServedSoFar(w)) /\ Config!Idle \in Config!Job
      /\ cServed \in [selector : 0..1, server : Config!Configs, service : Config!Configs]
      /\ cJob[w].cfg \in Config!Configs
  BY ConfigTypes DEF ConfigInv, Config!TypeOK, Config!Job, Together
<1>2. CASE Config!Previous(w)
  <2> DEFINE j == [cJob[w] EXCEPT !.pc = "apply", !.prev = Config!Strategy(cServed.service)]
  <2>1. Config!Strategy(cServed.service) \in 0..1
    BY <1>1, ConfigTypes
  <2>2. j \in Config!Job /\ j.pc = "apply" /\ j.prev = Config!Strategy(cServed.service)
    BY <1>1, <2>1 DEF Config!Job, Config!Picked
  <2>3. cJob' = [cJob EXCEPT ![w] = j]
    BY <1>2 DEF Config!Previous
  <2> HIDE DEF j
  <2>4. Together => ServedSoFar(w)'
    BY <1>1, <1>2, <2>2, <2>3 DEF Config!Previous, ServedSoFar, OneServed, Config!Strategy
  <2> QED BY <1>1, <1>2, <2>2, <2>3, <2>4, CallbackMoves DEF Config!Previous, Serving
<1>3. CASE Config!Apply(w)
  <2> DEFINE j == [cJob[w] EXCEPT !.pc = "serve"]
  <2>1. j \in Config!Job /\ j.pc = "serve" /\ j.cfg = cJob[w].cfg
    BY <1>1 DEF Config!Job, Config!Picked
  <2>2. cJob' = [cJob EXCEPT ![w] = j]
    BY <1>3 DEF Config!Apply
  <2> HIDE DEF j
  <2>3. Config!Strategy(cJob[w].cfg) \in 0..1
    BY <1>1, ConfigTypes
  <2>4. /\ cServed' \in [selector : 0..1, server : Config!Configs, service : Config!Configs]
        /\ cServed'.server = cJob[w].cfg
        /\ cServed'.selector = IF cJob[w].prev # Config!Strategy(cJob[w].cfg)
           THEN Config!Strategy(cJob[w].cfg) ELSE cServed.selector
    BY <1>1, <1>3, <2>3 DEF Config!Apply
  <2>5. Together => cServed'.selector = Config!Strategy(cJob[w].cfg)
    BY <1>1, <1>3, <2>4 DEF Config!Apply, ServedSoFar, OneServed
  <2>6. Together => ServedSoFar(w)'
    BY <1>1, <2>1, <2>2, <2>4, <2>5 DEF ServedSoFar, OneServed, Config!Strategy
  <2> QED BY <1>1, <1>3, <2>1, <2>2, <2>4, <2>6, CallbackMoves DEF Config!Apply, Serving
<1>4. CASE Config!Serve(w)
  <2> DEFINE j == IF w \in Reloaders THEN [cJob[w] EXCEPT !.pc = "rehash"] ELSE Config!Idle
  <2>1. j \in Config!Job /\ j.pc \in {"idle", "rehash"}
    BY <1>1 DEF Config!Job, Config!Idle
  <2>2. cJob' = [cJob EXCEPT ![w] = j]
    BY <1>4 DEF Config!Serve
  <2> HIDE DEF j
  <2>3. /\ cServed' \in [selector : 0..1, server : Config!Configs, service : Config!Configs]
        /\ cServed'.service = cJob[w].cfg /\ cServed'.server = cServed.server
        /\ cServed'.selector = cServed.selector
    BY <1>1, <1>4 DEF Config!Serve
  <2>4. Together => OneServed'
    BY <1>1, <1>4, <2>3 DEF Config!Serve, ServedSoFar, OneServed, Config!Strategy
  <2>5. ServedSoFar(w)'
    BY <1>1, <2>1, <2>2 DEF ServedSoFar
  <2> QED BY <1>1, <1>4, <2>1, <2>2, <2>3, <2>4, <2>5, CallbackMoves DEF Config!Serve, Serving
<1> QED BY <1>2, <1>3, <1>4 DEF Config!Callback

(* The file, its notifications and the clock. *)
LEMMA FileKeeps ==
    ASSUME Config!NamesAssumption, ConfigInv,
           Config!Truncate \/ Config!Write \/ Config!ScheduleConfigReload \/ Config!WindowPasses
           \/ Config!Stop \/ UNCHANGED Config!vars
    PROVE  ConfigInv'
<1>1. cFile' \in 0..MaxEdits
  <2>1. CASE Config!Write
    <3>1. cFile' = cFile + 1 /\ cFile < MaxEdits /\ cFile \in 0..MaxEdits
      BY <2>1 DEF Config!Write, ConfigInv, EditFits, Config!TypeOK
    <3> QED BY <3>1 DEF Config!NamesAssumption
  <2> QED BY <2>1 DEF Config!Truncate, Config!ScheduleConfigReload, Config!WindowPasses,
             Config!Stop, Config!vars, ConfigInv, Config!TypeOK
<1>2. /\ {cTorn', cNotified', cTimer', cRecent', cOwed', cStopped',
         cCrossed'} \subseteq BOOLEAN
      /\ cPend' \in {"none", "set", "fired"}
      /\ UNCHANGED <<cConfig, cHash, cJob, cServed, cCrossed>>
  BY DEF Config!Truncate, Config!Write, Config!ScheduleConfigReload, Config!WindowPasses,
     Config!Stop, Config!vars, ConfigInv, Config!TypeOK
<1>3. Config!TypeOK'
  BY <1>1, <1>2 DEF ConfigInv, Config!TypeOK
<1>4. EditFits'
  BY DEF Config!Truncate, Config!Write, Config!ScheduleConfigReload, Config!WindowPasses,
     Config!Stop, Config!vars, ConfigInv, EditFits
<1> QED BY <1>2, <1>3, <1>4 DEF ConfigInv, Together, ServedSoFar, OneServed, Config!Strategy

(* The invariant of the reloads holds at the start.                         *)
LEMMA ConfigStart ==
    ASSUME Config!NamesAssumption, Config!Init
    PROVE  ConfigInv
<1>1. \A w \in Config!Workers : cJob[w] = Config!Idle
  BY DEF Config!Init
<1>2. Config!Strategy(0) = 0 /\ 0 \in Config!Configs /\ 0 \in 0..MaxEdits
  BY DEF Config!Strategy, Config!Configs, Config!NamesAssumption
<1>3. Config!TypeOK
  BY <1>2, ConfigTypes DEF Config!Init, Config!TypeOK
<1> QED BY <1>1, <1>2, <1>3 DEF Config!Init, ConfigInv, EditFits, Together, ServedSoFar,
           OneServed, Config!Idle, Serving

(* Every step of the reloads keeps their invariant.                         *)
LEMMA ConfigMoves ==
    ASSUME Config!NamesAssumption, ConfigInv, [Config!Next]_(Config!vars)
    PROVE  ConfigInv'
BY ReloadKeeps, ServerUpdateKeeps, CallbackKeeps, FileKeeps DEF Config!Next

-----------------------------------------------------------------------------
\* WsRelay

(* The request has not been sent.                                           *)
Early(r) == wCaller[r].pc \in {"new", "store", "check", "write"}

(* How many of the messages in the channel are no chunk: the start. *)
Lead(r) == IF wCaller[r].streaming THEN 0 ELSE 1

(* The start of a stream is in the channel or was taken from it.            *)
Begun(r) == Len(wChan[r]) > 0 \/ wCaller[r].streaming

(* The end of the answer is in the channel.                                 *)
Last(r) == \E i \in 1..Len(wChan[r]) : wChan[r][i] \in Relay!Terminal

(* Before the request is sent there is nothing but the end of a sweep. *)
Unsent(r) ==
    /\ Early(r) => wClient[r].state = "idle" /\ wWatch[r] = "none"
    /\ Relay!Looking(r) => r \in wPending
    /\ wClient[r].state \in {"idle", "asked"} =>
          /\ wClient[r].sent = 0 /\ ~wCaller[r].streaming /\ ~Relay!Held(r)
          /\ r \notin wShut => wChan[r] = <<>>

(* What is in the channel at each place. *)
InOrder(r) ==
    \A i \in 1..Len(wChan[r]) :
       /\ wChan[r][i] = "start" => /\ i = 1 /\ ~wCaller[r].streaming
                                   /\ wClient[r].state \notin {"idle", "asked"}
       /\ wChan[r][i] = "chunk" => /\ i > 1 \/ wCaller[r].streaming
                                   /\ wCaller[r].got + i - Lead(r) <= wClient[r].sent
       /\ wChan[r][i] = "end" => /\ i > 1 \/ wCaller[r].streaming
                                 /\ wClient[r].state = "over"
                                 /\ wClient[r].sent = wCaller[r].got + i - 1 - Lead(r)
       /\ wChan[r][i] = "response" => /\ i = 1 /\ ~wCaller[r].streaming
                                      /\ wClient[r].state = "over" /\ wClient[r].sent = 0

(* What the reader holds comes next. *)
Upcoming(r) ==
    Relay!Held(r) =>
       /\ r \in wPending /\ r \notin wShut
       /\ wReader.type = "start" => /\ wChan[r] = <<>> /\ ~wCaller[r].streaming
                                    /\ wClient[r].state = "streaming" /\ wClient[r].sent = 0
       /\ wReader.type = "chunk" => /\ Begun(r) /\ wClient[r].state = "streaming"
                                    /\ wClient[r].sent = wCaller[r].got + Len(wChan[r]) + 1 - Lead(r)
       /\ wReader.type = "end" => /\ Begun(r) /\ wClient[r].state = "over"
                                  /\ wClient[r].sent = wCaller[r].got + Len(wChan[r]) - Lead(r)
       /\ wReader.type = "response" => /\ wChan[r] = <<>> /\ ~wCaller[r].streaming
                                       /\ wClient[r].state = "over" /\ wClient[r].sent = 0
       /\ wReader.type = "error" => wClient[r].state = "over"

(* While nothing has ended the stream, nothing of it is lost. *)
NothingLost(r) ==
    r \in wPending \ wShut /\ ~Relay!Held(r) /\ wClient[r].state = "streaming" =>
       Begun(r) /\ wClient[r].sent = wCaller[r].got + Len(wChan[r]) - Lead(r)

(* What holds of a request whose caller waits.                              *)
Flow(r) ==
    /\ wCaller[r].result = "none"
    /\ ~wCaller[r].streaming => wCaller[r].got = 0
    /\ Unsent(r) /\ InOrder(r) /\ Upcoming(r) /\ NothingLost(r)
    /\ r \in wShut \ wCancelled => Last(r)
    /\ wReader.pc = "remove" /\ wReader.req = r => Last(r)

(* What holds of a request whose caller has returned.                       *)
Returned(r) ==
    /\ wCaller[r].result = "ok" /\ r \notin wCancelled =>
          wClient[r].state = "over" /\ wCaller[r].got = wClient[r].sent
    /\ Relay!Held(r) => r \in wPending /\ r \notin wShut

(* What holds of a request.                                                 *)
Fine(r) == IF wCaller[r].pc = "done" THEN Returned(r) ELSE Flow(r)

(* What the reader of the session has found answers a request that was      *)
(* sent.                                                                    *)
RelayReaderFine ==
    /\ wReader.pc = "remove" => wClient[wReader.req].state = "over"
    /\ wReader.pc = "found" =>
          /\ wClient[wReader.req].state \in {"streaming", "over"}
          /\ wReader.type \in Relay!Terminal => wClient[wReader.req].state = "over"

(* The client, the reader, the channel and the caller agree on how far each *)
(* answer is: what was sent is what was taken, what is in the channel and   *)
(* what the reader holds.                                                   *)
RelayInv == Relay!TypeOK /\ ~wPanicked /\ (\A r \in Relayed : Fine(r)) /\ RelayReaderFine

(* A request a step leaves alone. *)
Aside(q) ==
    /\ wCaller'[q] = wCaller[q] /\ wChan'[q] = wChan[q] /\ wClient'[q] = wClient[q]
    /\ wWatch'[q] = wWatch[q]
    /\ (q \in wPending') <=> (q \in wPending)
    /\ (q \in wShut') <=> (q \in wShut)
    /\ (q \in wCancelled') <=> (q \in wCancelled)
    /\ Relay!Held(q)' <=> Relay!Held(q)
    /\ Relay!Held(q) => wReader'.type = wReader.type
    /\ wReader'.pc = "remove" /\ wReader'.req = q => wReader.pc = "remove" /\ wReader.req = q

(* A request that a step leaves alone stays fine.                           *)
LEMMA AsideFine ==
    ASSUME NEW q \in Relayed, Fine(q), Aside(q)
    PROVE  Fine(q)'
<1>1. CASE wCaller[q].pc = "done"
  BY <1>1 DEF Fine, Returned, Aside
<1>2. CASE wCaller[q].pc # "done"
  <2>1. Unsent(q)'
    BY <1>2 DEF Fine, Flow, Unsent, Aside, Early, Relay!Looking
  <2>2. InOrder(q)'
    BY <1>2 DEF Fine, Flow, InOrder, Aside, Lead
  <2>3. Upcoming(q)'
    BY <1>2 DEF Fine, Flow, Upcoming, Aside, Lead, Begun
  <2>4. NothingLost(q)'
    BY <1>2 DEF Fine, Flow, NothingLost, Aside, Lead, Begun
  <2>5. Flow(q)'
    BY <1>2, <2>1, <2>2, <2>3, <2>4 DEF Fine, Flow, Aside, Last
  <2> QED BY <1>2, <2>5 DEF Fine, Aside
<1> QED BY <1>1, <1>2

(* A step of one request. *)
LEMMA OneMoves ==
    ASSUME RelayInv, NEW r \in Relayed, Relay!TypeOK', ~wPanicked', RelayReaderFine', Fine(r)',
           \A q \in Relayed \ {r} : Aside(q)
    PROVE  RelayInv'
<1>1. ASSUME NEW q \in Relayed PROVE Fine(q)'
  BY AsideFine DEF RelayInv
<1> QED BY <1>1 DEF RelayInv

(* The types of what belongs to a request. *)
RelayCall == [pc : {"new", "store", "check", "write", "wait", "done"},
         kind : {"NonStream", "Stream"}, streaming : BOOLEAN, got : 0..MaxChunks, result :
         Relay!Results]
(* How far the client is with a request.                                    *)
Answered == [state : {"idle", "asked", "streaming", "over"}, sent : 0..MaxChunks]

(* The types of what the relay keeps of a request.                          *)
LEMMA RequestTypes ==
    ASSUME RelayInv, NEW r \in Relayed
    PROVE  /\ wCaller[r] \in RelayCall /\ wClient[r] \in Answered /\ wChan[r] \in Seq(Relay!Types)
           /\ Len(wChan[r]) \in Nat /\ Len(wChan[r]) <= Capacity /\ ~wPanicked
           /\ Fine(r) /\ wCaller \in [Relayed -> RelayCall] /\ wClient \in [Relayed -> Answered]
           /\ wChan \in [Relayed -> Seq(Relay!Types)]
           /\ wReader \in [pc : {"read", "found", "remove", "ended"}, req : Relayed, type :
                 Relay!Types]
BY DEF RelayInv, Relay!TypeOK, RelayCall, Answered

(* A caller that has not sent its request goes on or returns. *)
LEMMA EarlyMoves ==
    ASSUME Relay!BoundsAssumption, RelayInv, NEW r \in Relayed, Early(r), NEW c \in RelayCall,
           wCaller' = [wCaller EXCEPT ![r] = c],
           c.streaming = wCaller[r].streaming, c.got = wCaller[r].got,
           c.pc # "done" => c.result = "none",
           c.pc = "done" => c.result = "error",
           UNCHANGED <<wChan, wCancelled, wReader, wPanicked>>,
           wPending' = wPending \/ wPending' = wPending \cup {r}
           \/ (c.pc = "done" /\ wPending' = wPending \ {r}),
           wShut' = wShut \/ (c.pc = "done" /\ wShut' = wShut \cup {r}),
           c.pc = "check" => r \in wPending',
           \/ UNCHANGED <<wClient, wWatch>> /\ c.pc # "wait"
           \/ /\ c.pc = "wait" /\ wClient' = [wClient EXCEPT ![r].state = "asked"]
              /\ wWatch' = [wWatch EXCEPT ![r] = "on"],
           wSession' \in {"live", "closed", "sweeping", "reset", "gone"}, wPooled' \in BOOLEAN
    PROVE  RelayInv'
<1>1. wCaller[r].pc # "done" /\ Flow(r) /\ wClient[r].state = "idle" /\ ~Relay!Held(r)
      /\ wClient[r] \in Answered
  BY RequestTypes DEF Early, Fine, Flow, Unsent
<1>2. wCaller'[r] = c /\ \A q \in Relayed \ {r} : wCaller'[q] = wCaller[q]
  BY RequestTypes
<1>3. \A q \in Relayed \ {r} : Aside(q)
  BY <1>2, RequestTypes DEF Aside, Relay!Held, RelayInv, Relay!TypeOK
<1>4. Relay!TypeOK'
  <2>1. wPending' \subseteq Relayed /\ wShut' \subseteq Relayed
    BY DEF RelayInv, Relay!TypeOK
  <2>2. wCaller' \in [Relayed -> RelayCall]
    BY RequestTypes
  <2>3. wClient' \in [Relayed -> Answered] /\ wWatch' \in [Relayed -> {"none", "on", "off"}]
    <3>1. wClient \in [Relayed -> Answered] /\ wWatch \in [Relayed -> {"none", "on", "off"}]
      BY RequestTypes DEF RelayInv, Relay!TypeOK
    <3>2. CASE wClient' = [wClient EXCEPT ![r].state = "asked"]
               /\ wWatch' = [wWatch EXCEPT ![r] = "on"]
      BY <3>1, <3>2 DEF Answered
    <3> QED BY <3>1, <3>2
  <2> QED BY <2>1, <2>2, <2>3 DEF RelayInv, Relay!TypeOK, RelayCall, Answered
<1>5. /\ wClient'[r].sent = wClient[r].sent /\ wClient'[r].state \in {"idle", "asked"}
      /\ wClient'[r].state = "idle" \/ c.pc = "wait"
  <2>1. wClient[r] \in Answered /\ wClient \in [Relayed -> Answered]
    BY RequestTypes
  <2>2. CASE wClient' = [wClient EXCEPT ![r].state = "asked"] /\ c.pc = "wait"
    BY <2>1, <2>2 DEF Answered
  <2>3. CASE wClient' = wClient
    BY <1>1, <2>3
  <2> QED BY <2>2, <2>3
<1>6. RelayReaderFine'
  <2>1. wReader.pc \in {"found", "remove"} => wReader.req # r
    BY <1>1 DEF RelayInv, RelayReaderFine
  <2> QED BY <2>1, RequestTypes DEF RelayInv, RelayReaderFine
<1>7. Fine(r)'
  <2>1. CASE c.pc = "done"
    BY <1>1, <1>2, <2>1 DEF Fine, Returned, Relay!Held
  <2>2. CASE c.pc # "done"
    <3>1. Unsent(r)'
      BY <1>1, <1>2, <1>5, <2>2, RequestTypes DEF Flow, Unsent, Early, Relay!Looking, Relay!Held,
         RelayInv, Relay!TypeOK
    <3>2. InOrder(r)'
      BY <1>1, <1>2, <1>5 DEF Flow, InOrder, Lead
    <3>3. Upcoming(r)' /\ NothingLost(r)'
      BY <1>1, <1>5 DEF Upcoming, NothingLost, Relay!Held
    <3>4. Flow(r)'
      BY <1>1, <1>2, <2>2, <3>1, <3>2, <3>3 DEF Flow, Last
    <3> QED BY <1>2, <2>2, <3>4 DEF Fine
  <2> QED BY <2>1, <2>2
<1> QED BY <1>3, <1>4, <1>6, <1>7, OneMoves DEF RelayInv

(* A call begins, and is put into the table of pending requests.            *)
LEMMA BeginKeeps ==
    ASSUME Relay!BoundsAssumption, RelayInv, NEW r \in Relayed, Relay!Begin(r) \/ Relay!Store(r)
    PROVE  RelayInv'
<1>1. wCaller[r] \in RelayCall /\ Early(r) /\ wCaller[r].result = "none"
      /\ wSession \in {"live", "closed", "sweeping", "reset", "gone"} /\ wPooled \in BOOLEAN
  BY RequestTypes DEF Relay!Begin, Relay!Store, Early, Fine, Flow, RelayInv, Relay!TypeOK
<1>2. /\ UNCHANGED <<wChan, wCancelled, wReader, wPanicked, wClient, wWatch, wShut, wSession,
         wPooled>>
  BY DEF Relay!Begin, Relay!Store
<1>3. CASE Relay!Begin(r) /\ wPooled
  <2>1. PICK kind \in {"NonStream", "Stream"} :
        wCaller' = [wCaller EXCEPT ![r].pc = "store", ![r].kind = kind]
    BY <1>3 DEF Relay!Begin
  <2> DEFINE c == [wCaller[r] EXCEPT !.pc = "store", !.kind = kind]
  <2>2. c \in RelayCall /\ c.pc = "store" /\ c.streaming = wCaller[r].streaming
        /\ c.got = wCaller[r].got /\ c.result = "none"
    BY <1>1 DEF RelayCall
  <2>3. wCaller' = [wCaller EXCEPT ![r] = c]
    BY <2>1
  <2> HIDE DEF c
  <2> QED BY <1>1, <1>2, <1>3, <2>2, <2>3, EarlyMoves DEF Relay!Begin
<1>4. CASE Relay!Begin(r) /\ ~wPooled
  <2> DEFINE c == [wCaller[r] EXCEPT !.pc = "done", !.result = "error"]
  <2>2. c \in RelayCall /\ c.pc = "done" /\ c.streaming = wCaller[r].streaming
        /\ c.got = wCaller[r].got /\ c.result = "error"
    BY <1>1 DEF RelayCall, Relay!Results
  <2>3. wCaller' = [wCaller EXCEPT ![r] = c]
    BY <1>4 DEF Relay!Begin, Relay!Returns
  <2> HIDE DEF c
  <2> QED BY <1>1, <1>2, <1>4, <2>2, <2>3, EarlyMoves DEF Relay!Begin
<1>5. CASE Relay!Store(r)
  <2> DEFINE c == [wCaller[r] EXCEPT !.pc = "check"]
  <2>2. c \in RelayCall /\ c.pc = "check" /\ c.streaming = wCaller[r].streaming
        /\ c.got = wCaller[r].got /\ c.result = "none"
    BY <1>1 DEF RelayCall
  <2>3. wCaller' = [wCaller EXCEPT ![r] = c]
    BY <1>5 DEF Relay!Store
  <2> HIDE DEF c
  <2> QED BY <1>1, <1>2, <1>5, <2>2, <2>3, EarlyMoves DEF Relay!Store
<1> QED BY <1>3, <1>4, <1>5

(* The request is sent, or the session turns out to be closed.              *)
LEMMA SendKeeps ==
    ASSUME Relay!BoundsAssumption, RelayInv, NEW r \in Relayed, Relay!Check(r) \/ Relay!Write(r)
    PROVE  RelayInv'
<1>1. wCaller[r] \in RelayCall /\ Early(r) /\ wCaller[r].result = "none"
      /\ wSession \in {"live", "closed", "sweeping", "reset", "gone"} /\ wPooled \in BOOLEAN
  BY RequestTypes DEF Relay!Check, Relay!Write, Relay!Looking, Early, Fine, Flow, RelayInv,
     Relay!TypeOK
<1>2. UNCHANGED <<wChan, wCancelled, wReader, wSession, wPooled, wPanicked>>
  <2>1. CASE Relay!Check(r)
    <3>1. r \in wPending /\ wPanicked = FALSE
      BY <1>1, <2>1, RequestTypes DEF Relay!Check, Relay!Looking, Early, Fine, Flow, Unsent,
         RelayInv, Relay!TypeOK
    <3> QED BY <2>1, <3>1 DEF Relay!Check
  <2> QED BY <2>1 DEF Relay!Write
<1>3. CASE Relay!Refused(r)
  <2> DEFINE c == [wCaller[r] EXCEPT !.pc = "done", !.result = "error"]
  <2>2. c \in RelayCall /\ c.pc = "done" /\ c.streaming = wCaller[r].streaming
        /\ c.got = wCaller[r].got /\ c.result = "error"
    BY <1>1 DEF RelayCall, Relay!Results
  <2>3. wCaller' = [wCaller EXCEPT ![r] = c]
    BY <1>3 DEF Relay!Refused, Relay!Returns
  <2> HIDE DEF c
  <2> QED BY <1>1, <1>2, <1>3, <2>2, <2>3, EarlyMoves DEF Relay!Refused
<1>4. CASE Relay!Check(r) /\ ~Relay!Refused(r)
  <2> DEFINE c == [wCaller[r] EXCEPT !.pc = "write"]
  <2>1. c \in RelayCall /\ c.pc = "write" /\ c.streaming = wCaller[r].streaming
        /\ c.got = wCaller[r].got /\ c.result = "none"
    BY <1>1 DEF RelayCall
  <2>2. wCaller' = [wCaller EXCEPT ![r] = c] /\ UNCHANGED <<wPending, wShut, wClient, wWatch>>
    BY <1>4 DEF Relay!Check
  <2> HIDE DEF c
  <2> QED BY <1>1, <1>2, <2>1, <2>2, EarlyMoves
<1>5. CASE Relay!Write(r) /\ ~Relay!Refused(r)
  <2> DEFINE c == [wCaller[r] EXCEPT !.pc = "wait"]
  <2>1. c \in RelayCall /\ c.pc = "wait" /\ c.streaming = wCaller[r].streaming
        /\ c.got = wCaller[r].got /\ c.result = "none"
    BY <1>1 DEF RelayCall
  <2>2. wCaller' = [wCaller EXCEPT ![r] = c] /\ wClient' = [wClient EXCEPT ![r].state = "asked"]
        /\ wWatch' = [wWatch EXCEPT ![r] = "on"] /\ UNCHANGED <<wPending, wShut>>
    BY <1>5 DEF Relay!Write
  <2> HIDE DEF c
  <2> QED BY <1>1, <1>2, <2>1, <2>2, EarlyMoves
<1> QED BY <1>3, <1>4, <1>5

(* The context is done, and what the request's goroutine does then. *)
LEMMA WatchKeeps ==
    ASSUME RelayInv, NEW r \in Relayed, Relay!Cancel(r) \/ Relay!Watch(r)
    PROVE  RelayInv'
<1>1. UNCHANGED <<wSession, wPooled, wChan, wCaller, wClient, wReader, wPanicked>>
  BY DEF Relay!Cancel, Relay!Watch
<1>2. /\ wPending' \in {wPending, wPending \ {r}} /\ wShut' \in {wShut, wShut \cup {r}}
      /\ wCancelled' \in {wCancelled, wCancelled \cup {r}}
      /\ wWatch' \in {wWatch, [wWatch EXCEPT ![r] = "off"]}
      /\ r \in wShut' => r \in wShut \/ r \in wCancelled'
      /\ wPending' # wPending \/ wShut' # wShut => ~Relay!Held(r)
      /\ ~Early(r)
  <2>1. CASE Relay!Cancel(r)
    BY <2>1 DEF Relay!Cancel, Early
  <2>2. CASE Relay!Watch(r)
    <3>1. ~Early(r)
      BY <2>2, RequestTypes DEF Relay!Watch, Fine, Flow, Unsent, Early
    <3>2. r \in wPending /\ Relay!Held(r) => UNCHANGED <<wPending, wShut>>
      BY <2>2 DEF Relay!Watch, Relay!MayClose
    <3>3. r \notin wPending => UNCHANGED wShut /\ wPending' = wPending
      BY <2>2 DEF Relay!Watch
    <3> QED BY <2>2, <3>1, <3>2, <3>3 DEF Relay!Watch
  <2> QED BY <2>1, <2>2
<1>3. Relay!TypeOK'
  BY <1>1, <1>2 DEF RelayInv, Relay!TypeOK
<1>4. \A q \in Relayed \ {r} : Aside(q)
  BY <1>1, <1>2 DEF Aside, Relay!Held, RelayInv, Relay!TypeOK
<1>5. Fine(r)'
  <2>1. CASE wCaller[r].pc = "done"
    BY <1>1, <1>2, <2>1, RequestTypes DEF Fine, Returned, Relay!Held
  <2>2. CASE wCaller[r].pc # "done"
    <3>1. Flow(r)
      BY <2>2, RequestTypes DEF Fine
    <3>2. Unsent(r)'
      BY <1>1, <1>2, <3>1 DEF Flow, Unsent, Early, Relay!Looking, Relay!Held
    <3>3. InOrder(r)'
      BY <1>1, <3>1 DEF Flow, InOrder, Lead
    <3>4. Upcoming(r)'
      BY <1>1, <1>2, <3>1 DEF Flow, Upcoming, Lead, Begun, Relay!Held
    <3>5. NothingLost(r)'
      BY <1>1, <1>2, <3>1 DEF Flow, NothingLost, Lead, Begun, Relay!Held
    <3>6. Flow(r)'
      BY <1>1, <1>2, <3>1, <3>2, <3>3, <3>4, <3>5 DEF Flow, Last
    <3> QED BY <1>1, <2>2, <3>6 DEF Fine
  <2> QED BY <2>1, <2>2
<1>6. RelayReaderFine'
  BY <1>1 DEF RelayInv, RelayReaderFine
<1> QED BY <1>1, <1>3, <1>4, <1>5, <1>6, OneMoves DEF RelayInv

(* A caller that returns. *)
LEMMA ReturnsKeeps ==
    ASSUME Relay!BoundsAssumption, RelayInv, NEW r \in Relayed, wCaller[r].pc = "wait",
           NEW result \in {"ok", "error", "cancelled"},
           wCaller' = Relay!Returns(r, result), wChan' = wChan \/ wChan' = Relay!Drained(r),
           result = "ok" /\ r \notin wCancelled =>
              wClient[r].state = "over" /\ wCaller[r].got = wClient[r].sent,
           UNCHANGED <<wSession, wPooled, wPending, wShut, wCancelled, wWatch, wClient, wReader,
           wPanicked>>
    PROVE  RelayInv'
<1>1. /\ wCaller'[r].pc = "done" /\ wCaller'[r].result = result /\ wCaller'[r].got = wCaller[r].got
      /\ wCaller' \in [Relayed -> RelayCall] /\ \A q \in Relayed \ {r} : wCaller'[q] = wCaller[q]
  <2> DEFINE c == [wCaller[r] EXCEPT !.pc = "done", !.result = result]
  <2>1. c \in RelayCall /\ c.pc = "done" /\ c.result = result /\ c.got = wCaller[r].got
    BY RequestTypes DEF RelayCall, Relay!Results
  <2>2. wCaller' = [wCaller EXCEPT ![r] = c]
    BY DEF Relay!Returns
  <2> HIDE DEF c
  <2> QED BY <2>1, <2>2, RequestTypes
<1>2. /\ wChan' \in [Relayed -> Seq(Relay!Types)] /\ \A q \in Relayed : Len(wChan'[q]) <= Capacity
      /\ \A q \in Relayed \ {r} : wChan'[q] = wChan[q]
  <2>1. CASE wChan' = wChan
    BY <2>1, RequestTypes
  <2>2. CASE wChan' = Relay!Drained(r)
    <3>1. \A q \in Relayed \ {r} : wChan'[q] = wChan[q]
      BY <2>2, RequestTypes DEF Relay!Drained
    <3>2. wChan'[r] = <<>> /\ wChan' \in [Relayed -> Seq(Relay!Types)]
      BY <2>2, RequestTypes DEF Relay!Drained
    <3>3. Len(wChan'[r]) <= Capacity
      BY <3>2 DEF Relay!BoundsAssumption
    <3> QED BY <3>1, <3>2, <3>3, RequestTypes
  <2> QED BY <2>1, <2>2
<1>3. Relay!TypeOK'
  BY <1>1, <1>2 DEF RelayInv, Relay!TypeOK, RelayCall
<1>4. \A q \in Relayed \ {r} : Aside(q)
  BY <1>1, <1>2 DEF Aside, Relay!Held
<1>5. Fine(r)'
  <2>1. Relay!Held(r) => r \in wPending /\ r \notin wShut
    BY RequestTypes DEF Fine, Flow, Upcoming
  <2> QED BY <1>1, <2>1 DEF Fine, Returned, Relay!Held
<1>6. RelayReaderFine'
  BY DEF RelayInv, RelayReaderFine
<1> QED BY <1>3, <1>4, <1>5, <1>6, OneMoves DEF RelayInv

(* A caller returns: the answer is over, the session is gone or the caller  *)
(* gave up.                                                                 *)
LEMMA LeaveKeeps ==
    ASSUME Relay!BoundsAssumption, RelayInv, NEW r \in Relayed, Relay!SeeClosed(r)
           \/ Relay!SeeCancelled(r)
    PROVE  RelayInv'
<1>1. CASE Relay!SeeClosed(r)
  <2>1. r \in wCancelled
    <3>1. r \in wShut \ wCancelled => Last(r)
      BY <1>1, RequestTypes DEF Relay!SeeClosed, Fine, Flow
    <3>2. ~Last(r)
      BY <1>1 DEF Relay!SeeClosed, Last
    <3> QED BY <1>1, <3>1, <3>2 DEF Relay!SeeClosed
  <2>2. PICK result \in {"ok", "error", "cancelled"} : wCaller' = Relay!Returns(r, result)
    BY <1>1 DEF Relay!SeeClosed
  <2> QED BY <1>1, <2>1, <2>2, ReturnsKeeps DEF Relay!SeeClosed
<1>2. CASE Relay!SeeCancelled(r)
  BY <1>2, ReturnsKeeps DEF Relay!SeeCancelled
<1> QED BY <1>1, <1>2

(* The head of the channel, and what is left. *)
LEMMA HeadTail ==
    ASSUME RelayInv, NEW r \in Relayed, wChan[r] # <<>>
    PROVE  /\ Len(wChan[r]) > 0 /\ wChan[r][1] = Head(wChan[r]) /\ Head(wChan[r]) \in Relay!Types
           /\ Tail(wChan[r]) \in Seq(Relay!Types) /\ Len(Tail(wChan[r])) = Len(wChan[r]) - 1
           /\ \A i \in 1..Len(Tail(wChan[r])) : i + 1 \in 1..Len(wChan[r])
              /\ Tail(wChan[r])[i] = wChan[r][i + 1]
<1> DEFINE s == wChan[r]
<1>1. s \in Seq(Relay!Types) /\ s # <<>>
  BY RequestTypes
<1> HIDE DEF s
<1>2. /\ Len(s) > 0 /\ s[1] = Head(s) /\ Head(s) \in Relay!Types
      /\ Tail(s) \in Seq(Relay!Types) /\ Len(Tail(s)) = Len(s) - 1
      /\ \A i \in 1..Len(Tail(s)) : i + 1 \in 1..Len(s) /\ Tail(s)[i] = s[i + 1]
  BY <1>1
<1> QED BY <1>2 DEF s

(* What a piece makes of the caller. *)
Took(c, g) == [c EXCEPT !.streaming = TRUE, !.got = g]

(* What Took makes of a caller.                                             *)
LEMMA TookFields ==
    ASSUME NEW c \in RelayCall, NEW g
    PROVE  /\ Took(c, g).streaming /\ Took(c, g).pc = c.pc /\ Took(c, g).result = c.result
           /\ Took(c, g).got = g /\ Took(c, g).kind = c.kind
           /\ g \in 0..MaxChunks => Took(c, g) \in RelayCall
BY DEF Took, RelayCall

(* One piece fewer in the channel is one more taken.                        *)
LEMMA OneFewer ==
    ASSUME NEW r, NEW n \in Nat,
           wCaller[r].got \in Nat, wCaller'[r].got \in Nat, Lead(r) \in {0, 1},
           wCaller'[r].got = wCaller[r].got + 1 - Lead(r)
    PROVE  /\ wCaller'[r].got + (n - 1) - 0 = wCaller[r].got + n - Lead(r)
           /\ wCaller[r].got + n + 1 - Lead(r) = wCaller'[r].got + (n - 1) + 1 - 0
<1> DEFINE g == wCaller[r].got  g2 == wCaller'[r].got  l == Lead(r)
<1>1. g \in Nat /\ g2 \in Nat /\ l \in {0, 1} /\ g2 = g + 1 - l
  OBVIOUS
<1> HIDE DEF g, g2, l
<1>2. g2 + (n - 1) - 0 = g + n - l
  BY <1>1
<1>3. g + n + 1 - l = g2 + (n - 1) + 1 - 0
  BY <1>1
<1> QED BY <1>2, <1>3 DEF g, g2, l

(* Taking a start or a chunk keeps the order and the count of the rest.     *)
LEMMA PieceFlow ==
    ASSUME Relay!BoundsAssumption, NEW r \in Relayed, Flow(r), wCaller[r] \in RelayCall,
           wClient[r] \in Answered,
           wReader.type \in Relay!Types, wCaller[r].pc = "wait", NEW n, n = Len(wChan[r]),
           n \in Nat, n > 0,
           wChan[r][1] \in {"start", "chunk"}, Len(wChan'[r]) = n - 1,
           \A i \in 1..Len(wChan'[r]) : i + 1 \in 1..n /\ wChan'[r][i] = wChan[r][i + 1],
           wCaller'[r].streaming, wCaller'[r].pc = "wait", wCaller'[r].result = wCaller[r].result,
           wCaller'[r].got = wCaller[r].got + 1 - Lead(r), wCaller'[r].got \in 0..MaxChunks,
           UNCHANGED <<wPending, wShut, wCancelled, wWatch, wClient, wReader>>
    PROVE  Flow(r)'
<1>1. Unsent(r)'
  <2>1. wClient[r].state \notin {"idle", "asked"}
    <3>1. wCaller[r].streaming \/ wChan[r][1] = "start" \/ wChan[r][1] = "chunk"
      OBVIOUS
    <3>2. wClient[r].state \in {"idle", "asked"} => wClient[r].sent = 0 /\ ~wCaller[r].streaming
      BY DEF Flow, Unsent
    <3>3. wChan[r][1] = "chunk" => wCaller[r].got + 1 - Lead(r) <= wClient[r].sent
          /\ wCaller[r].streaming
      BY DEF Flow, InOrder
    <3>4. wChan[r][1] = "start" => wClient[r].state \notin {"idle", "asked"}
      BY DEF Flow, InOrder
    <3> QED BY <3>1, <3>2, <3>3, <3>4
  <2> QED BY <2>1 DEF Unsent, Early, Relay!Looking
<1> DEFINE g == wCaller[r].got  g2 == wCaller'[r].got  l == Lead(r)
<1>2. g \in Nat /\ g2 \in Nat /\ l \in {0, 1} /\ g2 = g + 1 - l /\ Lead(r)' = 0
      /\ wClient[r].sent \in Nat
  BY DEF Lead, RelayCall, Answered
<1>3. InOrder(r)'
  <2> SUFFICES ASSUME NEW i \in 1..Len(wChan'[r])
               PROVE  /\ wChan'[r][i] \notin {"start", "response"}
                      /\ wChan'[r][i] = "chunk" => g2 + i - 0 <= wClient[r].sent
                      /\ wChan'[r][i] = "end" => /\ wClient[r].state = "over"
                                               /\ wClient[r].sent = g2 + i - 1 - 0
    BY <1>2 DEF InOrder
  <2>1. i + 1 \in 1..n /\ wChan'[r][i] = wChan[r][i + 1] /\ i \in Nat /\ i > 0
    OBVIOUS
  <2>2. /\ wChan[r][i + 1] \notin {"start", "response"}
        /\ wChan[r][i + 1] = "chunk" => g + (i + 1) - l <= wClient[r].sent
        /\ wChan[r][i + 1] = "end" => /\ wClient[r].state = "over"
                                    /\ wClient[r].sent = g + (i + 1) - 1 - l
    BY <2>1 DEF Flow, InOrder
  <2> HIDE DEF g, g2, l
  <2> QED BY <1>2, <2>1, <2>2
<1>4. Begun(r)' /\ Begun(r)
  BY DEF Begun
<1>5. g2 + Len(wChan'[r]) - 0 = g + Len(wChan[r]) - l
      /\ g + Len(wChan[r]) + 1 - l = g2 + Len(wChan'[r]) + 1 - 0
  <2>1. /\ g2 + (n - 1) - 0 = g + n - l
        /\ g + n + 1 - l = g2 + (n - 1) + 1 - 0
    BY <1>2, OneFewer
  <2>2. Len(wChan'[r]) = n - 1 /\ Len(wChan[r]) = n
    OBVIOUS
  <2> HIDE DEF g, g2, l
  <2> QED BY <2>1, <2>2, Zenon
<1>6. Upcoming(r)'
  <2> SUFFICES ASSUME Relay!Held(r)
               PROVE  Upcoming(r)'
    BY DEF Upcoming, Relay!Held
  <2>1. wReader.type \in {"chunk", "end", "error"}
    BY RequestTypes DEF Flow, Upcoming, Relay!Types, Relay!Terminal
  <2>3. CASE wReader.type = "chunk"
    BY <1>2, <1>4, <1>5, <2>3 DEF Flow, Upcoming
  <2>4. CASE wReader.type = "end"
    BY <1>2, <1>4, <1>5, <2>4 DEF Flow, Upcoming
  <2>5. CASE wReader.type = "error"
    BY <2>5 DEF Flow, Upcoming
  <2> QED BY <2>1, <2>3, <2>4, <2>5
<1>7. NothingLost(r)'
  BY <1>2, <1>4, <1>5 DEF Flow, NothingLost, Relay!Held
<1>8. Last(r) => Last(r)'
  <2> SUFFICES ASSUME NEW i \in 1..n, wChan[r][i] \in Relay!Terminal
               PROVE  Last(r)'
    BY DEF Last
  <2>1. i # 1
    BY DEF Relay!Terminal
  <2>2. i - 1 \in 1..Len(wChan'[r]) /\ wChan'[r][i - 1] = wChan[r][(i - 1) + 1] /\ (i - 1) + 1 = i
    BY <2>1
  <2>3. wChan'[r][i - 1] \in Relay!Terminal
    BY <2>2
  <2> QED BY <2>2, <2>3 DEF Last
<1> QED BY <1>1, <1>3, <1>6, <1>7, <1>8 DEF Flow
(* A piece of an answer is received. *)
LEMMA PieceKeeps ==
    ASSUME Relay!BoundsAssumption, RelayInv, NEW r \in Relayed, wCaller[r].pc = "wait",
           wChan[r] # <<>>,
           Head(wChan[r]) \in {"start", "chunk"},
           wChan' = [wChan EXCEPT ![r] = Tail(@)],
           wCaller' = [wCaller EXCEPT ![r].streaming = TRUE,
                         ![r].got = IF Head(wChan[r]) = "start" /\ wCaller[r].kind = "NonStream"
                         THEN 0
                                    ELSE IF Head(wChan[r]) = "chunk" THEN @ + 1 ELSE @],
           UNCHANGED <<wSession, wPooled, wPending, wShut, wCancelled, wWatch, wClient, wReader,
           wPanicked>>
    PROVE  RelayInv'
<1> DEFINE n == Len(wChan[r])
<1>1. /\ Flow(r) /\ wCaller[r] \in RelayCall /\ wClient[r] \in Answered /\ n \in Nat /\ n > 0
      /\ wChan[r][1] = Head(wChan[r])
  BY RequestTypes, HeadTail DEF Fine
<1>2. wChan'[r] = Tail(wChan[r]) /\ Len(wChan'[r]) = n - 1
      /\ \A i \in 1..Len(wChan'[r]) : i + 1 \in 1..n /\ wChan'[r][i] = wChan[r][i + 1]
  BY HeadTail, RequestTypes
<1>3. /\ wCaller'[r].streaming /\ wCaller'[r].pc = "wait" /\ wCaller'[r].result = wCaller[r].result
      /\ wCaller'[r].got = wCaller[r].got + 1 - Lead(r)
      /\ wCaller'[r].got \in 0..MaxChunks /\ wCaller'[r].kind = wCaller[r].kind
  <2>1. CASE Head(wChan[r]) = "start"
    <3>1. ~wCaller[r].streaming /\ wCaller[r].got = 0
      BY <1>1, <2>1 DEF Flow, InOrder
    <3>2. wCaller'[r] = Took(wCaller[r], 0)
      BY <2>1, <3>1, RequestTypes DEF RelayCall, Took
    <3>3. /\ wCaller'[r].streaming /\ wCaller'[r].pc = "wait"
             /\ wCaller'[r].result = wCaller[r].result
          /\ wCaller'[r].got = 0 /\ wCaller'[r].kind = wCaller[r].kind
      <4>1. /\ Took(wCaller[r], 0).streaming /\ Took(wCaller[r], 0).pc = wCaller[r].pc
            /\ Took(wCaller[r], 0).result = wCaller[r].result
            /\ Took(wCaller[r], 0).got = 0 /\ Took(wCaller[r], 0).kind = wCaller[r].kind
        BY <1>1, TookFields
      <4> QED BY <3>2, <4>1
    <3> QED BY <3>1, <3>3 DEF Lead, Relay!BoundsAssumption
  <2>2. CASE Head(wChan[r]) = "chunk"
    <3>1. wCaller[r].streaming /\ wCaller[r].got + 1 - 0 <= wClient[r].sent
      <4>1. wCaller[r].streaming /\ wCaller[r].got + 1 - Lead(r) <= wClient[r].sent
        BY <1>1, <2>2 DEF Flow, InOrder
      <4> QED BY <4>1 DEF Lead
    <3>2. wCaller'[r] = Took(wCaller[r], wCaller[r].got + 1)
      BY <2>2, RequestTypes DEF RelayCall, Took
    <3>3. wCaller[r].got \in Nat /\ wClient[r].sent \in 0..MaxChunks
      BY <1>1 DEF RelayCall, Answered
    <3>4. wCaller[r].got + 1 \in 0..MaxChunks
      BY <3>1, <3>3 DEF Relay!BoundsAssumption
    <3>5. /\ wCaller'[r].streaming /\ wCaller'[r].pc = "wait"
             /\ wCaller'[r].result = wCaller[r].result
          /\ wCaller'[r].got = wCaller[r].got + 1 /\ wCaller'[r].kind = wCaller[r].kind
      <4> DEFINE g == wCaller[r].got + 1
      <4>1. /\ Took(wCaller[r], g).streaming /\ Took(wCaller[r], g).pc = wCaller[r].pc
            /\ Took(wCaller[r], g).result = wCaller[r].result
            /\ Took(wCaller[r], g).got = g /\ Took(wCaller[r], g).kind = wCaller[r].kind
        <5> HIDE DEF g
        <5> QED BY <1>1, TookFields
      <4> QED BY <3>2, <4>1
    <3> QED BY <3>1, <3>3, <3>4, <3>5 DEF Lead
  <2> QED BY <2>1, <2>2
<1>4. Relay!TypeOK'
  <2>1. wCaller'[r] \in RelayCall
    <3>1. wCaller'[r] = Took(wCaller[r], wCaller'[r].got)
      BY RequestTypes DEF RelayCall, Took
    <3> QED BY <1>1, <1>3, <3>1, TookFields
  <2>2. wCaller' \in [Relayed -> RelayCall]
    BY <2>1, RequestTypes
  <2>3. wChan' \in [Relayed -> Seq(Relay!Types)] /\ \A q \in Relayed : Len(wChan'[q]) <= Capacity
    <3>1. wChan'[r] \in Seq(Relay!Types)
      BY <1>2, HeadTail
    <3>2. Len(wChan'[r]) <= Capacity
      BY <1>2, <1>1, RequestTypes DEF Relay!BoundsAssumption
    <3>3. \A q \in Relayed \ {r} : wChan'[q] = wChan[q]
      BY RequestTypes
    <3> QED BY <3>1, <3>2, <3>3, RequestTypes
  <2> QED BY <2>2, <2>3 DEF RelayInv, Relay!TypeOK, RelayCall
<1>5. \A q \in Relayed \ {r} : Aside(q)
  BY RequestTypes DEF Aside, Relay!Held
<1>6. Flow(r)'
  BY <1>1, <1>2, <1>3, RequestTypes, PieceFlow
<1>7. RelayReaderFine'
  BY DEF RelayInv, RelayReaderFine
<1> QED BY <1>3, <1>4, <1>5, <1>6, <1>7, OneMoves DEF RelayInv, Fine

(* The caller takes the next message of its channel.                        *)
LEMMA ReceiveKeeps ==
    ASSUME Relay!BoundsAssumption, RelayInv, NEW r \in Relayed, Relay!Receive(r)
    PROVE  RelayInv'
<1> DEFINE type == Head(wChan[r])
<1>1. /\ wCaller[r].pc = "wait" /\ wChan[r] # <<>> /\ type \in Relay!Types
      /\ UNCHANGED <<wSession, wPooled, wPending, wShut, wCancelled, wWatch, wClient, wReader,
         wPanicked>>
      /\ Flow(r) /\ wChan[r][1] = type /\ 1 \in 1..Len(wChan[r])
      /\ wCaller[r] \in RelayCall /\ wClient[r] \in Answered
  BY HeadTail, RequestTypes DEF Relay!Receive, Fine
<1>2. CASE type \in {"start", "chunk"}
  <2>1. /\ wChan' = [wChan EXCEPT ![r] = Tail(@)]
        /\ wCaller' = [wCaller EXCEPT ![r].streaming = TRUE,
                         ![r].got = IF type = "start" /\ wCaller[r].kind = "NonStream" THEN 0
                                    ELSE IF type = "chunk" THEN @ + 1 ELSE @]
    BY <1>2 DEF Relay!Receive, Relay!Terminal
  <2> QED BY <1>1, <1>2, <2>1, PieceKeeps
<1>3. CASE type = "error"
  BY <1>1, <1>3, ReturnsKeeps DEF Relay!Receive, Relay!Terminal
<1>4. CASE type \in {"response", "end"}
  <2>1. wClient[r].state = "over" /\ wCaller[r].got = wClient[r].sent
    <3>1. CASE type = "response"
      BY <1>1, <3>1 DEF Flow, InOrder
    <3>2. CASE type = "end"
      <4>1. /\ wCaller[r].streaming /\ wClient[r].state = "over"
            /\ wClient[r].sent = wCaller[r].got + 1 - 1 - Lead(r)
        BY <1>1, <3>2 DEF Flow, InOrder
      <4>2. Lead(r) = 0 /\ wCaller[r].got \in Nat
        BY <1>1, <4>1 DEF Lead, RelayCall
      <4> QED BY <4>1, <4>2
    <3> QED BY <1>4, <3>1, <3>2
  <2>2. wChan' = Relay!Drained(r) /\ wCaller' = Relay!Returns(r, "ok")
    BY <1>4 DEF Relay!Receive, Relay!Terminal
  <2> QED BY <1>1, <2>1, <2>2, ReturnsKeeps
<1> QED BY <1>1, <1>2, <1>3, <1>4 DEF Relay!Types, Relay!Terminal

(* The client's message and the reader's look at the map. *)
LEMMA AnswerKeeps ==
    ASSUME Relay!BoundsAssumption, RelayInv, NEW r \in Relayed, NEW type \in Relay!Types,
           Relay!Answer(r, type)
    PROVE  RelayInv'
<1> DEFINE s == wClient[r].state  n == wClient[r].sent
<1>1. /\ UNCHANGED <<wSession, wPooled, wPending, wChan, wShut, wCancelled, wCaller, wWatch,
         wPanicked>>
      /\ wReader.pc = "read" /\ r \notin wPending \cap wShut
      /\ wReader' = IF r \in wPending THEN [pc |-> "found", req |-> r, type |-> type] ELSE wReader
  BY DEF Relay!Answer
<1>2. /\ s \in {"asked", "streaming"}
      /\ type \in {"response", "start"} => s = "asked"
      /\ type \in {"chunk", "end"} => s = "streaming"
      /\ type = "chunk" => n < MaxChunks
  BY DEF Relay!Answer, Relay!Types, Relay!Terminal
<1>3. wClient[r] \in Answered /\ wClient \in [Relayed -> Answered] /\ Fine(r) /\ n \in 0..MaxChunks
  BY RequestTypes DEF Answered
<1>4. /\ wClient'[r].state = IF type \in Relay!Terminal THEN "over" ELSE "streaming"
      /\ wClient'[r].sent = IF type = "chunk" THEN n + 1 ELSE n
      /\ \A q \in Relayed \ {r} : wClient'[q] = wClient[q]
      /\ wClient' \in [Relayed -> Answered]
  <2> DEFINE c == [wClient[r] EXCEPT !.state = IF type \in Relay!Terminal THEN "over"
      ELSE "streaming",
                                    !.sent = IF type = "chunk" THEN @ + 1 ELSE @]
  <2>1. wClient' = [wClient EXCEPT ![r] = c]
    BY DEF Relay!Answer
  <2>2. type = "chunk" => n + 1 \in 0..MaxChunks
    BY <1>2, <1>3 DEF Relay!BoundsAssumption
  <2>3. /\ c.state = IF type \in Relay!Terminal THEN "over" ELSE "streaming"
        /\ c.sent = IF type = "chunk" THEN n + 1 ELSE n
    BY <1>3 DEF Answered
  <2>4. c \in Answered
    BY <1>3, <2>2 DEF Answered
  <2> HIDE DEF c
  <2> QED BY <1>3, <2>1, <2>3, <2>4
<1>5. ~Relay!Held(r) /\ (Relay!Held(r)' <=> r \in wPending)
      /\ (Relay!Held(r)' => wReader'.type = type)
      /\ wReader'.pc # "remove"
  BY <1>1 DEF Relay!Held
<1>6. Relay!TypeOK'
  <2>1. wReader' \in [pc : {"read", "found", "remove", "ended"}, req : Relayed, type : Relay!Types]
    BY <1>1, RequestTypes
  <2> QED BY <1>1, <1>4, <2>1 DEF RelayInv, Relay!TypeOK, Answered
<1>7. \A q \in Relayed \ {r} : Aside(q)
  BY <1>1, <1>4 DEF Aside, Relay!Held
<1>8. RelayReaderFine'
  BY <1>1, <1>4 DEF RelayReaderFine
<1>9. Fine(r)'
  <2>1. CASE wCaller[r].pc = "done"
    BY <1>1, <1>2, <1>3, <1>5, <2>1 DEF Fine, Returned
  <2>2. CASE wCaller[r].pc # "done"
    <3>1. Flow(r) /\ ~Early(r)
      BY <1>2, <1>3, <2>2 DEF Fine, Flow, Unsent
    <3>2. wClient'[r].state \in {"streaming", "over"}
      BY <1>4
    <3>3. Unsent(r)'
      BY <1>1, <3>1, <3>2 DEF Unsent, Early, Relay!Looking
    <3>4. Lead(r)' = Lead(r) /\ Begun(r)' = Begun(r) /\ Lead(r) \in {0, 1}
          /\ wCaller[r].got \in Nat /\ Len(wChan[r]) \in Nat
      BY <1>1, RequestTypes DEF Lead, Begun, RelayCall
    <3>5. InOrder(r)'
      <4> SUFFICES ASSUME NEW i \in 1..Len(wChan[r])
                   PROVE  /\ wChan[r][i] = "start" => /\ i = 1 /\ ~wCaller[r].streaming
                                                      /\ wClient'[r].state \notin {"idle", "asked"}
                          /\ wChan[r][i] = "chunk" => /\ i > 1 \/ wCaller[r].streaming
                                                      /\ wCaller[r].got + i - Lead(r) <= wClient'[r].sent
                          /\ wChan[r][i] \notin {"end", "response"}
        BY <1>1, <3>4 DEF InOrder
      <4>1. wChan[r][i] \notin {"end", "response"}
        BY <1>2, <3>1 DEF Flow, InOrder
      <4>2. wChan[r][i] = "start" => i = 1 /\ ~wCaller[r].streaming
        BY <3>1 DEF Flow, InOrder
      <4>3. ASSUME wChan[r][i] = "chunk"
            PROVE  (i > 1 \/ wCaller[r].streaming)
                   /\ wCaller[r].got + i - Lead(r) <= wClient'[r].sent
        <5>1. (i > 1 \/ wCaller[r].streaming) /\ wCaller[r].got + i - Lead(r) <= n
          BY <3>1, <4>3 DEF Flow, InOrder
        <5>2. n \in Nat /\ wClient'[r].sent \in {n, n + 1}
          BY <1>3, <1>4
        <5>3. wCaller[r].got + i - Lead(r) \in Int
          BY <3>4
        <5> HIDE DEF n
        <5> QED BY <5>1, <5>2, <5>3
      <4> QED BY <3>2, <4>1, <4>2, <4>3
    <3>6. Upcoming(r)'
      <4> SUFFICES ASSUME r \in wPending, r \notin wShut PROVE Upcoming(r)'
        BY <1>1, <1>5 DEF Upcoming
      <4>0. wReader'.type = type
        BY <1>5
      <4>1. CASE type = "start"
        BY <1>1, <1>2, <1>4, <1>5, <3>1, <4>0, <4>1 DEF Flow, Unsent, Upcoming, Relay!Terminal
      <4>2. CASE type = "chunk"
        <5>1. Begun(r) /\ n = wCaller[r].got + Len(wChan[r]) - Lead(r)
          BY <1>2, <1>5, <3>1, <4>2 DEF Flow, NothingLost
        <5>2. n + 1 = wCaller[r].got + Len(wChan[r]) + 1 - Lead(r)
          BY <3>4, <5>1
        <5> QED BY <1>1, <1>4, <3>4, <4>0, <4>2, <5>1, <5>2 DEF Upcoming, Relay!Terminal
      <4>3. CASE type = "end"
        <5>1. Begun(r) /\ n = wCaller[r].got + Len(wChan[r]) - Lead(r)
          BY <1>2, <1>5, <3>1, <4>3 DEF Flow, NothingLost
        <5> QED BY <1>1, <1>4, <3>4, <4>0, <4>3, <5>1 DEF Upcoming, Relay!Terminal
      <4>4. CASE type = "response"
        BY <1>1, <1>2, <1>4, <1>5, <3>1, <4>0, <4>4 DEF Flow, Unsent, Upcoming, Relay!Terminal
      <4>5. CASE type = "error"
        BY <1>1, <1>4, <4>0, <4>5 DEF Upcoming, Relay!Terminal
      <4> QED BY <4>1, <4>2, <4>3, <4>4, <4>5 DEF Relay!Types, Relay!Terminal
    <3>7. NothingLost(r)'
      BY <1>1, <1>5 DEF NothingLost
    <3>8. Flow(r)'
      BY <1>1, <1>5, <3>1, <3>3, <3>5, <3>6, <3>7 DEF Flow, Last
    <3> QED BY <1>1, <2>2, <3>8 DEF Fine
  <2> QED BY <2>1, <2>2
<1> QED BY <1>1, <1>6, <1>7, <1>8, <1>9, OneMoves DEF RelayInv

(* A message is put into the channel, or dropped when nobody will read it. *)
LEMMA PutFields ==
    ASSUME Relay!BoundsAssumption, RelayInv, NEW r \in Relayed, NEW type \in Relay!Types,
           wChan' = Relay!Deliver(r, type)
    PROVE  /\ wChan' \in [Relayed -> Seq(Relay!Types)] /\ \A q \in Relayed :
              Len(wChan'[q]) <= Capacity
           /\ \A q \in Relayed \ {r} : wChan'[q] = wChan[q]
           /\ wCaller[r].pc # "done" /\ Len(wChan[r]) < Capacity =>
                /\ Len(wChan'[r]) = Len(wChan[r]) + 1 /\ wChan'[r][Len(wChan[r]) + 1] = type
                /\ \A i \in 1..Len(wChan[r]) : wChan'[r][i] = wChan[r][i]
<1>1. CASE wChan' = wChan /\ ~(wCaller[r].pc # "done" /\ Len(wChan[r]) < Capacity)
  BY <1>1, RequestTypes
<1>2. CASE wChan' = [wChan EXCEPT ![r] = Append(@, type)] /\ Len(wChan[r]) < Capacity
  <2>1. wChan'[r] = Append(wChan[r], type) /\ \A q \in Relayed \ {r} : wChan'[q] = wChan[q]
    BY <1>2, RequestTypes
  <2>2. /\ Append(wChan[r], type) \in Seq(Relay!Types)
           /\ Len(Append(wChan[r], type)) = Len(wChan[r]) + 1
        /\ Append(wChan[r], type)[Len(wChan[r]) + 1] = type
        /\ \A i \in 1..Len(wChan[r]) : Append(wChan[r], type)[i] = wChan[r][i]
    BY RequestTypes
  <2>3. Len(wChan[r]) + 1 <= Capacity
    BY <1>2, RequestTypes DEF Relay!BoundsAssumption
  <2>4. wChan' \in [Relayed -> Seq(Relay!Types)]
    BY <1>2, <2>2, RequestTypes
  <2> QED BY <2>1, <2>2, <2>3, <2>4, RequestTypes
<1> QED BY <1>1, <1>2 DEF Relay!Deliver

(* Dispatch puts the message into the channel of a caller that waits, and   *)
(* there is room (callers_keep_up).                                         *)
LEMMA DispatchAppends ==
    ASSUME Relay!BoundsAssumption, RelayInv, Relay!Dispatch, NEW r, r = wReader.req,
           wCaller[r].pc # "done"
    PROVE  /\ r \in Relayed /\ Flow(r) /\ Relay!Held(r) /\ wCaller[r].pc = "wait"
           /\ Len(wChan[r]) < Capacity
           /\ wClient[r].state \in {"streaming", "over"}
<1>1. r \in Relayed /\ Relay!Held(r) /\ wReader.pc = "found"
  BY RequestTypes DEF Relay!Dispatch, Relay!Held, RelayInv, Relay!TypeOK
<1>2. Flow(r) /\ wClient[r].state \in {"streaming", "over"}
  BY <1>1, RequestTypes DEF Fine, RelayInv, RelayReaderFine
<1>3. wCaller[r].pc = "wait"
  BY <1>1, <1>2, RequestTypes DEF Flow, Unsent, Early, RelayCall
<1> QED BY <1>1, <1>2, <1>3 DEF Relay!Dispatch, Relay!KeepsUp

(* What Dispatch appends comes next.                                        *)
LEMMA DispatchFlow ==
    ASSUME NEW r \in Relayed, Flow(r), Relay!Held(r), ~Relay!Held(r)', wCaller[r] \in RelayCall,
           wClient[r] \in Answered,
           wReader.type \in Relay!Types, wClient[r].state \in {"streaming", "over"},
           NEW n, n = Len(wChan[r]), n \in Nat, Len(wChan'[r]) = n + 1,
           wChan'[r][n + 1] = wReader.type,
           \A i \in 1..n : wChan'[r][i] = wChan[r][i],
           wReader'.pc = IF wReader.type \in Relay!Terminal THEN "remove" ELSE "read",
           wCaller[r].pc = "wait",
           UNCHANGED <<wPending, wShut, wCancelled, wWatch, wClient, wCaller>>
    PROVE  Flow(r)'
<1> DEFINE g == wCaller[r].got  l == Lead(r)  m == wClient[r].sent
<1>1. g \in Nat /\ l \in {0, 1} /\ m \in Nat /\ Lead(r)' = l
  BY DEF Lead, RelayCall, Answered
<1>2. Unsent(r)'
  BY DEF Unsent, Early, Relay!Looking
<1>3. Begun(r)' /\ 1..Len(wChan'[r]) = (1..n) \cup {n + 1}
  BY DEF Begun
<1>4. InOrder(r)'
  <2> SUFFICES ASSUME NEW i \in 1..Len(wChan'[r])
               PROVE  /\ wChan'[r][i] = "start" => /\ i = 1 /\ ~wCaller[r].streaming
                                                   /\ wClient[r].state \notin {"idle", "asked"}
                      /\ wChan'[r][i] = "chunk" => /\ i > 1 \/ wCaller[r].streaming
                                                   /\ g + i - l <= m
                      /\ wChan'[r][i] = "end" => /\ i > 1 \/ wCaller[r].streaming
                                                 /\ wClient[r].state = "over" /\ m = g + i - 1 - l
                      /\ wChan'[r][i] = "response" => /\ i = 1 /\ ~wCaller[r].streaming
                                                      /\ wClient[r].state = "over" /\ m = 0
    BY <1>1 DEF InOrder
  <2>1. CASE i \in 1..n
    BY <2>1 DEF Flow, InOrder
  <2>2. CASE i = n + 1
    <3>1. wChan'[r][i] = wReader.type
      BY <2>2
    <3>2. Begun(r) => i > 1 \/ wCaller[r].streaming
      BY <2>2 DEF Begun
    <3>3. CASE wReader.type \in {"start", "response"}
      BY <2>2, <3>1, <3>3 DEF Flow, Upcoming
    <3>4. CASE wReader.type = "chunk"
      <4>1. Begun(r) /\ m = g + n + 1 - l
        BY <3>4 DEF Flow, Upcoming
      <4>2. g + i - l <= m
        <5> HIDE DEF g, l, m
        <5> QED BY <1>1, <2>2, <4>1
      <4> QED BY <3>1, <3>2, <3>4, <4>1, <4>2
    <3>5. CASE wReader.type = "end"
      <4>1. Begun(r) /\ m = g + n - l /\ wClient[r].state = "over"
        BY <3>5 DEF Flow, Upcoming
      <4>2. m = g + i - 1 - l
        <5> HIDE DEF g, l, m
        <5> QED BY <1>1, <2>2, <4>1
      <4> QED BY <3>1, <3>2, <3>5, <4>1, <4>2
    <3>6. CASE wReader.type = "error"
      BY <3>1, <3>6
    <3> QED BY <3>3, <3>4, <3>5, <3>6 DEF Relay!Types, Relay!Terminal
  <2> QED BY <1>3, <2>1, <2>2
<1>5. Upcoming(r)'
  BY DEF Upcoming
<1>6. NothingLost(r)'
  <2> SUFFICES ASSUME wClient[r].state = "streaming"
               PROVE  wClient[r].sent = g + Len(wChan'[r]) - l
    BY <1>1, <1>3 DEF NothingLost
  <2>1. CASE wReader.type = "start"
    <3>1. wChan[r] = <<>> /\ ~wCaller[r].streaming /\ m = 0 /\ g = 0
      BY <2>1 DEF Flow, Upcoming
    <3>2. l = 1 /\ Len(wChan'[r]) = 1
      BY <3>1 DEF Lead
    <3> QED BY <3>1, <3>2
  <2>2. CASE wReader.type = "chunk"
    <3>1. m = g + n + 1 - l
      BY <2>2 DEF Flow, Upcoming
    <3> HIDE DEF g, l
    <3> QED BY <1>1, <3>1
  <2>3. CASE wReader.type \in Relay!Terminal
    BY <2>3 DEF Flow, Upcoming, Relay!Terminal
  <2> QED BY <2>1, <2>2, <2>3 DEF Relay!Types
<1>7. Last(r) => Last(r)'
  BY <1>3 DEF Last
<1>8. wReader'.pc = "remove" => Last(r)'
  BY <1>3 DEF Last
<1> QED BY <1>2, <1>4, <1>5, <1>6, <1>7, <1>8 DEF Flow

(* Dispatch, to a request that is pending or to one whose caller has        *)
(* returned.                                                                *)
LEMMA RelayDispatchKeeps ==
    ASSUME Relay!BoundsAssumption, RelayInv, Relay!Dispatch
    PROVE  RelayInv'
<1>0. wReader.req \in Relayed
  BY RequestTypes DEF RelayInv, Relay!TypeOK
<1> PICK r \in Relayed : r = wReader.req
  BY <1>0
<1>1. r \in Relayed /\ Relay!Held(r) /\ wReader.pc = "found" /\ wReader.type \in Relay!Types
  BY RequestTypes DEF Relay!Dispatch, Relay!Held, RelayInv, Relay!TypeOK
<1>2. r \notin wShut
  BY <1>1, RequestTypes DEF Fine, Returned, Flow, Upcoming
<1>3. /\ UNCHANGED <<wSession, wPooled, wPending, wShut, wCancelled, wCaller, wWatch, wClient,
         wPanicked>>
      /\ wChan' = Relay!Deliver(r, wReader.type)
      /\ wReader' = [wReader EXCEPT !.pc = IF wReader.type \in Relay!Terminal THEN "remove"
         ELSE "read"]
  BY <1>2 DEF Relay!Dispatch
<1>4. /\ wReader'.pc = IF wReader.type \in Relay!Terminal THEN "remove" ELSE "read"
      /\ wReader'.req = r /\ wReader'.type = wReader.type
      /\ wReader' \in [pc : {"read", "found", "remove", "ended"}, req : Relayed, type : Relay!Types]
  BY <1>3, RequestTypes
<1>5. \A q \in Relayed : ~Relay!Held(q)'
  BY <1>4 DEF Relay!Held
<1>6. Relay!TypeOK'
  BY <1>1, <1>3, <1>4, PutFields DEF RelayInv, Relay!TypeOK
<1>7. \A q \in Relayed \ {r} : Aside(q)
  BY <1>1, <1>3, <1>4, PutFields DEF Aside, Relay!Held
<1>8. RelayReaderFine'
  BY <1>1, <1>3, <1>4 DEF RelayInv, RelayReaderFine, Relay!Terminal
<1>9. Fine(r)'
  <2>1. CASE wCaller[r].pc = "done"
    BY <1>1, <1>3, <1>5, <2>1, RequestTypes DEF Fine, Returned
  <2>2. CASE wCaller[r].pc # "done"
    <3>1. /\ Flow(r) /\ wCaller[r].pc = "wait" /\ Len(wChan[r]) < Capacity
          /\ wClient[r].state \in {"streaming", "over"}
      BY <2>2, DispatchAppends
    <3>2. /\ Len(wChan'[r]) = Len(wChan[r]) + 1 /\ wChan'[r][Len(wChan[r]) + 1] = wReader.type
          /\ \A i \in 1..Len(wChan[r]) : wChan'[r][i] = wChan[r][i]
      BY <1>1, <1>3, <2>2, <3>1, PutFields
    <3>3. wCaller[r] \in RelayCall /\ wClient[r] \in Answered /\ Len(wChan[r]) \in Nat
      BY <1>1, RequestTypes
    <3>4. Flow(r)'
      BY <1>1, <1>3, <1>4, <1>5, <3>1, <3>2, <3>3, DispatchFlow
    <3> QED BY <1>3, <3>1, <3>4 DEF Fine
  <2> QED BY <2>1, <2>2
<1> QED BY <1>1, <1>3, <1>6, <1>7, <1>8, <1>9, OneMoves DEF RelayInv

(* After the end of an answer its request leaves the table and its channel  *)
(* is closed: nobody else has closed it (lookups_apart).                    *)
LEMMA RemoveKeeps ==
    ASSUME RelayInv, Relay!Remove
    PROVE  RelayInv'
<1>0. wReader.req \in Relayed
  BY DEF RelayInv, Relay!TypeOK
<1> PICK r \in Relayed : r = wReader.req
  BY <1>0
<1>1. /\ r \in Relayed /\ wReader.pc = "remove" /\ wClient[r].state = "over"
      /\ UNCHANGED <<wSession, wPooled, wChan, wCancelled, wCaller, wWatch, wClient, wPanicked>>
      /\ wPending' = wPending \ {r} /\ wShut' \in {wShut, wShut \cup {r}}
      /\ wReader' = [wReader EXCEPT !.pc = "read"]
  BY DEF Relay!Remove, RelayInv, RelayReaderFine, Relay!TypeOK
<1>2. /\ wReader'.pc = "read" /\ wReader'.req = r /\ wReader'.type = wReader.type
      /\ wReader' \in [pc : {"read", "found", "remove", "ended"}, req : Relayed, type : Relay!Types]
  BY <1>1, RequestTypes
<1>3. \A q \in Relayed : ~Relay!Held(q)' /\ ~Relay!Held(q)
  BY <1>1, <1>2 DEF Relay!Held
<1>4. Relay!TypeOK'
  BY <1>1, <1>2 DEF RelayInv, Relay!TypeOK
<1>5. \A q \in Relayed \ {r} : Aside(q)
  BY <1>1, <1>2, <1>3 DEF Aside
<1>6. RelayReaderFine'
  BY <1>2 DEF RelayReaderFine
<1>7. Fine(r)'
  <2>1. CASE wCaller[r].pc = "done"
    BY <1>1, <1>3, <2>1, RequestTypes DEF Fine, Returned
  <2>2. CASE wCaller[r].pc # "done"
    <3>1. Flow(r) /\ Last(r) /\ ~Early(r)
      BY <1>1, <2>2, RequestTypes DEF Fine, Flow, Unsent
    <3>2. Unsent(r)'
      BY <1>1, <3>1 DEF Unsent, Early, Relay!Looking
    <3>3. InOrder(r)'
      BY <1>1, <3>1 DEF Flow, InOrder, Lead
    <3>4. Upcoming(r)' /\ NothingLost(r)'
      BY <1>1, <1>3 DEF Upcoming, NothingLost
    <3>5. Flow(r)'
      BY <1>1, <1>2, <3>1, <3>2, <3>3, <3>4 DEF Flow, Last
    <3> QED BY <1>1, <2>2, <3>5 DEF Fine
  <2> QED BY <2>1, <2>2
<1> QED BY <1>1, <1>4, <1>5, <1>6, <1>7, OneMoves DEF RelayInv

(* The session is closed, and in the end disconnected. *)
LEMMA RelayCloseKeeps ==
    ASSUME RelayInv, (\E stop \in BOOLEAN : Relay!Close(stop)) \/ Relay!Sweep \/ Relay!Disconnect
           \/ UNCHANGED Relay!vars
    PROVE  RelayInv'
<1>1. /\ UNCHANGED <<wPending, wChan, wShut, wCancelled, wCaller, wWatch, wClient, wPanicked>>
      /\ wSession' \in {"live", "closed", "sweeping", "reset", "gone"} /\ wPooled' \in BOOLEAN
  BY DEF Relay!Close, Relay!Sweep, Relay!Disconnect, Relay!vars, RelayInv, Relay!TypeOK
<1>2. /\ wReader' \in [pc : {"read", "found", "remove", "ended"}, req : Relayed, type : Relay!Types]
      /\ wReader'.req = wReader.req /\ wReader'.type = wReader.type
      /\ wReader'.pc = wReader.pc \/ (wReader.pc = "read" /\ wReader'.pc = "ended")
  <2>1. wReader \in [pc : {"read", "found", "remove", "ended"}, req : Relayed, type : Relay!Types]
    BY DEF RelayInv, Relay!TypeOK
  <2>2. wReader' = wReader \/ (wReader.pc = "read" /\ wReader' = [wReader EXCEPT !.pc = "ended"])
    BY DEF Relay!Close, Relay!Sweep, Relay!Disconnect, Relay!vars
  <2> QED BY <2>1, <2>2
<1>3. Relay!TypeOK'
  BY <1>1, <1>2 DEF RelayInv, Relay!TypeOK
<1>4. \A q \in Relayed : Aside(q)
  BY <1>1, <1>2 DEF Aside, Relay!Held
<1>5. \A q \in Relayed : Fine(q)'
  BY <1>4, AsideFine, RequestTypes
<1>6. RelayReaderFine'
  BY <1>1, <1>2 DEF RelayInv, RelayReaderFine
<1> QED BY <1>1, <1>3, <1>5, <1>6 DEF RelayInv

(* cleanup tells a caller that waits, ... *)
LEMMA RelayFailKeeps ==
    ASSUME Relay!BoundsAssumption, RelayInv,
           NEW r \in Relayed, Relay!Fail(r)
    PROVE  RelayInv'
<1>1. /\ UNCHANGED <<wSession, wPooled, wPending, wCancelled, wCaller, wWatch, wClient, wReader,
         wPanicked>>
      /\ r \in wPending \ wShut /\ ~Relay!Held(r) /\ wShut' = wShut \cup {r}
         /\ wChan' = Relay!Deliver(r, "error")
      /\ wCaller[r].pc = "wait" => Len(wChan[r]) < Capacity
  BY DEF Relay!Fail, Relay!MayClose, Relay!KeepsUp
<1>2. "error" \in Relay!Types /\ "error" \in Relay!Terminal
  BY DEF Relay!Types, Relay!Terminal
<1>3. Relay!TypeOK'
  BY <1>1, <1>2, PutFields DEF RelayInv, Relay!TypeOK
<1>4. \A q \in Relayed \ {r} : Aside(q)
  BY <1>1, <1>2, PutFields DEF Aside, Relay!Held
<1>5. RelayReaderFine'
  BY <1>1 DEF RelayInv, RelayReaderFine
<1>6. Fine(r)'
  <2>1. CASE wCaller[r].pc = "done"
    BY <1>1, <2>1, RequestTypes DEF Fine, Returned, Relay!Held
  <2>2. CASE wCaller[r].pc # "done"
    <3>1. Flow(r) /\ wCaller[r] \in RelayCall /\ Len(wChan[r]) \in Nat
      BY <2>2, RequestTypes DEF Fine
    <3>2. Len(wChan[r]) < Capacity
      <4>1. CASE Early(r)
        <5>1. wChan[r] = <<>>
          BY <1>1, <3>1, <4>1 DEF Flow, Unsent
        <5> QED BY <5>1 DEF Relay!BoundsAssumption
      <4>2. CASE ~Early(r)
        BY <1>1, <2>2, <3>1, <4>2 DEF Early, RelayCall
      <4> QED BY <4>1, <4>2
    <3>3. /\ Len(wChan'[r]) = Len(wChan[r]) + 1 /\ wChan'[r][Len(wChan[r]) + 1] = "error"
          /\ \A i \in 1..Len(wChan[r]) : wChan'[r][i] = wChan[r][i]
      BY <1>1, <1>2, <2>2, <3>2, PutFields
    <3>4. Unsent(r)'
      BY <1>1, <3>1 DEF Flow, Unsent, Early, Relay!Looking, Relay!Held
    <3>5. InOrder(r)'
      <4>1. \A i \in 1..Len(wChan'[r]) : i \in 1..Len(wChan[r]) \/ wChan'[r][i] = "error"
        BY <3>1, <3>3
      <4>2. \A i \in 1..Len(wChan'[r]) : i \notin 1..Len(wChan[r])
            => wChan'[r][i] \notin {"start", "chunk", "end", "response"}
        BY <4>1
      <4>3. InOrder(r) /\ \A i \in 1..Len(wChan[r]) : wChan'[r][i] = wChan[r][i]
        BY <3>1, <3>3 DEF Flow
      <4> QED BY <1>1, <4>2, <4>3 DEF InOrder, Lead
    <3>6. Upcoming(r)' /\ NothingLost(r)'
      BY <1>1 DEF Upcoming, NothingLost, Relay!Held
    <3>7. Last(r)'
      <4>1. Len(wChan[r]) + 1 \in 1..Len(wChan'[r])
        BY <3>1, <3>3
      <4> QED BY <1>2, <3>3, <4>1 DEF Last
    <3>8. Flow(r)'
      BY <1>1, <3>1, <3>4, <3>5, <3>6, <3>7 DEF Flow
    <3> QED BY <1>1, <2>2, <3>8 DEF Fine
  <2> QED BY <2>1, <2>2
<1> QED BY <1>1, <1>3, <1>4, <1>5, <1>6, OneMoves DEF RelayInv

(* ... and forgets them all. *)
LEMMA ResetKeeps ==
    ASSUME RelayInv, Relay!Reset
    PROVE  RelayInv'
<1>1. /\ UNCHANGED <<wPooled, wChan, wShut, wCancelled, wCaller, wWatch, wClient, wReader,
         wPanicked>>
      /\ wPending' = {} /\ wSession' = "reset" /\ wPending \subseteq wShut /\ \A q \in Relayed :
         ~Relay!Looking(q)
  BY DEF Relay!Reset, Relay!MayReset
<1>2. Relay!TypeOK'
  BY <1>1 DEF RelayInv, Relay!TypeOK
<1>3. RelayReaderFine'
  BY <1>1 DEF RelayInv, RelayReaderFine
<1>4. ASSUME NEW q \in Relayed PROVE Fine(q)'
  <2>1. ~Relay!Held(q)
    BY <1>1, RequestTypes DEF Fine, Returned, Flow, Upcoming
  <2>2. CASE wCaller[q].pc = "done"
    BY <1>1, <2>1, <2>2, RequestTypes DEF Fine, Returned, Relay!Held
  <2>3. CASE wCaller[q].pc # "done"
    <3>1. Flow(q)
      BY <2>3, RequestTypes DEF Fine
    <3>2. Unsent(q)'
      BY <1>1, <3>1 DEF Flow, Unsent, Early, Relay!Looking, Relay!Held
    <3>3. InOrder(q)'
      BY <1>1, <3>1 DEF Flow, InOrder, Lead
    <3>4. Upcoming(q)' /\ NothingLost(q)'
      BY <1>1, <2>1 DEF Upcoming, NothingLost, Relay!Held
    <3>5. Flow(q)'
      BY <1>1, <3>1, <3>2, <3>3, <3>4 DEF Flow, Last
    <3> QED BY <1>1, <2>3, <3>5 DEF Fine
  <2> QED BY <2>2, <2>3
<1> QED BY <1>1, <1>2, <1>3, <1>4 DEF RelayInv

(* The invariant of the relay holds at the start.                           *)
LEMMA RelayStart ==
    ASSUME Relay!BoundsAssumption, Relay!Init
    PROVE  RelayInv
<1>1. (CHOOSE r \in Relayed : TRUE) \in Relayed
  BY DEF Relay!BoundsAssumption
<1>2. Relay!TypeOK
  <2>1. wChan \in [Relayed -> Seq(Relay!Types)] /\ \A r \in Relayed : Len(wChan[r]) <= Capacity
    BY DEF Relay!Init, Relay!BoundsAssumption
  <2>2. "error" \in Relay!Types /\ 0 \in 0..MaxChunks
    BY DEF Relay!Types, Relay!Terminal, Relay!BoundsAssumption
  <2> QED BY <1>1, <2>1, <2>2 DEF Relay!Init, Relay!TypeOK, Relay!Results
<1>3. ASSUME NEW r \in Relayed PROVE Flow(r)
  BY DEF Relay!Init, Flow, Unsent, Early, Relay!Looking, Relay!Held, InOrder, Upcoming,
     NothingLost, Last
<1> QED BY <1>2, <1>3 DEF Relay!Init, RelayInv, RelayReaderFine, Fine

(* Every step of the relay keeps its invariant.                             *)
LEMMA RelayMoves ==
    ASSUME Relay!BoundsAssumption, RelayInv, [Relay!Next]_(Relay!vars)
    PROVE  RelayInv'
<1>1. CASE \E r \in Relayed : Relay!Begin(r) \/ Relay!Proceed(r) \/ Relay!Cancel(r)
           \/ Relay!Watch(r) \/ Relay!Wait(r)
  BY <1>1, BeginKeeps, SendKeeps, WatchKeeps, ReceiveKeeps, LeaveKeeps DEF Relay!Proceed, Relay!Wait
<1>2. CASE \E r \in Relayed, type \in Relay!Types : Relay!Answer(r, type)
  BY <1>2, AnswerKeeps
<1>3. CASE Relay!Dispatch \/ Relay!Remove
  BY <1>3, RelayDispatchKeeps, RemoveKeeps
<1>4. CASE (\E stop \in BOOLEAN : Relay!Close(stop)) \/ Relay!Cleanup \/ UNCHANGED Relay!vars
  BY <1>4, RelayCloseKeeps, RelayFailKeeps, ResetKeeps DEF Relay!Cleanup
<1> QED BY <1>1, <1>2, <1>3, <1>4 DEF Relay!Next

(* What the invariant of the relay is for.                                  *)
LEMMA RelayHolds ==
    ASSUME RelayInv
    PROVE  Relay!NoPanic /\ Relay!SuccessIsComplete
BY DEF RelayInv, Relay!NoPanic, Relay!SuccessIsComplete, Fine, Returned, Flow

-----------------------------------------------------------------------------
\* Usage

(* Where a record is that has not been counted: in the queue, or with the   *)
(* worker, once.                                                            *)
Queued == {uQueue[i] : i \in 1..Len(uQueue)}

(* The record the worker holds.                                             *)
Held == IF uWorker.pc = "dispatch" THEN {uWorker.record} ELSE {}

(* A record is in one place: not yet published, in the queue, with the      *)
(* worker, or counted.                                                      *)
UsageInv ==
    /\ Usage!TypeOK
    /\ uWorker.pc = "dispatch" => uWorker.record \in Records
    /\ \A i, j \in 1..Len(uQueue) : uQueue[i] = uQueue[j] => i = j
    /\ Queued \cap Held = {}
    /\ (uExported \cup Usage!Seen) \cap (Queued \cup Held) = {}
    /\ \A r \in uExported \cup Usage!Seen \cup Queued \cup Held : uPublisher[r] # "new"
    /\ Usage!EachCountedOnce

(* Counting and summing mean the same in the instance.                      *)
LEMMA SameInUsage ==
    /\ \A S : Usage!IsFiniteSet(S) = IsFiniteSet(S)
    /\ \A S : Usage!Cardinality(S) = Cardinality(S)
    /\ \A f, S : Usage!SumFunctionOnSet(f, S) = SumFunctionOnSet(f, S)
<1>1. \A S : Usage!IsFiniteSet(S) = IsFiniteSet(S)
  BY DEF Usage!IsFiniteSet, IsFiniteSet
<1>2. \A S : Usage!Cardinality(S) = Cardinality(S)
  BY DEF Usage!Cardinality, Cardinality, Usage!IsFiniteSet, IsFiniteSet
<1>3. \A f, S : Usage!SumFunctionOnSet(f, S) = SumFunctionOnSet(f, S)
  BY DEF Usage!SumFunctionOnSet, Usage!FoldFunctionOnSet, Usage!MapThenFoldSet,
         SumFunctionOnSet, FoldFunctionOnSet, MapThenFoldSet
<1> QED BY <1>1, <1>2, <1>3

(* New records are counted once. *)
LEMMA CountedOnce ==
    ASSUME Usage!RecordsAssumption, Usage!TypeOK, Usage!EachCountedOnce, NEW new,
           new \subseteq Records, new \cap Usage!Seen = {},
           uStats' = Usage!Counted(new)
    PROVE  uStats' \in Usage!Stats /\ Usage!Seen' = Usage!Seen \cup new /\ Usage!EachCountedOnce'
<1> DEFINE old == Usage!Seen
<1> old \subseteq Records /\ new \cap old = {}
  BY DEF Usage!Seen
<1>1. uStats.details \in [Records -> Nat] /\ \A r \in Records : uStats.details[r] \in Nat
  BY DEF Usage!TypeOK, Usage!Stats
<1>2. uStats'.details = [r \in Records |-> uStats.details[r] + IF r \in new THEN 1 ELSE 0]
  BY DEF Usage!Counted
<1>3. \A r \in Records : uStats'.details[r] \in Nat
      /\ uStats'.details[r] = uStats.details[r] + IF r \in new THEN 1 ELSE 0
  BY <1>1, <1>2
<1>4. Usage!Seen' = old \cup new
  BY <1>1, <1>3 DEF Usage!Seen
<1>5. \A r \in Records : uStats'.details[r] <= 1
  <2>1. \A r \in new : uStats.details[r] = 0
    BY <1>1 DEF Usage!Seen
  <2> QED BY <1>1, <1>3, <2>1 DEF Usage!EachCountedOnce
<1> /\ uStats.total = Cardinality(old) /\ uStats.failure = Cardinality(old \cap Failing)
    /\ uStats.success + uStats.failure = uStats.total
    /\ uStats.tokens = SumFunctionOnSet(TokensOf, old)
    /\ uStats.success \in Nat /\ uStats.failure \in Nat /\ uStats.total \in Nat
    /\ uStats.tokens \in Nat
  BY SameInUsage DEF Usage!EachCountedOnce, Usage!TypeOK, Usage!Stats
<1> IsFiniteSet(old) /\ IsFiniteSet(new)
  BY FS_Subset, SameInUsage DEF Usage!RecordsAssumption
<1> HIDE DEF old
<1>6. /\ Cardinality(old \cup new) = Cardinality(old) + Cardinality(new)
      /\ Cardinality(new) \in Nat
  BY CountApart
<1>7. /\ Cardinality((old
         \cup new) \cap Failing) = Cardinality(old \cap Failing) + Cardinality(new \cap Failing)
      /\ Cardinality(new \cap Failing) \in Nat
  <2>1. /\ IsFiniteSet(old \cap Failing) /\ IsFiniteSet(new \cap Failing)
        /\ (old \cap Failing) \cap (new \cap Failing) = {}
        /\ (old \cup new) \cap Failing = (old \cap Failing) \cup (new \cap Failing)
    BY FS_Subset
  <2> QED BY <2>1, CountApart
<1>8. /\ Cardinality(new) = Cardinality(new \ Failing) + Cardinality(new \cap Failing)
      /\ Cardinality(new \ Failing) \in Nat
  <2>1. /\ IsFiniteSet(new \ Failing) /\ IsFiniteSet(new \cap Failing)
        /\ (new \ Failing) \cap (new \cap Failing) = {}
        /\ new = (new \ Failing) \cup (new \cap Failing)
    BY FS_Subset
  <2> QED BY <2>1, CountApart
<1>9. /\ SumFunctionOnSet(TokensOf, old \cup new)
           = SumFunctionOnSet(TokensOf, old) + SumFunctionOnSet(TokensOf, new)
      /\ SumFunctionOnSet(TokensOf, new) \in Nat
  BY SumApart, SumNat DEF Usage!RecordsAssumption
<1>10. /\ uStats'.total = uStats.total + Cardinality(new)
       /\ uStats'.success = uStats.success + Cardinality(new \ Failing)
       /\ uStats'.failure = uStats.failure + Cardinality(new \cap Failing)
       /\ uStats'.tokens = uStats.tokens + SumFunctionOnSet(TokensOf, new)
  BY SameInUsage DEF Usage!Counted
<1>11. uStats' \in Usage!Stats
  BY <1>3, <1>6, <1>7, <1>8, <1>9, SameInUsage DEF Usage!Counted, Usage!Stats
<1>12. /\ uStats'.total = Cardinality(old \cup new)
       /\ uStats'.failure = Cardinality((old \cup new) \cap Failing)
       /\ uStats'.success + uStats'.failure = uStats'.total
       /\ uStats'.tokens = SumFunctionOnSet(TokensOf, old \cup new)
  BY <1>6, <1>7, <1>8, <1>9, <1>10
<1>13. Usage!EachCountedOnce'
  BY <1>4, <1>5, <1>12, SameInUsage DEF Usage!EachCountedOnce
<1> QED BY <1>4, <1>11, <1>13 DEF old

(* The invariant of the statistics holds at the start.                      *)
LEMMA UsageStart ==
    ASSUME Usage!RecordsAssumption, Usage!Init
    PROVE  UsageInv
<1>1. Usage!Seen = {} /\ Queued = {} /\ Held = {}
  BY DEF Usage!Init, Usage!Seen, Queued, Held, Usage!NoStats
<1>2. Usage!NoStats \in Usage!Stats
  BY DEF Usage!Stats, Usage!NoStats
<1>3. Usage!TypeOK
  <2>1. uPublisher \in [Records -> {"new", "appended", "done"}] /\ uQueue \in Seq(Records)
    BY DEF Usage!Init
  <2>2. uImports \in 0..MaxImports
    BY DEF Usage!Init, Usage!RecordsAssumption
  <2> QED BY <1>2, <2>1, <2>2 DEF Usage!Init, Usage!TypeOK
<1>4. Usage!EachCountedOnce
  BY <1>1, FS_EmptySet, SumEmpty, SameInUsage DEF Usage!Init, Usage!NoStats, Usage!EachCountedOnce
<1> QED BY <1>1, <1>3, <1>4 DEF Usage!Init, UsageInv

(* Publish: a record goes into the queue, and the first one starts the      *)
(* worker.                                                                  *)
LEMMA PublishKeeps ==
    ASSUME Usage!RecordsAssumption, UsageInv, NEW r \in Records, Usage!Publish(r)
    PROVE  UsageInv'
<1>1. UNCHANGED <<uClosed, uWaiting, uEnabled, uStats, uExported, uImports>>
      /\ Usage!Seen' = Usage!Seen
      /\ uWorker' = Usage!Started /\ uPublisher[r] = "new"
  BY DEF Usage!Publish, Usage!counting, Usage!Seen
<1>2. Held' = Held /\ uWorker' \in [pc : {"none", "run", "dispatch", "ended"}, record : Records
      \cup {NoRecord}]
      /\ (uWorker'.pc = "dispatch" => uWorker'.record \in Records)
  BY <1>1 DEF Usage!Started, Held, UsageInv, Usage!TypeOK
<1>3. Usage!EachCountedOnce'
  BY <1>1 DEF UsageInv, Usage!EachCountedOnce
<1>4. uPublisher' \in [Records -> {"new", "appended", "done"}]
      /\ uPublisher'[r] # "new" /\ \A q \in Records : uPublisher[q] # "new"
         => uPublisher'[q] # "new"
  BY DEF Usage!Publish, UsageInv, Usage!TypeOK
<1>5. CASE UNCHANGED <<uQueue, uAccepted>>
  <2>1. Queued' = Queued
    BY <1>5 DEF Queued
  <2>2. Usage!TypeOK'
    BY <1>1, <1>2, <1>4, <1>5 DEF UsageInv, Usage!TypeOK
  <2>3. \A q \in uExported \cup Usage!Seen \cup Queued \cup Held : q \in Records
    BY DEF UsageInv, Usage!TypeOK, Usage!Seen, Queued, Held
  <2> QED BY <1>1, <1>2, <1>3, <1>4, <1>5, <2>1, <2>2, <2>3 DEF UsageInv
<1>6. CASE uQueue' = Append(uQueue, r) /\ uAccepted' = uAccepted \cup {r}
  <2>1. uQueue \in Seq(Records) /\ Len(uQueue) \in Nat
    BY DEF UsageInv, Usage!TypeOK
  <2>2. /\ Len(uQueue') = Len(uQueue) + 1 /\ uQueue' \in Seq(Records)
        /\ \A i \in 1..Len(uQueue') : uQueue'[i] = IF i = Len(uQueue) + 1 THEN r ELSE uQueue[i]
    BY <1>6, <2>1
  <2>3. Queued' = Queued \cup {r}
    <3>1. 1..Len(uQueue') = (1..Len(uQueue)) \cup {Len(uQueue) + 1}
      BY <2>1, <2>2
    <3> QED BY <2>1, <2>2, <3>1 DEF Queued
  <2>4. r \notin uExported \cup Usage!Seen \cup Queued \cup Held
    BY <1>1 DEF UsageInv
  <2>5. \A i, j \in 1..Len(uQueue') : uQueue'[i] = uQueue'[j] => i = j
    <3>1. \A i \in 1..Len(uQueue) : uQueue[i] # r
      BY <2>4 DEF Queued
    <3> QED BY <2>1, <2>2, <3>1 DEF UsageInv
  <2>6. Usage!TypeOK'
    BY <1>1, <1>2, <1>4, <1>6, <2>2 DEF UsageInv, Usage!TypeOK
  <2>7. \A q \in uExported \cup Usage!Seen \cup Queued \cup Held : q \in Records
    BY <2>1 DEF UsageInv, Usage!TypeOK, Usage!Seen, Queued, Held
  <2> QED BY <1>1, <1>2, <1>3, <1>4, <2>3, <2>4, <2>5, <2>6, <2>7 DEF UsageInv
<1> QED BY <1>5, <1>6 DEF Usage!Publish

(* The worker takes the oldest record.                                      *)
LEMMA TakeKeeps ==
    ASSUME Usage!RecordsAssumption, UsageInv, Usage!Take
    PROVE  UsageInv'
<1>1. /\ UNCHANGED <<uPublisher, uClosed, uWaiting, uAccepted, uEnabled, uStats, uExported,
         uImports>>
      /\ Usage!Seen' = Usage!Seen /\ Held = {} /\ Held' = {Head(uQueue)}
      /\ uWorker'.record = Head(uQueue)
      /\ uWorker' = [pc |-> "dispatch", record |-> Head(uQueue)] /\ uQueue' = Tail(uQueue)
      /\ uQueue \in Seq(Records) /\ uQueue # <<>>
  BY DEF Usage!Take, Usage!counting, Usage!Seen, Held, UsageInv, Usage!TypeOK
<1>2. Len(uQueue) \in Nat \ {0} /\ Head(uQueue) = uQueue[1] /\ Head(uQueue) \in Records
  BY <1>1
<1>3. /\ Len(uQueue') = Len(uQueue) - 1 /\ uQueue' \in Seq(Records)
      /\ \A i \in 1..Len(uQueue') : uQueue'[i] = uQueue[i + 1]
  BY <1>1, <1>2
<1>4. \A i \in 1..Len(uQueue') : i + 1 \in 1..Len(uQueue) /\ i + 1 # 1 /\ 1 \in 1..Len(uQueue)
  BY <1>2, <1>3
<1>5. \A i, j \in 1..Len(uQueue') : uQueue'[i] = uQueue'[j] => i = j
  BY <1>3, <1>4 DEF UsageInv
<1>6. Queued' \subseteq Queued /\ Head(uQueue) \in Queued
  <2>1. \A i \in 1..Len(uQueue') : uQueue'[i] \in Queued
    BY <1>3, <1>4 DEF Queued
  <2>2. 1 \in 1..Len(uQueue)
    BY <1>2
  <2> QED BY <1>2, <2>1, <2>2 DEF Queued
<1>7. Head(uQueue) \notin Queued'
  BY <1>2, <1>3, <1>4 DEF UsageInv, Queued
<1>8. Usage!EachCountedOnce'
  BY <1>1 DEF UsageInv, Usage!EachCountedOnce
<1>9. Usage!TypeOK'
  BY <1>1, <1>2, <1>3 DEF UsageInv, Usage!TypeOK
<1> QED BY <1>1, <1>2, <1>5, <1>6, <1>7, <1>8, <1>9 DEF UsageInv

(* The worker dispatches its record to the plugin, which counts it where    *)
(* statistics are enabled.                                                  *)
LEMMA UsageDispatchKeeps ==
    ASSUME Usage!RecordsAssumption, UsageInv, Usage!Dispatch
    PROVE  UsageInv'
<1> DEFINE r == uWorker.record
<1>1. /\ UNCHANGED <<uPublisher, uQueue, uClosed, uWaiting, uAccepted, uEnabled, uExported,
         uImports>>
      /\ uWorker.pc = "dispatch" /\ Held = {r} /\ Held' = {} /\ Queued' = Queued /\ r \in Records
      /\ uWorker' = [pc |-> "run", record |-> NoRecord]
      /\ uStats' = IF uEnabled THEN Usage!Counted({r}) ELSE uStats
  BY DEF Usage!Dispatch, Held, Queued, UsageInv
<1> HIDE DEF r
<1>2. r \notin Usage!Seen \cup uExported \cup Queued
  BY <1>1 DEF UsageInv
<1>3. uStats' \in Usage!Stats /\ Usage!Seen' \subseteq Usage!Seen \cup {r} /\ Usage!EachCountedOnce'
  <2>1. CASE uEnabled
    BY <1>1, <1>2, <2>1, CountedOnce DEF UsageInv
  <2>2. CASE ~uEnabled
    BY <1>1, <2>2 DEF UsageInv, Usage!TypeOK, Usage!EachCountedOnce, Usage!Seen
  <2> QED BY <2>1, <2>2
<1>4. Usage!TypeOK'
  BY <1>1, <1>3 DEF UsageInv, Usage!TypeOK
<1> QED BY <1>1, <1>2, <1>3, <1>4 DEF UsageInv

(* An import counts the records of the export that are not counted yet.     *)
LEMMA MergeKeeps ==
    ASSUME Usage!RecordsAssumption, UsageInv, Usage!MergeSnapshot
    PROVE  UsageInv'
<1>1. /\ UNCHANGED <<uPublisher, uQueue, uClosed, uWorker, uWaiting, uAccepted, uEnabled,
         uExported>>
      /\ uImports < MaxImports /\ uImports' = uImports + 1
      /\ uStats' = Usage!Counted(uExported \ Usage!Seen)
      /\ Held' = Held /\ Queued' = Queued /\ uExported \subseteq Records
  BY DEF Usage!MergeSnapshot, Held, Queued, UsageInv, Usage!TypeOK
<1>2. uStats' \in Usage!Stats /\ Usage!Seen' = Usage!Seen \cup uExported /\ Usage!EachCountedOnce'
  <2>1. uExported \ Usage!Seen \subseteq Records /\ (uExported \ Usage!Seen) \cap Usage!Seen = {}
    BY <1>1
  <2>2. uStats' \in Usage!Stats /\ Usage!Seen' = Usage!Seen \cup (uExported \ Usage!Seen)
        /\ Usage!EachCountedOnce'
    BY <1>1, <2>1, CountedOnce DEF UsageInv
  <2> QED BY <2>2
<1>3. uImports' \in 0..MaxImports
  BY <1>1 DEF UsageInv, Usage!TypeOK, Usage!RecordsAssumption
<1>4. Usage!TypeOK'
  BY <1>1, <1>2, <1>3 DEF UsageInv, Usage!TypeOK
<1> QED BY <1>1, <1>2, <1>4 DEF UsageInv

(* An export is what has been counted.                                      *)
LEMMA SnapshotKeeps ==
    ASSUME UsageInv, Usage!Snapshot
    PROVE  UsageInv'
<1>1. /\ UNCHANGED <<uPublisher, uQueue, uClosed, uWorker, uWaiting, uAccepted, uEnabled, uStats,
         uImports>>
      /\ uExported' = Usage!Seen /\ Usage!Seen' = Usage!Seen /\ Held' = Held /\ Queued' = Queued
      /\ Usage!Seen \subseteq Records
  BY DEF Usage!Snapshot, Held, Queued, Usage!Seen
<1>2. Usage!TypeOK'
  BY <1>1 DEF UsageInv, Usage!TypeOK
<1> QED BY <1>1, <1>2 DEF UsageInv, Usage!EachCountedOnce

(* A restart loses the statistics and the queue; the export is kept.        *)
LEMMA RestartKeeps ==
    ASSUME Usage!RecordsAssumption, UsageInv, Usage!Restart
    PROVE  UsageInv'
<1>1. Usage!Seen' = {} /\ Queued' = {} /\ Held' = {} /\ UNCHANGED <<uExported, uImports>>
  BY DEF Usage!Restart, Usage!Seen, Queued, Held, Usage!NoStats
<1>2. Usage!NoStats \in Usage!Stats
  BY DEF Usage!Stats, Usage!NoStats
<1>3. Usage!TypeOK'
  <2>1. uPublisher' \in [Records -> {"new", "appended", "done"}] /\ uQueue' \in Seq(Records)
    BY DEF Usage!Restart
  <2> QED BY <1>1, <1>2, <2>1 DEF Usage!Restart, Usage!TypeOK, UsageInv
<1>4. Usage!EachCountedOnce'
  BY <1>1, FS_EmptySet, SumEmpty, SameInUsage DEF Usage!Restart, Usage!NoStats,
     Usage!EachCountedOnce
<1>5. \A r \in uExported : uPublisher'[r] # "new"
  BY DEF Usage!Restart, UsageInv, Usage!TypeOK
<1> QED BY <1>1, <1>3, <1>4, <1>5 DEF UsageInv, Usage!Restart

(* Nothing else moves a record. *)
LEMMA UsageRestKeeps ==
    ASSUME UsageInv, Usage!Start \/ Usage!Stop \/ Usage!Sleep \/ Usage!End
           \/ Usage!SetStatisticsEnabled \/ (\E r \in Records : Usage!Signal(r))
           \/ UNCHANGED Usage!vars
    PROVE  UsageInv'
<1>1. /\ UNCHANGED <<uQueue, uAccepted, uStats, uExported, uImports>>
      /\ {uClosed', uWaiting', uEnabled'} \subseteq BOOLEAN
  BY DEF Usage!Start, Usage!Stop, Usage!Sleep, Usage!End, Usage!SetStatisticsEnabled,
     Usage!Signal, Usage!vars, Usage!counting, UsageInv, Usage!TypeOK
<1>2. /\ uPublisher' \in [Records -> {"new", "appended", "done"}]
      /\ \A q \in Records : uPublisher[q] # "new" => uPublisher'[q] # "new"
  BY DEF Usage!Start, Usage!Stop, Usage!Sleep, Usage!End, Usage!SetStatisticsEnabled,
     Usage!Signal, Usage!vars, Usage!counting, UsageInv, Usage!TypeOK
<1>3. /\ uWorker' \in [pc : {"none", "run", "dispatch", "ended"}, record : Records \cup {NoRecord}]
      /\ uWorker'.pc = "dispatch" <=> uWorker.pc = "dispatch"
      /\ uWorker'.record = uWorker.record
  BY DEF Usage!Start, Usage!Started, Usage!Stop, Usage!Sleep, Usage!End,
     Usage!SetStatisticsEnabled, Usage!Signal, Usage!vars, Usage!counting, UsageInv, Usage!TypeOK
<1>4. Usage!Seen' = Usage!Seen /\ Queued' = Queued /\ Held' = Held
  BY <1>1, <1>3 DEF Usage!Seen, Queued, Held
<1>5. Usage!TypeOK'
  BY <1>1, <1>2, <1>3 DEF UsageInv, Usage!TypeOK
<1>6. \A q \in uExported \cup Usage!Seen \cup Queued \cup Held : q \in Records
  BY DEF UsageInv, Usage!TypeOK, Usage!Seen, Queued, Held
<1>7. Usage!EachCountedOnce'
  BY <1>1, <1>4 DEF UsageInv, Usage!EachCountedOnce
<1> QED BY <1>1, <1>2, <1>3, <1>4, <1>5, <1>6, <1>7 DEF UsageInv

(* Every step of the statistics keeps their invariant.                      *)
LEMMA UsageMoves ==
    ASSUME Usage!RecordsAssumption, UsageInv, [Usage!Next]_(Usage!vars)
    PROVE  UsageInv'
BY PublishKeeps, TakeKeeps, UsageDispatchKeeps, MergeKeeps, SnapshotKeeps, RestartKeeps,
   UsageRestKeeps
   DEF Usage!Next, Usage!Worker

-----------------------------------------------------------------------------
\* CodexSession

(* Where a request has the mutex of the session, ...                        *)
Holding == Codex!Sending \cup {"read", "finish"}

(* ... and where it sends.                                                  *)
Writing == {"write", "again", "rewrite"}

(* The reader of a connection runs.                                         *)
Live(k) == xReader[k].pc \notin {"none", "ended"}

(* What is in a channel does not end the answer. *)
Goes(m) == m.event # None /\ m.event.last = "no"

(* Nothing in a channel ends the answer.                                    *)
GoesOn(c) == \A i \in 1..Len(xChan[c]) : Goes(xChan[c][i])

(* The request that has the mutex, and the one that is active. *)
Turns ==
    /\ \A r \in CodexRequests : (xReq[r].pc \in Holding <=> xReqMu = r) /\ xReq[r].pc # "abandoned"
    /\ xActive # None => /\ xActive = xReqMu /\ xActive \notin xClosed
                         /\ xReq[xActive].pc \in Writing \cup {"read", "finish"}

(* Only the session's connection is open, and only its reader runs, or the  *)
(* last one's.                                                              *)
Connected ==
    /\ \A k \in xOpen : k = xConn
    /\ xConn # None => Live(xConn)
    /\ \A j, k \in Codex!Conns : Live(j) /\ Live(k) => j = k
    /\ \A k \in Codex!Conns : k > xDialed => xReader[k].pc = "none" /\ xUpstream[k] = <<>>

(* A request that has not sent has an empty open channel, one that sends is *)
(* active and only the open connection has a reader; what a channel holds   *)
(* is its own answer.                                                       *)
RequestFine(r) ==
    /\ xReq[r].pc \in {"new", "lock"} \cup Codex!Sending => xChan[r] = <<>> /\ r \notin xClosed
    /\ xReq[r].pc \in Writing => xActive = r /\ \A k \in Codex!Conns \ xOpen : ~Live(k)
    /\ xReq[r].pc \in {"activate"} \cup Writing => xReq[r].conn # None
    /\ \A i \in 1..Len(xChan[r]) : xChan[r][i].event # None => xChan[r][i].event.owner = r
    /\ xHeard[r] \subseteq {r}

(* The reader has one request's channel; the others of its life are over. *)
CodexReaderFine(k) ==
    /\ xReader[k].pc = "deliver" =>
          /\ xActive # None /\ xReader[k].chan = xActive /\ xReq[xActive].pc = "read"
          /\ xReader[k].event # None /\ xReader[k].event.owner = xActive /\ GoesOn(xActive)
    /\ xReader[k].pc \in {"fail", "close"} =>
          /\ k \notin xOpen /\ xReader[k].chan \in CodexRequests /\ xReader[k].chan \notin xClosed
          /\ xReq[xReader[k].chan].pc \in {"read", "finish", "done"}
    /\ xReader[k].pc = "close" => xActive # xReader[k].chan
    /\ xReader[k].pc = "invalidate" => k \notin xOpen

(* What a connection still brings is the active request's. *)
Coming(k) ==
    k \in xOpen /\ xUpstream[k] # <<>> =>
       /\ xActive # None /\ xReq[xActive].pc = "read" /\ GoesOn(xActive)
       /\ \A i \in 1..Len(xUpstream[k]) :
             /\ xUpstream[k][i].owner = xActive
             /\ i < Len(xUpstream[k]) => xUpstream[k][i].last = "no"
       /\ xReader[k].pc = "deliver" => xReader[k].event.last = "no"

(* A session has one connection, one reader and one active request, and     *)
(* what is under way between them is the answer to that request.            *)
CodexInv ==
    /\ Codex!TypeOK /\ ~xPanicked /\ Turns /\ Connected
    /\ \A r \in CodexRequests : RequestFine(r)
    /\ \A k \in Codex!Conns : CodexReaderFine(k) /\ Coming(k)

(* The types of what a request and a reader keep. *)
Turn == [pc : {"new", "lock", "read", "finish", "done", "abandoned"} \cup Codex!Sending,
         stream : BOOLEAN, conn : Codex!Conns \cup {None}, result : {"none", "ok", "error", "http"}]
(* The types of what a reader keeps.                                        *)
Loop == [pc : {"none", "read", "deliver", "fail", "close", "invalidate", "ended"},
         chan : CodexRequests \cup {None}, event : Codex!Event \cup {None}]

(* The types of what the session keeps.                                     *)
LEMMA SessionTypes ==
    ASSUME CodexInv
    PROVE  /\ xReq \in [CodexRequests -> Turn] /\ xReader \in [Codex!Conns -> Loop]
           /\ xUpstream \in [Codex!Conns -> Seq(Codex!Event)]
           /\ xChan \in [CodexRequests -> Seq(Codex!Message)]
           /\ xHeard \in [CodexRequests -> SUBSET CodexRequests]
           /\ xOpen \subseteq Codex!Conns /\ xClosed \subseteq CodexRequests /\ ~xPanicked
           /\ xConn \in Codex!Conns \cup {None} /\ xActive \in CodexRequests \cup {None}
           /\ xReqMu \in CodexRequests \cup {None}
           /\ \A r \in CodexRequests : xReq[r] \in Turn /\ Len(xChan[r]) \in Nat
           /\ \A k \in Codex!Conns : xReader[k] \in Loop /\ Len(xUpstream[k]) \in Nat
BY DEF CodexInv, Codex!TypeOK, Turn, Loop

(* A step that moves a request and leaves the session alone. *)
LEMMA TurnMoves ==
    ASSUME Codex!SessionAssumption, CodexInv, NEW r \in CodexRequests, NEW t \in Turn,
           xReq' = [xReq EXCEPT ![r] = t],
           UNCHANGED <<xReqMu, xConn, xDialed, xOpen, xUpstream, xActive, xChan, xClosed, xReader,
           xHeard, xPanicked>>,
           t.pc # "abandoned", t.pc \notin {"read", "done"},
           t.pc \in Holding <=> xReq[r].pc \in Holding,
           t.pc \in {"new", "lock"} \cup Codex!Sending => xReq[r].pc \in {"new", "lock"}
           \cup Codex!Sending,
           t.pc \in Writing => xReq[r].pc \in Writing,
           t.pc \in {"activate"} \cup Writing => t.conn # None,
           xReq[r].pc \in Writing \cup {"read", "finish"} => t.pc \in Writing \cup {"finish"},
           xReq[r].pc = "read" => \A k \in Codex!Conns : xReader[k].pc # "deliver"
           /\ (k \in xOpen => xUpstream[k] = <<>>),
           xReq[r].pc \in {"read", "finish", "done"} => t.pc \in {"finish", "done"}
    PROVE  CodexInv'
<1>1. xReq'[r] = t /\ (\A q \in CodexRequests \ {r} : xReq'[q] = xReq[q])
      /\ xReq' \in [CodexRequests -> Turn]
  BY SessionTypes
<1>2. Codex!TypeOK'
  BY <1>1 DEF CodexInv, Codex!TypeOK, Turn
<1>3. Turns'
  BY <1>1, SessionTypes DEF CodexInv, Turns, Holding
<1>4. Connected'
  BY DEF CodexInv, Connected, Live
<1>5. ASSUME NEW q \in CodexRequests PROVE RequestFine(q)'
  <2>1. CASE q = r
    BY <1>1, <2>1 DEF CodexInv, RequestFine, Live
  <2>2. CASE q # r
    BY <1>1, <2>2 DEF CodexInv, RequestFine, Live
  <2> QED BY <2>1, <2>2
<1>6. ASSUME NEW k \in Codex!Conns PROVE CodexReaderFine(k)'
  <2>1. CodexReaderFine(k)
    BY DEF CodexInv
  <2>2. xReader[k].pc = "deliver" => xActive # r
    BY <2>1 DEF CodexReaderFine, CodexInv, Turns
  <2>3. ASSUME xReader[k].pc \in {"fail", "close"}
        PROVE  xReq'[xReader[k].chan].pc \in {"read", "finish", "done"}
    BY <1>1, <2>1, <2>3 DEF CodexReaderFine
  <2>4. xReader[k].pc = "deliver" => xActive \in CodexRequests
    BY <2>1, SessionTypes DEF CodexReaderFine
  <2> QED BY <1>1, <2>1, <2>2, <2>3, <2>4 DEF CodexReaderFine, GoesOn, Goes
<1>7. ASSUME NEW k \in Codex!Conns PROVE Coming(k)'
  <2>1. Coming(k)
    BY DEF CodexInv
  <2>2. k \in xOpen /\ xUpstream[k] # <<>> => xActive # r /\ xActive \in CodexRequests
    BY <2>1, SessionTypes DEF Coming, CodexInv, Turns
  <2> QED BY <1>1, <2>1, <2>2 DEF Coming, GoesOn, Goes
<1> QED BY <1>2, <1>3, <1>4, <1>5, <1>6, <1>7 DEF CodexInv

(* While a request writes, whatever is still open is quiet. *)
LEMMA WritingAlone ==
    ASSUME CodexInv, NEW r \in CodexRequests, xReq[r].pc \in Codex!Sending
    PROVE  /\ \A k \in Codex!Conns : xReader[k].pc # "deliver"
              /\ (k \in xOpen => xUpstream[k] = <<>>)
           /\ xReq[r].pc \in Writing /\ xConn # None => xConn \in xOpen
           /\ xReq[r].pc \notin Writing => xActive = None
           /\ xReqMu = r /\ \A q \in CodexRequests \ {r} : xReq[q].pc \notin Holding
<1>1. xReqMu = r /\ \A q \in CodexRequests \ {r} : xReq[q].pc \notin Holding
  BY DEF CodexInv, Turns, Holding
<1>2. xActive # None => xActive = r
  BY <1>1 DEF CodexInv, Turns
<1>3. xReq[r].pc # "read"
  BY DEF Codex!Sending
<1>4. \A k \in Codex!Conns : xReader[k].pc # "deliver" /\ (k \in xOpen => xUpstream[k] = <<>>)
  BY <1>2, <1>3 DEF CodexInv, CodexReaderFine, Coming
<1>5. xReq[r].pc \in Writing /\ xConn # None => xConn \in xOpen
  BY SessionTypes DEF CodexInv, RequestFine, Connected
<1>6. xReq[r].pc \notin Writing => xActive = None
  BY <1>2 DEF CodexInv, Turns, Codex!Sending, Writing
<1> QED BY <1>1, <1>4, <1>5, <1>6

(* A request begins, takes the connection there is, or fails to dial.       *)
LEMMA BeginTurn ==
    ASSUME Codex!SessionAssumption, CodexInv, NEW r \in CodexRequests, Codex!Begin(r)
           \/ Codex!Reuse(r) \/ Codex!DialFails(r)
    PROVE  CodexInv'
<1>1. /\ UNCHANGED <<xReqMu, xConn, xDialed, xOpen, xUpstream, xActive, xChan, xClosed, xReader,
         xHeard, xPanicked>>
      /\ xReq[r] \in Turn /\ xConn \in Codex!Conns \cup {None}
  BY SessionTypes DEF Codex!Begin, Codex!Reuse, Codex!DialFails
<1>2. CASE Codex!Begin(r)
  <2>1. PICK stream \in Streams : xReq' = [xReq EXCEPT ![r].pc = "lock", ![r].stream = stream]
    BY <1>2 DEF Codex!Begin
  <2> DEFINE t == [xReq[r] EXCEPT !.pc = "lock", !.stream = stream]
  <2>3. stream \in BOOLEAN
    BY DEF Codex!SessionAssumption
  <2>2. t \in Turn /\ t.pc = "lock" /\ xReq' = [xReq EXCEPT ![r] = t] /\ xReq[r].pc = "new"
    BY <1>1, <1>2, <2>1, <2>3 DEF Turn, Codex!Begin
  <2> HIDE DEF t
  <2> QED BY <1>1, <2>2, TurnMoves DEF Holding, Writing, Codex!Sending
<1>3. CASE Codex!Reuse(r)
  <2> DEFINE t == [xReq[r] EXCEPT !.pc = Codex!After(r), !.conn = xConn]
  <2>1. /\ t \in Turn /\ t.pc = Codex!After(r) /\ xReq' = [xReq EXCEPT ![r] = t]
        /\ xReq[r].pc \in {"ensure", "again"} /\ t.conn # None
    BY <1>1, <1>3 DEF Turn, Codex!Reuse, Codex!After, Codex!Sending
  <2> HIDE DEF t
  <2>2. t.pc = IF xReq[r].pc = "ensure" THEN "activate" ELSE "rewrite"
    BY <2>1 DEF Codex!After
  <2> QED BY <1>1, <2>1, <2>2, TurnMoves DEF Holding, Writing, Codex!Sending
<1>4. CASE Codex!DialFails(r)
  <2> DEFINE t == [xReq[r] EXCEPT !.pc = "finish", !.result = "error"]
  <2>1. t \in Turn /\ t.pc = "finish" /\ xReq' = [xReq EXCEPT ![r] = t]
        /\ xReq[r].pc \in {"ensure", "again"}
    BY <1>1, <1>4 DEF Turn, Codex!DialFails, Codex!Ends
  <2> HIDE DEF t
  <2> QED BY <1>1, <2>1, TurnMoves DEF Holding, Writing, Codex!Sending
<1> QED BY <1>2, <1>3, <1>4

(* A request whose channel was closed ends.                                 *)
LEMMA ClosedEnds ==
    ASSUME Codex!SessionAssumption, CodexInv, NEW r \in CodexRequests, Codex!ReadClosed(r)
    PROVE  CodexInv'
<1> DEFINE t == [xReq[r] EXCEPT !.pc = "finish", !.result = "error"]
<1>1. t \in Turn /\ t.pc = "finish" /\ xReq' = [xReq EXCEPT ![r] = t] /\ xReq[r].pc = "read"
      /\ r \in xClosed
  BY SessionTypes DEF Turn, Codex!ReadClosed, Codex!Ends
<1>2. xActive # r
  BY <1>1 DEF CodexInv, Turns, Codex!SessionAssumption
<1>3. xActive = None
  BY <1>1, <1>2 DEF CodexInv, Turns, Holding
<1>4. \A k \in Codex!Conns : xReader[k].pc # "deliver" /\ (k \in xOpen => xUpstream[k] = <<>>)
  BY <1>3 DEF CodexInv, CodexReaderFine, Coming
<1> HIDE DEF t
<1> QED BY <1>1, <1>4, TurnMoves DEF Codex!ReadClosed, Holding, Writing, Codex!Sending

(* The mutex is free only where no request is active.                       *)
LEMMA LockKeeps ==
    ASSUME Codex!SessionAssumption, CodexInv, NEW r \in CodexRequests, Codex!Lock(r)
    PROVE  CodexInv'
<1> DEFINE t == [xReq[r] EXCEPT !.pc = "ensure"]
<1>1. /\ t \in Turn /\ t.pc = "ensure" /\ xReq' = [xReq EXCEPT ![r] = t] /\ xReq[r].pc = "lock"
      /\ xReqMu = None /\ xReqMu' = r
      /\ UNCHANGED <<xConn, xDialed, xOpen, xUpstream, xActive, xChan, xClosed, xReader, xHeard,
         xPanicked>>
  BY SessionTypes DEF Turn, Codex!Lock, Codex!Goto, Codex!Sending
<1> HIDE DEF t
<1>2. xReq'[r] = t /\ (\A q \in CodexRequests \ {r} : xReq'[q] = xReq[q])
      /\ xReq' \in [CodexRequests -> Turn]
  BY <1>1, SessionTypes
<1>3. xActive = None /\ (\A q \in CodexRequests : xReq[q].pc \notin Holding) /\ r # None
  BY <1>1, SessionTypes DEF CodexInv, Turns, Codex!SessionAssumption
<1>4. Codex!TypeOK'
  BY <1>1, <1>2 DEF CodexInv, Codex!TypeOK, Turn
<1>5. Turns'
  BY <1>1, <1>2, <1>3 DEF CodexInv, Turns, Holding, Codex!Sending
<1>6. Connected'
  BY <1>1 DEF CodexInv, Connected, Live
<1>7. ASSUME NEW q \in CodexRequests PROVE RequestFine(q)'
  <2>1. CASE q = r
    BY <1>1, <1>2, <2>1 DEF CodexInv, RequestFine, Live, Writing
  <2>2. CASE q # r
    BY <1>1, <1>2, <2>2 DEF CodexInv, RequestFine, Live
  <2> QED BY <2>1, <2>2
<1>8. ASSUME NEW k \in Codex!Conns PROVE CodexReaderFine(k)'
  <2>1. CodexReaderFine(k) /\ xReader[k].pc # "deliver"
    BY <1>3 DEF CodexInv, CodexReaderFine
  <2>2. ASSUME xReader[k].pc \in {"fail", "close"}
        PROVE  xReq'[xReader[k].chan].pc \in {"read", "finish", "done"}
    BY <1>1, <1>2, <2>1, <2>2 DEF CodexReaderFine
  <2> QED BY <1>1, <2>1, <2>2 DEF CodexReaderFine
<1>9. ASSUME NEW k \in Codex!Conns PROVE Coming(k)'
  BY <1>1, <1>3 DEF CodexInv, Coming
<1> QED BY <1>1, <1>4, <1>5, <1>6, <1>7, <1>8, <1>9 DEF CodexInv

(* A new connection is dialed when every reader has ended (readers_apart).  *)
LEMMA DialKeeps ==
    ASSUME Codex!SessionAssumption, CodexInv, NEW r \in CodexRequests, Codex!Dial(r)
    PROVE  CodexInv'
<1>0. xDialed \in 0..MaxConns /\ xDialed < MaxConns
  BY DEF Codex!Dial, CodexInv, Codex!TypeOK
<1> PICK n \in Codex!Conns : n = xDialed + 1
  BY <1>0 DEF Codex!Conns, Codex!SessionAssumption
<1> DEFINE t == [xReq[r] EXCEPT !.pc = Codex!After(r), !.conn = n]
<1>1. /\ xReq[r].pc \in {"ensure", "again"} /\ xConn = None /\ xDialed < MaxConns
         /\ xDialed \in 0..MaxConns
      /\ \A j \in Codex!Conns : ~Live(j)
      /\ xDialed' = n /\ xConn' = n /\ xOpen' = xOpen \cup {n}
      /\ xReader' = [xReader EXCEPT ![n].pc = "read"]
      /\ UNCHANGED <<xReqMu, xUpstream, xActive, xChan, xClosed, xHeard, xPanicked>>
      /\ xReq' = [xReq EXCEPT ![r].pc = Codex!After(r), ![r].conn = n]
  BY DEF Codex!Dial, Live, CodexInv, Codex!TypeOK
<1>2. n \in Codex!Conns /\ n \in Nat /\ n > xDialed /\ n # None /\ n \in 0..MaxConns
  BY <1>1 DEF Codex!Conns, Codex!SessionAssumption
<1>3. t \in Turn /\ t.conn = n
      /\ t.pc = (IF xReq[r].pc = "ensure" THEN "activate" ELSE "rewrite")
         /\ xReq' = [xReq EXCEPT ![r] = t]
  BY <1>1, SessionTypes DEF Turn, Codex!After, Codex!Sending
<1> HIDE DEF t
<1>4. xReq'[r] = t /\ (\A q \in CodexRequests \ {r} : xReq'[q] = xReq[q])
      /\ xReq' \in [CodexRequests -> Turn]
  BY <1>3, SessionTypes
<1>5. /\ xReader'[n].pc = "read" /\ xReader' \in [Codex!Conns -> Loop]
         /\ (\A k \in Codex!Conns \ {n} : xReader'[k] = xReader[k])
  <2> DEFINE l == [xReader[n] EXCEPT !.pc = "read"]
  <2>1. l \in Loop /\ l.pc = "read" /\ xReader' = [xReader EXCEPT ![n] = l]
    BY <1>1, <1>2, SessionTypes DEF Loop
  <2> HIDE DEF l
  <2> QED BY <1>2, <2>1, SessionTypes
<1>6. xUpstream[n] = <<>> /\ xOpen = {}
  BY <1>1, <1>2, SessionTypes DEF CodexInv, Connected, Codex!SessionAssumption
<1>7. Codex!TypeOK'
  BY <1>1, <1>2, <1>4, <1>5 DEF CodexInv, Codex!TypeOK, Turn, Loop
<1>8. Turns'
  <2>1. xReq[r].pc \in Holding /\ t.pc \in Holding /\ t.pc \in Writing \cup {"activate"}
    BY <1>1, <1>3 DEF Holding, Codex!Sending, Writing
  <2>2. xActive # None /\ xActive = r => t.pc \in Writing
    BY <1>1, <1>3 DEF CodexInv, Turns, Writing
  <2>3. t.pc # "abandoned"
    BY <1>3
  <2> QED BY <1>1, <1>4, <2>1, <2>2, <2>3 DEF CodexInv, Turns
<1>9. Connected'
  <2>1. \A k \in Codex!Conns : Live(k)' => k = n
    BY <1>1, <1>5 DEF Live
  <2>2. Live(n)'
    BY <1>5 DEF Live
  <2>3. \A k \in Codex!Conns : k > n => k > xDialed /\ k # n
    BY <1>1, <1>2 DEF Codex!Conns
  <2>4. \A k \in Codex!Conns : k > n => xReader'[k].pc = "none" /\ xUpstream[k] = <<>>
    BY <1>5, <2>3 DEF CodexInv, Connected
  <2> QED BY <1>1, <1>6, <2>1, <2>2, <2>4 DEF Connected
<1>10. ASSUME NEW q \in CodexRequests PROVE RequestFine(q)'
  <2>1. ASSUME NEW k \in Codex!Conns \ xOpen' PROVE ~Live(k)'
    BY <1>1, <1>5, <2>1 DEF Live
  <2>2. xReq'[q].pc \in Writing => xReq[q].pc \in Writing
    BY <1>1, <1>3, <1>4 DEF Writing
  <2>3. xReq'[q].pc \in {"new", "lock"} \cup Codex!Sending => xReq[q].pc \in {"new", "lock"}
        \cup Codex!Sending
    BY <1>1, <1>3, <1>4 DEF Codex!Sending
  <2>4. xReq'[q].pc \in {"activate"} \cup Writing => xReq'[q].conn # None
    BY <1>2, <1>3, <1>4 DEF CodexInv, RequestFine
  <2> QED BY <1>1, <2>1, <2>2, <2>3, <2>4 DEF CodexInv, RequestFine
<1>11. ASSUME NEW k \in Codex!Conns PROVE CodexReaderFine(k)'
  <2>1. xReader'[k].pc \in {"none", "ended", "read"}
    BY <1>1, <1>5 DEF Live
  <2> QED BY <2>1 DEF CodexReaderFine
<1>12. ASSUME NEW k \in Codex!Conns PROVE Coming(k)'
  BY <1>1, <1>6 DEF Coming
<1> QED BY <1>1, <1>7, <1>8, <1>9, <1>10, <1>11, <1>12 DEF CodexInv

(* The request becomes the active one.                                      *)
LEMMA SetActiveKeeps ==
    ASSUME Codex!SessionAssumption, CodexInv, NEW r \in CodexRequests, Codex!SetActive(r)
    PROVE  CodexInv'
<1> DEFINE t == [xReq[r] EXCEPT !.pc = "write"]
<1>1. /\ t \in Turn /\ t.pc = "write" /\ t.conn = xReq[r].conn /\ xReq' = [xReq EXCEPT ![r] = t]
         /\ xReq[r].pc = "activate"
      /\ xActive' = r /\ \A k \in Codex!Conns \ xOpen : ~Live(k)
      /\ UNCHANGED <<xReqMu, xConn, xDialed, xOpen, xUpstream, xChan, xClosed, xReader, xHeard,
         xPanicked>>
  BY SessionTypes DEF Turn, Codex!SetActive, Codex!Goto, Codex!Sending, Live
<1> HIDE DEF t
<1>2. xReq'[r] = t /\ (\A q \in CodexRequests \ {r} : xReq'[q] = xReq[q])
      /\ xReq' \in [CodexRequests -> Turn]
  BY <1>1, SessionTypes
<1>3. /\ \A k \in Codex!Conns : xReader[k].pc # "deliver" /\ (k \in xOpen => xUpstream[k] = <<>>)
      /\ xReqMu = r /\ \A q \in CodexRequests \ {r} : xReq[q].pc \notin Holding
  BY <1>1, WritingAlone DEF Codex!Sending
<1>4. r \notin xClosed /\ xChan[r] = <<>>
  BY <1>1 DEF CodexInv, RequestFine, Codex!Sending
<1>5. Codex!TypeOK'
  BY <1>1, <1>2 DEF CodexInv, Codex!TypeOK, Turn
<1>6. Turns'
  BY <1>1, <1>2, <1>3, <1>4 DEF CodexInv, Turns, Holding, Codex!Sending, Writing
<1>7. Connected'
  BY <1>1 DEF CodexInv, Connected, Live
<1>8. ASSUME NEW q \in CodexRequests PROVE RequestFine(q)'
  <2>1. CASE q = r
    <3>1. xReq[r].conn # None /\ RequestFine(r)
      BY <1>1 DEF CodexInv, RequestFine
    <3> QED BY <1>1, <1>2, <1>4, <2>1, <3>1 DEF RequestFine, Live
  <2>2. CASE q # r
    BY <1>1, <1>2, <1>3, <2>2 DEF CodexInv, RequestFine, Live, Holding, Writing, Codex!Sending
  <2> QED BY <2>1, <2>2
<1>9. ASSUME NEW k \in Codex!Conns PROVE CodexReaderFine(k)'
  <2>1. CodexReaderFine(k) /\ xReader[k].pc # "deliver"
    BY <1>3 DEF CodexInv
  <2>2. ASSUME xReader[k].pc \in {"fail", "close"}
        PROVE  xReq'[xReader[k].chan].pc \in {"read", "finish", "done"} /\ xReader[k].chan # r
    BY <1>1, <1>2, <2>1, <2>2 DEF CodexReaderFine
  <2> QED BY <1>1, <2>1, <2>2 DEF CodexReaderFine
<1>10. ASSUME NEW k \in Codex!Conns PROVE Coming(k)'
  BY <1>1, <1>3 DEF Coming
<1> QED BY <1>1, <1>5, <1>6, <1>7, <1>8, <1>9, <1>10 DEF CodexInv

(* What an answer is: the last event ends it, if any does. *)
LEMMA AnswerEvents ==
    ASSUME NEW r \in CodexRequests, NEW end \in {"completed", "error", "no"}
    PROVE  /\ Codex!Answer(r, end) \in Seq(Codex!Event) /\ Len(Codex!Answer(r, end)) = 2
           /\ \A i \in 1..2 : Codex!Answer(r, end)[i].owner = r
              /\ (i < 2 => Codex!Answer(r, end)[i].last = "no")
           /\ <<>> \o Codex!Answer(r, end) = Codex!Answer(r, end)
BY DEF Codex!Answer, Codex!Event

(* The request is written to the open connection, on which nothing else is  *)
(* under way.                                                               *)
LEMMA SentKeeps ==
    ASSUME Codex!SessionAssumption, CodexInv, NEW r \in CodexRequests,
           xReq[r].pc \in {"write", "rewrite"},
           NEW n \in xOpen, NEW end \in {"completed", "error", "no"},
           xUpstream' = [xUpstream EXCEPT ![n] = @ \o Codex!Answer(r, end)], Codex!Goto(r, "read"),
           UNCHANGED <<xReqMu, xConn, xDialed, xOpen, xActive, xChan, xClosed, xReader, xHeard,
           xPanicked>>
    PROVE  CodexInv'
<1> DEFINE t == [xReq[r] EXCEPT !.pc = "read"]
<1>1. t \in Turn /\ t.pc = "read" /\ xReq' = [xReq EXCEPT ![r] = t]
  BY SessionTypes DEF Turn, Codex!Goto
<1> HIDE DEF t
<1>2. xReq'[r] = t /\ (\A q \in CodexRequests \ {r} : xReq'[q] = xReq[q])
      /\ xReq' \in [CodexRequests -> Turn]
  BY <1>1, SessionTypes
<1>3. /\ \A k \in Codex!Conns : xReader[k].pc # "deliver" /\ (k \in xOpen => xUpstream[k] = <<>>)
      /\ xReqMu = r /\ \A q \in CodexRequests \ {r} : xReq[q].pc \notin Holding
  BY WritingAlone DEF Codex!Sending
<1>4. r \notin xClosed /\ xChan[r] = <<>> /\ xActive = r
  BY DEF CodexInv, RequestFine, Codex!Sending, Writing
<1>5. n \in Codex!Conns /\ n = xConn /\ Live(n) /\ n <= xDialed /\ n \in Int /\ xDialed \in Int
  BY DEF CodexInv, Codex!TypeOK, Connected, Codex!Conns, Live, Codex!SessionAssumption
<1>6. /\ xUpstream'[n] = Codex!Answer(r, end)
         /\ (\A k \in Codex!Conns \ {n} : xUpstream'[k] = xUpstream[k])
      /\ xUpstream' \in [Codex!Conns -> Seq(Codex!Event)]
  <2>1. xUpstream[n] = <<>> /\ Codex!Answer(r, end) \in Seq(Codex!Event)
        /\ <<>> \o Codex!Answer(r, end) = Codex!Answer(r, end)
    BY <1>3, <1>5, AnswerEvents
  <2>2. xUpstream'[n] = xUpstream[n] \o Codex!Answer(r, end)
        /\ (\A k \in Codex!Conns \ {n} : xUpstream'[k] = xUpstream[k])
    BY <1>5, SessionTypes
  <2>3. DOMAIN xUpstream' = Codex!Conns /\ \A k \in Codex!Conns : xUpstream'[k] \in Seq(Codex!Event)
    BY <1>5, <2>1, <2>2, SessionTypes
  <2>4. xUpstream' = [k \in Codex!Conns |-> xUpstream'[k]]
    BY <1>5, SessionTypes
  <2> QED BY <2>1, <2>2, <2>3, <2>4
<1>7. Codex!TypeOK'
  BY <1>2, <1>6 DEF CodexInv, Codex!TypeOK, Turn
<1>8. Turns'
  BY <1>1, <1>2, <1>3, <1>4 DEF CodexInv, Turns, Holding, Codex!Sending, Writing
<1>9. Connected'
  BY <1>5, <1>6 DEF CodexInv, Connected, Live, Codex!Conns
<1>10. ASSUME NEW q \in CodexRequests PROVE RequestFine(q)'
  <2>1. CASE q = r
    BY <1>1, <1>2, <1>4, <2>1 DEF CodexInv, RequestFine, Writing, Codex!Sending
  <2>2. CASE q # r
    BY <1>1, <1>2, <2>2 DEF CodexInv, RequestFine, Live
  <2> QED BY <2>1, <2>2
<1>11. ASSUME NEW k \in Codex!Conns PROVE CodexReaderFine(k)'
  <2>1. CodexReaderFine(k) /\ xReader[k].pc # "deliver"
    BY <1>3 DEF CodexInv
  <2>2. ASSUME xReader[k].pc \in {"fail", "close"}
        PROVE  xReq'[xReader[k].chan].pc \in {"read", "finish", "done"}
    BY <1>1, <1>2, <2>1, <2>2 DEF CodexReaderFine
  <2> QED BY <2>1, <2>2 DEF CodexReaderFine
<1>12. ASSUME NEW k \in Codex!Conns PROVE Coming(k)'
  <2>1. CASE k = n
    <3>1. xActive' # None /\ xActive' = r /\ xReq'[r].pc = "read" /\ xReader'[n].pc # "deliver"
      BY <1>1, <1>2, <1>3, <1>4, <1>5 DEF Codex!SessionAssumption
    <3>2. GoesOn(r)'
      BY <1>4 DEF GoesOn
    <3>3. \A i \in 1..Len(xUpstream'[n]) : /\ xUpstream'[n][i].owner = r
                                           /\ i < Len(xUpstream'[n]) => xUpstream'[n][i].last = "no"
      <4>1. /\ Len(Codex!Answer(r, end)) = 2
            /\ \A i \in 1..2 : Codex!Answer(r, end)[i].owner = r
               /\ (i < 2 => Codex!Answer(r, end)[i].last = "no")
        BY AnswerEvents
      <4> QED BY <1>6, <4>1
    <3>4. GoesOn(xActive)'
      BY <3>1, <3>2 DEF GoesOn, Goes
    <3> QED BY <2>1, <3>1, <3>3, <3>4 DEF Coming
  <2>2. CASE k # n
    BY <1>3, <1>6, <2>2 DEF Coming
  <2> QED BY <2>1, <2>2
<1> QED BY <1>7, <1>8, <1>9, <1>10, <1>11, <1>12 DEF CodexInv

(* Write: the connection cannot be lost in between (steady_writes), so the  *)
(* error branches leave the session as it is.                               *)
LEMMA WriteKeeps ==
    ASSUME Codex!SessionAssumption, CodexInv, NEW r \in CodexRequests, Codex!Write(r)
    PROVE  CodexInv'
<1> DEFINE n == xReq[r].conn
<1>1. /\ xReq[r].pc \in {"write", "rewrite"} /\ xReq[r] \in Turn
      /\ UNCHANGED <<xReqMu, xDialed, xActive, xChan, xClosed, xReader, xHeard, xPanicked>>
  BY SessionTypes DEF Codex!Write
<1>2. xConn # None => xConn \in xOpen
  BY <1>1, WritingAlone DEF Codex!Sending, Writing
<1>3. CASE /\ n \in xOpen
           /\ \E end \in {"completed", "error", "no"} :
                xUpstream' = [xUpstream EXCEPT ![n] = @ \o Codex!Answer(r, end)]
           /\ Codex!Goto(r, "read")
           /\ UNCHANGED <<xConn, xOpen>>
  <2>1. PICK k \in xOpen : k = n
    BY <1>3
  <2> HIDE DEF n
  <2> QED BY <1>1, <1>3, <2>1, SentKeeps
<1>4. CASE n \notin xOpen /\ xConn = n /\ Codex!Goto(r, "read")
           /\ UNCHANGED <<xUpstream, xConn, xOpen>>
  <2>1. n = None /\ n # None
    BY <1>1, <1>2, <1>4 DEF CodexInv, RequestFine, Writing
  <2> QED BY <2>1
<1>5. CASE /\ n \notin xOpen
           /\ Codex!Invalidate(n)
           /\ IF xReq[r].pc = "write" THEN Codex!Goto(r, "again") ELSE Codex!Ends(r, "error")
           /\ UNCHANGED xUpstream
  <2>1. UNCHANGED <<xConn, xOpen>>
    BY <1>2, <1>5 DEF Codex!Invalidate
  <2>2. PICK t \in Turn : /\ xReq' = [xReq EXCEPT ![r] = t] /\ t.conn # None
                          /\ t.pc = IF xReq[r].pc = "write" THEN "again" ELSE "finish"
    <3>0. xReq[r].conn # None
      BY <1>1 DEF CodexInv, RequestFine, Writing
    <3>1. CASE xReq[r].pc = "write"
      <4> DEFINE t == [xReq[r] EXCEPT !.pc = "again"]
      <4>1. t \in Turn /\ t.pc = "again" /\ t.conn # None
        BY <1>1, <3>0 DEF Turn, Codex!Sending
      <4> QED BY <1>5, <3>1, <4>1 DEF Codex!Goto
    <3>2. CASE xReq[r].pc # "write"
      <4> DEFINE t == [xReq[r] EXCEPT !.pc = "finish", !.result = "error"]
      <4>1. t \in Turn /\ t.pc = "finish" /\ t.conn # None
        BY <1>1, <3>0 DEF Turn
      <4> QED BY <1>5, <3>2, <4>1 DEF Codex!Ends
    <3> QED BY <3>1, <3>2
  <2> QED BY <1>1, <1>5, <2>1, <2>2, TurnMoves DEF Holding, Writing, Codex!Sending
<1> QED BY <1>3, <1>4, <1>5 DEF Codex!Write

(* What is left in a channel. *)
LEMMA ChanTail ==
    ASSUME CodexInv, NEW r \in CodexRequests, xChan[r] # <<>>
    PROVE  /\ Tail(xChan[r]) \in Seq(Codex!Message) /\ Head(xChan[r]) = xChan[r][1]
           /\ 1 \in 1..Len(xChan[r])
           /\ Head(xChan[r]) \in Codex!Message
           /\ \A i \in 1..Len(Tail(xChan[r])) : i + 1 \in 1..Len(xChan[r])
              /\ Tail(xChan[r])[i] = xChan[r][i + 1]
<1> DEFINE s == xChan[r]
<1>1. s \in Seq(Codex!Message) /\ s # <<>>
  BY SessionTypes
<1> HIDE DEF s
<1>2. /\ Tail(s) \in Seq(Codex!Message) /\ Head(s) = s[1] /\ 1 \in 1..Len(s)
         /\ Head(s) \in Codex!Message
      /\ \A i \in 1..Len(Tail(s)) : i + 1 \in 1..Len(s) /\ Tail(s)[i] = s[i + 1]
  BY <1>1
<1> QED BY <1>2 DEF s

(* A request takes an event of its own answer and goes on or ends.          *)
LEMMA ReadMoves ==
    ASSUME Codex!SessionAssumption, CodexInv, NEW r \in CodexRequests, xReq[r].pc = "read",
           xChan[r] # <<>>,
           xChan' = [xChan EXCEPT ![r] = Tail(@)], NEW t \in Turn, xReq' = [xReq EXCEPT ![r] = t],
           t.pc \in {"read", "finish"}, t.pc = "finish" => ~Goes(Head(xChan[r])),
           xHeard' = xHeard \/ xHeard' = [xHeard EXCEPT ![r] = @ \cup {r}],
           UNCHANGED <<xConn, xOpen>> \/ (xConn' = None /\ xOpen' = xOpen \ {xConn}),
           UNCHANGED <<xReqMu, xDialed, xUpstream, xActive, xClosed, xReader, xPanicked>>
    PROVE  CodexInv'
<1>1. xReq'[r] = t /\ (\A q \in CodexRequests \ {r} : xReq'[q] = xReq[q])
      /\ xReq' \in [CodexRequests -> Turn]
  BY SessionTypes
<1>2. /\ xChan'[r] = Tail(xChan[r]) /\ (\A q \in CodexRequests \ {r} : xChan'[q] = xChan[q])
      /\ xChan' \in [CodexRequests -> Seq(Codex!Message)]
  BY ChanTail, SessionTypes
<1>3. \A i \in 1..Len(xChan'[r]) : i + 1 \in 1..Len(xChan[r]) /\ xChan'[r][i] = xChan[r][i + 1]
  BY <1>2, ChanTail
<1>4. /\ xHeard' \in [CodexRequests -> SUBSET CodexRequests] /\ xHeard'[r] \subseteq {r}
      /\ \A q \in CodexRequests \ {r} : xHeard'[q] = xHeard[q]
  <2>1. xHeard[r] \subseteq {r} /\ xHeard \in [CodexRequests -> SUBSET CodexRequests]
    BY SessionTypes DEF CodexInv, RequestFine
  <2>2. CASE xHeard' = xHeard
    BY <2>1, <2>2
  <2>3. CASE xHeard' = [xHeard EXCEPT ![r] = @ \cup {r}]
    BY <2>1, <2>3
  <2> QED BY <2>2, <2>3
<1>5. /\ xOpen' \subseteq xOpen /\ (xConn' = xConn \/ xConn' = None) /\ \A k \in xOpen' :
         k = xConn' /\ k \in Codex!Conns
  <2>1. xOpen \subseteq Codex!Conns /\ \A k \in xOpen : k = xConn
    BY SessionTypes DEF CodexInv, Connected
  <2> QED BY <2>1
<1>6. xActive # None => xActive = r
  BY DEF CodexInv, Turns, Holding
<1>7. GoesOn(r) => t.pc = "read" /\ GoesOn(r)'
  <2>1. GoesOn(r) => Goes(Head(xChan[r]))
    BY ChanTail DEF GoesOn
  <2>2. GoesOn(r) => GoesOn(r)'
    BY <1>3 DEF GoesOn, Goes
  <2> QED BY <2>1, <2>2
<1>8. Codex!TypeOK'
  BY <1>1, <1>2, <1>4, <1>5, SessionTypes DEF CodexInv, Codex!TypeOK, Turn
<1>9. Turns'
  BY <1>1 DEF CodexInv, Turns, Holding, Codex!Sending, Writing
<1>10. Connected'
  BY <1>5 DEF CodexInv, Connected, Live
<1>11. ASSUME NEW q \in CodexRequests PROVE RequestFine(q)'
  <2>1. CASE q = r
    <3>1. \A i \in 1..Len(xChan'[r]) : xChan'[r][i].event # None => xChan'[r][i].event.owner = r
      BY <1>3 DEF CodexInv, RequestFine
    <3> QED BY <1>1, <1>4, <2>1, <3>1 DEF RequestFine, Writing, Codex!Sending
  <2>2. CASE q # r
    <3>1. q \in CodexRequests /\ xReq[q].pc \notin Writing
      BY <2>2 DEF CodexInv, Turns, Holding, Codex!Sending, Writing
    <3> QED BY <1>1, <1>2, <1>4, <2>2, <3>1 DEF CodexInv, RequestFine, Writing
  <2> QED BY <2>1, <2>2
<1>12. ASSUME NEW k \in Codex!Conns PROVE CodexReaderFine(k)'
  <2>1. CodexReaderFine(k)
    BY DEF CodexInv
  <2>2. xReader[k].pc = "deliver" => xActive = r /\ t.pc = "read" /\ GoesOn(r)'
    BY <1>6, <1>7, <2>1 DEF CodexReaderFine
  <2>3. xReader[k].pc = "deliver" => GoesOn(xActive)'
    BY <2>2 DEF GoesOn, Goes
  <2>4. ASSUME xReader[k].pc \in {"fail", "close"}
        PROVE  xReq'[xReader[k].chan].pc \in {"read", "finish", "done"}
    BY <1>1, <2>1, <2>4 DEF CodexReaderFine
  <2> QED BY <1>1, <1>5, <2>1, <2>2, <2>3, <2>4 DEF CodexReaderFine
<1>13. ASSUME NEW k \in Codex!Conns PROVE Coming(k)'
  <2>1. Coming(k)
    BY DEF CodexInv
  <2>2. k \in xOpen' /\ xUpstream[k] # <<>> => xActive = r /\ t.pc = "read" /\ GoesOn(r)'
    BY <1>5, <1>6, <1>7, <2>1 DEF Coming
  <2>3. k \in xOpen' /\ xUpstream[k] # <<>> => GoesOn(xActive)'
    BY <2>2 DEF GoesOn, Goes
  <2> QED BY <1>1, <1>5, <2>1, <2>2, <2>3 DEF Coming
<1> QED BY <1>8, <1>9, <1>10, <1>11, <1>12, <1>13 DEF CodexInv

(* ReadEvent: an error event gives the connection up.                       *)
LEMMA ReadKeeps ==
    ASSUME Codex!SessionAssumption, CodexInv, NEW r \in CodexRequests, Codex!ReadEvent(r)
    PROVE  CodexInv'
<1> DEFINE m == Head(xChan[r])  t == [xReq[r] EXCEPT !.pc = "finish", !.result = "error"]
           u == [xReq[r] EXCEPT !.pc = "finish", !.result = "ok"]
<1>1. /\ xReq[r].pc = "read" /\ xChan[r] # <<>> /\ xChan' = [xChan EXCEPT ![r] = Tail(@)]
      /\ UNCHANGED <<xReqMu, xDialed, xUpstream, xActive, xClosed, xReader, xPanicked>>
      /\ xReq[r] \in Turn
  BY SessionTypes DEF Codex!ReadEvent
<1>2. /\ t \in Turn /\ t.pc = "finish" /\ u \in Turn /\ u.pc = "finish"
      /\ Codex!Ends(r, "error") <=> xReq' = [xReq EXCEPT ![r] = t]
      /\ Codex!Ends(r, "ok") <=> xReq' = [xReq EXCEPT ![r] = u]
      /\ xReq = [xReq EXCEPT ![r] = xReq[r]]
  BY <1>1, SessionTypes DEF Turn, Codex!Ends
<1>3. m.event # None => m.event.owner = r /\ m.event \in Codex!Event
  BY <1>1, ChanTail DEF CodexInv, RequestFine, Codex!Message
<1> HIDE DEF t, u
<1>4. CASE UNCHANGED <<xReq, xHeard, xConn, xOpen>>
  BY <1>1, <1>2, <1>4, ReadMoves
<1>5. CASE m.event = None /\ Codex!Ends(r, "error") /\ UNCHANGED <<xHeard, xConn, xOpen>>
  BY <1>1, <1>2, <1>5, ReadMoves DEF Goes
<1>6. CASE m.event # None /\ xHeard' = [xHeard EXCEPT ![r] = @ \cup {m.event.owner}]
  <2>1. xHeard' = [xHeard EXCEPT ![r] = @ \cup {r}]
    BY <1>3, <1>6
  <2>2. CASE m.event.last = "no" /\ UNCHANGED <<xReq, xConn, xOpen>>
    BY <1>1, <1>2, <2>1, <2>2, ReadMoves
  <2>3. CASE m.event.last = "completed" /\ Codex!Ends(r, "ok") /\ UNCHANGED <<xConn, xOpen>>
    BY <1>1, <1>2, <2>1, <2>3, ReadMoves DEF Goes
  <2>4. CASE m.event.last = "error" /\ Codex!Ends(r, "error") /\ Codex!Invalidate(xReq[r].conn)
    <3>1. UNCHANGED <<xConn, xOpen>> \/ (xConn' = None /\ xOpen' = xOpen \ {xConn})
      BY <2>4 DEF Codex!Invalidate
    <3> QED BY <1>1, <1>2, <2>1, <2>4, <3>1, ReadMoves DEF Goes
  <2>5. /\ m.event.last \in {"no", "completed", "error"}
        /\ m.conn = xReq[r].conn \/ UNCHANGED <<xReq, xHeard, xConn, xOpen>>
    BY <1>3, <1>6 DEF Codex!ReadEvent, Codex!Event
  <2> QED BY <1>4, <1>6, <2>2, <2>3, <2>4, <2>5 DEF Codex!ReadEvent
<1> QED BY <1>4, <1>5, <1>6 DEF Codex!ReadEvent

(* The request ends: its answer has ended too, and nothing of it is under   *)
(* way (patience).                                                          *)
LEMMA FinishKeeps ==
    ASSUME Codex!SessionAssumption, CodexInv, NEW r \in CodexRequests, Codex!Finish(r)
    PROVE  CodexInv'
<1> DEFINE t == [xReq[r] EXCEPT !.pc = "done"]
<1>1. /\ t \in Turn /\ t.pc = "done" /\ xReq' = [xReq EXCEPT ![r] = t] /\ xReq[r].pc = "finish"
      /\ xActive' = (IF xActive = r THEN None ELSE xActive)
         /\ xChan' = [xChan EXCEPT ![r] = <<>>] /\ xReqMu' = None
      /\ UNCHANGED <<xConn, xDialed, xOpen, xUpstream, xClosed, xReader, xHeard, xPanicked>>
  BY SessionTypes DEF Turn, Codex!Finish, Codex!Goto
<1> HIDE DEF t
<1>2. xReq'[r] = t /\ (\A q \in CodexRequests \ {r} : xReq'[q] = xReq[q])
      /\ xReq' \in [CodexRequests -> Turn]
  BY <1>1, SessionTypes
<1>3. /\ xChan'[r] = <<>> /\ (\A q \in CodexRequests \ {r} : xChan'[q] = xChan[q])
      /\ xChan' \in [CodexRequests -> Seq(Codex!Message)]
  BY <1>1, SessionTypes
<1>4. xReqMu = r /\ r # None /\ \A q \in CodexRequests \ {r} : xReq[q].pc \notin Holding
  BY <1>1 DEF CodexInv, Turns, Holding, Codex!SessionAssumption
<1>5. xActive' = None /\ (xActive = r \/ xActive = None)
  BY <1>1, <1>4 DEF CodexInv, Turns
<1>6. \A k \in Codex!Conns : xReader[k].pc # "deliver" /\ (k \in xOpen => xUpstream[k] = <<>>)
  BY <1>1, <1>5 DEF CodexInv, CodexReaderFine, Coming
<1>7. Codex!TypeOK'
  BY <1>1, <1>2, <1>3, <1>5 DEF CodexInv, Codex!TypeOK, Turn
<1>8. Turns'
  BY <1>1, <1>2, <1>4, <1>5, SessionTypes DEF CodexInv, Turns, Holding, Codex!Sending,
     Codex!SessionAssumption
<1>9. Connected'
  BY <1>1 DEF CodexInv, Connected, Live
<1>10. ASSUME NEW q \in CodexRequests PROVE RequestFine(q)'
  <2>1. CASE q = r
    BY <1>1, <1>2, <1>3, <2>1 DEF CodexInv, RequestFine, Writing, Codex!Sending
  <2>2. CASE q # r
    <3>1. xReq[q].pc \notin Writing
      BY <1>4, <2>2 DEF Writing, Holding, Codex!Sending
    <3> QED BY <1>1, <1>2, <1>3, <2>2, <3>1 DEF CodexInv, RequestFine
  <2> QED BY <2>1, <2>2
<1>11. ASSUME NEW k \in Codex!Conns PROVE CodexReaderFine(k)'
  <2>1. CodexReaderFine(k) /\ xReader[k].pc # "deliver"
    BY <1>6 DEF CodexInv
  <2>2. ASSUME xReader[k].pc \in {"fail", "close"}
        PROVE  xReq'[xReader[k].chan].pc \in {"read", "finish", "done"} /\ xReader[k].chan # None
    BY <1>1, <1>2, <2>1, <2>2 DEF CodexReaderFine, Codex!SessionAssumption
  <2> QED BY <1>1, <1>5, <2>1, <2>2 DEF CodexReaderFine
<1>12. ASSUME NEW k \in Codex!Conns PROVE Coming(k)'
  BY <1>1, <1>6 DEF Coming
<1> QED BY <1>1, <1>7, <1>8, <1>9, <1>10, <1>11, <1>12 DEF CodexInv

-----------------------------------------------------------------------------
(* Steps of the readers. *)
LEMMA LoopMoves ==
    ASSUME CodexInv, NEW k \in Codex!Conns, NEW l \in Loop, xReader' = [xReader EXCEPT ![k] = l]
    PROVE  /\ xReader'[k] = l /\ (\A j \in Codex!Conns \ {k} : xReader'[j] = xReader[j])
           /\ xReader' \in [Codex!Conns -> Loop]
BY SessionTypes

(* The one reader that runs. *)
LEMMA LiveAlone ==
    ASSUME Codex!SessionAssumption, CodexInv, NEW k \in Codex!Conns, Live(k)
    PROVE  /\ \A j \in Codex!Conns \ {k} : ~Live(j) /\ xReader[j].pc \in {"none", "ended"}
           /\ k \notin xOpen => xOpen = {}
           /\ \A j \in xOpen : j = k
<1>1. \A j \in Codex!Conns \ {k} : ~Live(j) /\ xReader[j].pc \in {"none", "ended"}
  BY DEF CodexInv, Connected, Live
<1>2. ASSUME NEW j \in xOpen PROVE j = k
  <2>1. j \in Codex!Conns /\ j = xConn /\ j # None
    BY SessionTypes DEF CodexInv, Connected, Codex!SessionAssumption
  <2>2. Live(xConn)
    BY <2>1 DEF CodexInv, Connected
  <2>3. Live(j)
    BY <2>1, <2>2 DEF Live
  <2> QED BY <1>1, <2>1, <2>3
<1> QED BY <1>1, <1>2

(* The reader takes the next event and the channel of the active request.   *)
LEMMA MessageKeeps ==
    ASSUME Codex!SessionAssumption, CodexInv, NEW k \in Codex!Conns, Codex!ReadMessage(k)
    PROVE  CodexInv'
<1> DEFINE l == [pc |-> "deliver", chan |-> xActive, event |-> Head(xUpstream[k])]
<1>1. /\ xReader[k].pc = "read" /\ xUpstream[k] # <<>> /\ k \in xOpen
      /\ xUpstream' = [xUpstream EXCEPT ![k] = Tail(@)]
      /\ UNCHANGED <<xReqMu, xConn, xDialed, xOpen, xActive, xChan, xClosed, xReq, xHeard,
         xPanicked>>
  BY DEF Codex!ReadMessage
<1>2. Coming(k) /\ xActive # None /\ xActive \in CodexRequests
  BY <1>1, SessionTypes DEF CodexInv, Coming
<1>3. /\ Head(xUpstream[k]) = xUpstream[k][1] /\ Head(xUpstream[k]) \in Codex!Event
         /\ 1 \in 1..Len(xUpstream[k])
      /\ Tail(xUpstream[k]) \in Seq(Codex!Event) /\ Len(Tail(xUpstream[k])) = Len(xUpstream[k]) - 1
      /\ \A i \in 1..Len(Tail(xUpstream[k])) : i + 1 \in 1..Len(xUpstream[k])
         /\ Tail(xUpstream[k])[i] = xUpstream[k][i + 1]
  <2> DEFINE s == xUpstream[k]
  <2>1. s \in Seq(Codex!Event) /\ s # <<>>
    BY <1>1, SessionTypes
  <2> HIDE DEF s
  <2>2. /\ Head(s) = s[1] /\ Head(s) \in Codex!Event /\ 1 \in 1..Len(s)
        /\ Tail(s) \in Seq(Codex!Event) /\ Len(Tail(s)) = Len(s) - 1
        /\ \A i \in 1..Len(Tail(s)) : i + 1 \in 1..Len(s) /\ Tail(s)[i] = s[i + 1]
    BY <2>1
  <2> QED BY <2>2 DEF s
<1>4. l \in Loop /\ l.pc = "deliver" /\ l.chan = xActive /\ l.event = xUpstream[k][1]
      /\ xReader' = [xReader EXCEPT ![k] = l]
  BY <1>1, <1>2, <1>3 DEF Codex!ReadMessage, Loop
<1> HIDE DEF l
<1>5. /\ xReader'[k] = l /\ (\A j \in Codex!Conns \ {k} : xReader'[j] = xReader[j])
         /\ xReader' \in [Codex!Conns -> Loop]
  BY <1>4, LoopMoves
<1>6. /\ xUpstream'[k] = Tail(xUpstream[k])
         /\ (\A j \in Codex!Conns \ {k} : xUpstream'[j] = xUpstream[j])
      /\ xUpstream' \in [Codex!Conns -> Seq(Codex!Event)]
  BY <1>1, <1>3, SessionTypes
<1>7. \A j \in Codex!Conns : Live(j)' <=> Live(j)
  BY <1>1, <1>4, <1>5 DEF Live
<1>8. Codex!TypeOK'
  BY <1>1, <1>5, <1>6 DEF CodexInv, Codex!TypeOK, Loop
<1>9. Turns'
  BY <1>1 DEF CodexInv, Turns
<1>10. Connected'
  <2>1. ~(k > xDialed)
    BY <1>1 DEF CodexInv, Connected
  <2> QED BY <1>1, <1>5, <1>6, <1>7, <2>1, SessionTypes DEF CodexInv, Connected
<1>11. ASSUME NEW q \in CodexRequests PROVE RequestFine(q)'
  BY <1>1, <1>7 DEF CodexInv, RequestFine
<1>12. ASSUME NEW j \in Codex!Conns PROVE CodexReaderFine(j)'
  <2>1. CASE j = k
    <3>1. GoesOn(xActive)'
      BY <1>1, <1>2 DEF Coming, GoesOn, Goes
    <3>2. l.event # None /\ l.event.owner = xActive /\ xReq[xActive].pc = "read"
      BY <1>1, <1>2, <1>3, <1>4 DEF Coming, Codex!SessionAssumption
    <3> QED BY <1>1, <1>2, <1>4, <1>5, <2>1, <3>1, <3>2 DEF CodexReaderFine
  <2>2. CASE j # k
    <3>1. xReader'[j].pc \in {"none", "ended"}
      BY <1>1, <1>5, <2>2, LiveAlone DEF Live
    <3> QED BY <3>1 DEF CodexReaderFine
  <2> QED BY <2>1, <2>2
<1>13. ASSUME NEW j \in Codex!Conns PROVE Coming(j)'
  <2>1. CASE j = k
    <3> SUFFICES ASSUME xUpstream'[k] # <<>> PROVE Coming(k)'
      BY <2>1 DEF Coming
    <3>0. Len(Tail(xUpstream[k])) \in Nat /\ Len(xUpstream[k]) \in Nat
          /\ Len(Tail(xUpstream[k])) > 0
      BY <1>3, <1>6, SessionTypes
    <3>1. GoesOn(xActive)'
      BY <1>1, <1>2 DEF Coming, GoesOn, Goes
    <3>2. l.event.last = "no"
      BY <1>1, <1>2, <1>3, <1>4, <3>0 DEF Coming
    <3>3. \A i \in 1..Len(xUpstream'[k]) : /\ xUpstream'[k][i].owner = xActive
                                           /\ i < Len(xUpstream'[k]) => xUpstream'[k][i].last = "no"
      <4> SUFFICES ASSUME NEW i \in 1..Len(xUpstream'[k])
                   PROVE  /\ xUpstream'[k][i].owner = xActive
                          /\ i < Len(xUpstream'[k]) => xUpstream'[k][i].last = "no"
        OBVIOUS
      <4>1. i + 1 \in 1..Len(xUpstream[k]) /\ xUpstream'[k][i] = xUpstream[k][i + 1]
            /\ (i < Len(xUpstream'[k]) => i + 1 < Len(xUpstream[k]))
        BY <1>3, <1>6, <3>0
      <4> QED BY <1>1, <1>2, <4>1 DEF Coming
    <3> QED BY <1>1, <1>2, <1>5, <3>1, <3>2, <3>3 DEF Coming
  <2>2. CASE j # k
    <3>1. j \notin xOpen
      BY <1>1, <2>2, LiveAlone DEF Live
    <3> QED BY <1>1, <3>1 DEF Coming
  <2> QED BY <2>1, <2>2
<1> QED BY <1>1, <1>8, <1>9, <1>10, <1>11, <1>12, <1>13 DEF CodexInv

(* What a delivery adds to a channel.                                       *)
LEMMA PutGoes ==
    ASSUME CodexInv, NEW r \in CodexRequests, NEW m \in Codex!Message, xChan' = Codex!Put(r, m)
    PROVE  /\ xChan' \in [CodexRequests -> Seq(Codex!Message)] /\ \A q \in CodexRequests \ {r} :
              xChan'[q] = xChan[q]
           /\ xReq[r].pc = "done" => xChan'[r] = xChan[r]
           /\ xReq[r].pc # "done" /\ GoesOn(r) /\ Goes(m) => \A i \in 1..Len(xChan'[r]) :
              Goes(xChan'[r][i])
           /\ (m.event # None => m.event.owner = r) =>
                 \A i \in 1..Len(xChan'[r]) : xChan'[r][i].event # None
                 => xChan'[r][i].event.owner = r
<1>1. CASE xChan' = xChan /\ xReq[r].pc = "done"
  BY <1>1, SessionTypes DEF CodexInv, RequestFine
<1>2. CASE xChan' = [xChan EXCEPT ![r] = Append(@, m)] /\ xReq[r].pc # "done"
  <2>1. xChan'[r] = Append(xChan[r], m) /\ \A q \in CodexRequests \ {r} : xChan'[q] = xChan[q]
    BY <1>2, SessionTypes
  <2>2. xChan[r] \in Seq(Codex!Message) /\ Len(xChan[r]) \in Nat
    BY SessionTypes
  <2>3. /\ Append(xChan[r], m) \in Seq(Codex!Message)
           /\ Len(Append(xChan[r], m)) = Len(xChan[r]) + 1
        /\ Append(xChan[r], m)[Len(xChan[r]) + 1] = m
        /\ \A i \in 1..Len(xChan[r]) : Append(xChan[r], m)[i] = xChan[r][i]
    BY <2>2
  <2>4. \A i \in 1..Len(xChan'[r]) : (i \in 1..Len(xChan[r]) /\ xChan'[r][i] = xChan[r][i])
        \/ xChan'[r][i] = m
    BY <2>1, <2>2, <2>3
  <2>5. xChan' \in [CodexRequests -> Seq(Codex!Message)]
    BY <1>2, <2>3, SessionTypes
  <2> QED BY <1>2, <2>1, <2>4, <2>5 DEF GoesOn, CodexInv, RequestFine
<1> QED BY <1>1, <1>2 DEF Codex!Put

(* The reader delivers to the request that is still active.                 *)
LEMMA DeliverKeeps ==
    ASSUME Codex!SessionAssumption, CodexInv, NEW k \in Codex!Conns, Codex!Deliver(k)
    PROVE  CodexInv'
<1>1. /\ xReader[k].pc = "deliver" /\ CodexReaderFine(k) /\ Coming(k) /\ Live(k)
      /\ xActive # None /\ xActive \in CodexRequests /\ xReader[k].chan = xActive
      /\ xActive \notin xClosed
  BY SessionTypes DEF Codex!Deliver, CodexInv, Turns, CodexReaderFine, Live
<1> PICK r \in CodexRequests : r = xActive
  BY <1>1
<1> DEFINE m == [conn |-> k, event |-> xReader[k].event]  l == [Codex!NoReader EXCEPT !.pc = "read"]
<1>2. /\ xChan' = Codex!Put(r, m) /\ xReader' = [xReader EXCEPT ![k] = l]
      /\ UNCHANGED <<xReqMu, xConn, xDialed, xOpen, xUpstream, xActive, xClosed, xReq, xHeard,
         xPanicked>>
  BY <1>1 DEF Codex!Deliver
<1>3. /\ m \in Codex!Message /\ m.event = xReader[k].event /\ m.event # None /\ m.event.owner = r
      /\ xReq[r].pc = "read" /\ GoesOn(r)
  BY <1>1, SessionTypes DEF Codex!Message, Loop, CodexReaderFine, GoesOn, Goes
<1>4. l \in Loop /\ l.pc = "read"
  BY DEF Loop, Codex!NoReader
<1> HIDE DEF m, l
<1>5. /\ xReader'[k] = l /\ (\A j \in Codex!Conns \ {k} : xReader'[j] = xReader[j])
         /\ xReader' \in [Codex!Conns -> Loop]
  BY <1>2, <1>4, LoopMoves
<1>6. /\ xChan' \in [CodexRequests -> Seq(Codex!Message)]
         /\ (\A q \in CodexRequests \ {r} : xChan'[q] = xChan[q])
      /\ \A i \in 1..Len(xChan'[r]) : xChan'[r][i].event # None => xChan'[r][i].event.owner = r
      /\ Goes(m) => \A i \in 1..Len(xChan'[r]) : Goes(xChan'[r][i])
  BY <1>2, <1>3, PutGoes
<1>7. \A j \in Codex!Conns : Live(j)' <=> Live(j)
  BY <1>1, <1>4, <1>5 DEF Live
<1>8. Codex!TypeOK'
  BY <1>2, <1>5, <1>6 DEF CodexInv, Codex!TypeOK, Loop
<1>9. Turns'
  BY <1>2 DEF CodexInv, Turns
<1>10. Connected'
  <2>1. ~(k > xDialed)
    BY <1>1 DEF CodexInv, Connected
  <2> QED BY <1>2, <1>5, <1>7, <2>1, SessionTypes DEF CodexInv, Connected
<1>11. ASSUME NEW q \in CodexRequests PROVE RequestFine(q)'
  <2>1. CASE q = r
    BY <1>2, <1>3, <1>6, <2>1 DEF CodexInv, RequestFine, Writing, Codex!Sending
  <2>2. CASE q # r
    BY <1>2, <1>6, <1>7, <2>2 DEF CodexInv, RequestFine
  <2> QED BY <2>1, <2>2
<1>12. ASSUME NEW j \in Codex!Conns PROVE CodexReaderFine(j)'
  <2>1. xReader'[j].pc \in {"none", "ended", "read"}
    BY <1>1, <1>4, <1>5, LiveAlone
  <2> QED BY <2>1 DEF CodexReaderFine
<1>13. ASSUME NEW j \in Codex!Conns PROVE Coming(j)'
  <2>1. CASE j = k
    <3> SUFFICES ASSUME k \in xOpen, xUpstream[k] # <<>> PROVE Coming(k)'
      BY <1>2, <2>1 DEF Coming
    <3>1. Goes(m)
      BY <1>1, <1>3 DEF Coming, Goes
    <3>2. GoesOn(xActive)'
      BY <1>2, <1>6, <3>1 DEF GoesOn, Goes
    <3> QED BY <1>1, <1>2, <1>4, <1>5, <3>2 DEF Coming
  <2>2. CASE j # k
    <3>1. j \notin xOpen
      BY <1>1, <2>2, LiveAlone
    <3> QED BY <1>2, <3>1 DEF Coming
  <2> QED BY <2>1, <2>2
<1> QED BY <1>2, <1>8, <1>9, <1>10, <1>11, <1>12, <1>13 DEF CodexInv

(* A step of the reader of a connection that is lost, with no event under way. *)
LEMMA LostMoves ==
    ASSUME Codex!SessionAssumption, CodexInv, NEW k \in Codex!Conns, Live(k), k \notin xOpen,
           NEW l \in Loop, xReader' = [xReader EXCEPT ![k] = l],
           l.pc \notin {"none", "deliver", "read"},
           xActive' \in {xActive, None}, xClosed' = xClosed
           \/ (xReader[k].pc = "close" /\ xClosed' = xClosed \cup {xReader[k].chan}),
           \/ UNCHANGED xChan
           \/ xReader[k].pc = "fail"
              /\ xChan' = Codex!Put(xReader[k].chan, [conn |-> k, event |-> None]),
           l.pc = "ended" => xConn' # k, l.pc # "ended" => xConn' = xConn,
           xConn' = xConn \/ (xConn' = None /\ xConn = k), xReader[k].pc # "deliver",
           l.pc \in {"fail", "close"} => /\ l.chan \in CodexRequests /\ l.chan \notin xClosed'
                                         /\ xReq[l.chan].pc \in {"read", "finish", "done"},
           l.pc = "close" => xActive' # l.chan,
           UNCHANGED <<xReqMu, xDialed, xOpen, xUpstream, xReq, xHeard, xPanicked>>
    PROVE  CodexInv'
<1>1. /\ xReader'[k] = l /\ (\A j \in Codex!Conns \ {k} : xReader'[j] = xReader[j])
         /\ xReader' \in [Codex!Conns -> Loop]
  BY LoopMoves
<1>2. xOpen = {} /\ \A j \in Codex!Conns \ {k} : ~Live(j) /\ xReader[j].pc \in {"none", "ended"}
  BY LiveAlone
<1>3. \A q \in CodexRequests : xReq[q].pc \notin Writing
  BY DEF CodexInv, RequestFine
<1>4. CodexReaderFine(k)
  BY DEF CodexInv
<1>5. /\ xChan' \in [CodexRequests -> Seq(Codex!Message)]
      /\ \A q \in CodexRequests : \/ xChan'[q] = xChan[q]
                                  \/ /\ xReq[q].pc \in {"read", "finish", "done"}
                                     /\ \A i \in 1..Len(xChan'[q]) : xChan'[q][i].event # None
                                        => xChan'[q][i].event.owner = q
  <2>1. CASE xChan' = xChan
    BY <2>1, SessionTypes
  <2>2. CASE xReader[k].pc = "fail"
             /\ xChan' = Codex!Put(xReader[k].chan, [conn |-> k, event |-> None])
    <3> DEFINE m == [conn |-> k, event |-> None]
    <3>1. PICK r \in CodexRequests : r = xReader[k].chan
          /\ xReq[r].pc \in {"read", "finish", "done"}
      BY <1>4, <2>2 DEF CodexReaderFine
    <3>2. m \in Codex!Message /\ m.event = None
      BY DEF Codex!Message
    <3> HIDE DEF m
    <3>3. xChan' = Codex!Put(r, m)
      BY <2>2, <3>1 DEF m
    <3> QED BY <3>1, <3>2, <3>3, PutGoes
  <2> QED BY <2>1, <2>2
<1>6. \A q \in CodexRequests : q \in xClosed' => q \in xClosed
      \/ xReq[q].pc \in {"read", "finish", "done"}
  BY <1>4 DEF CodexReaderFine
<1>7. xClosed' \subseteq CodexRequests
  BY <1>4, SessionTypes DEF CodexReaderFine
<1>8. Codex!TypeOK'
  BY <1>1, <1>5, <1>7, SessionTypes DEF CodexInv, Codex!TypeOK, Loop
<1>9. Turns'
  <2>1. xActive # None /\ xActive' = xActive => xActive \notin xClosed'
    BY <1>4 DEF CodexInv, Turns, CodexReaderFine
  <2> QED BY <2>1 DEF CodexInv, Turns
<1>10. Connected'
  <2>1. \A j \in Codex!Conns : Live(j)' => Live(j)
    BY <1>1, <1>2 DEF Live
  <2>2. xConn' # None => Live(xConn)'
    <3>1. ASSUME xConn' # None PROVE xConn' \in Codex!Conns /\ Live(xConn')
      BY <3>1, SessionTypes DEF CodexInv, Connected
    <3>2. xConn' # None => xConn' = k
      BY <1>2, <3>1
    <3> QED BY <1>1, <3>2 DEF Live
  <2>3. \A j \in Codex!Conns : j > xDialed => j # k
    BY DEF CodexInv, Connected, Live
  <2> QED BY <1>1, <1>2, <2>1, <2>2, <2>3 DEF CodexInv, Connected
<1>11. ASSUME NEW q \in CodexRequests PROVE RequestFine(q)'
  <2>1. RequestFine(q) /\ xReq'[q] = xReq[q] /\ xHeard'[q] = xHeard[q] /\ xReq[q].pc \notin Writing
    BY <1>3 DEF CodexInv
  <2>2. xReq[q].pc \in {"new", "lock"} \cup Codex!Sending
        => xReq[q].pc \notin {"read", "finish", "done"}
    BY DEF Codex!Sending
  <2>3. xReq[q].pc \in {"new", "lock"} \cup Codex!Sending => xChan'[q] = xChan[q]
        /\ q \notin xClosed'
    BY <1>5, <1>6, <2>1, <2>2 DEF RequestFine
  <2>4. \A i \in 1..Len(xChan'[q]) : xChan'[q][i].event # None => xChan'[q][i].event.owner = q
    BY <1>5, <2>1 DEF RequestFine
  <2> QED BY <2>1, <2>3, <2>4 DEF RequestFine
<1>12. ASSUME NEW j \in Codex!Conns PROVE CodexReaderFine(j)'
  <2>1. CASE j = k
    BY <1>1, <1>2, <2>1 DEF CodexReaderFine
  <2>2. CASE j # k
    BY <1>1, <1>2, <2>2 DEF CodexReaderFine
  <2> QED BY <2>1, <2>2
<1>13. ASSUME NEW j \in Codex!Conns PROVE Coming(j)'
  BY <1>2 DEF Coming
<1> QED BY <1>8, <1>9, <1>10, <1>11, <1>12, <1>13 DEF CodexInv

(* Reading fails: the connection is lost.                                   *)
LEMMA ReadFailsKeeps ==
    ASSUME Codex!SessionAssumption, CodexInv, NEW k \in Codex!Conns, Codex!ReadFails(k)
    PROVE  CodexInv'
<1> DEFINE l == [xReader[k] EXCEPT !.pc = IF xActive = None THEN "invalidate" ELSE "fail",
    !.chan = xActive]
<1>1. /\ l \in Loop /\ l.pc = (IF xActive = None THEN "invalidate" ELSE "fail") /\ l.chan = xActive
      /\ xReader' = [xReader EXCEPT ![k] = l] /\ k \notin xOpen /\ xReader[k].pc = "read"
      /\ UNCHANGED <<xReqMu, xConn, xDialed, xOpen, xUpstream, xActive, xChan, xClosed, xReq,
         xHeard, xPanicked>>
  BY SessionTypes DEF Codex!ReadFails, Loop
<1> HIDE DEF l
<1>2. Live(k)
  BY <1>1 DEF Live
<1>3. xActive # None => /\ xActive \in CodexRequests /\ xActive \notin xClosed
                        /\ xReq[xActive].pc \in Writing \cup {"read", "finish"}
                        /\ xReq[xActive].pc \notin Writing
  BY <1>1, <1>2, SessionTypes DEF CodexInv, Turns, RequestFine
<1> QED BY <1>1, <1>2, <1>3, LostMoves

(* The active request gets the error, ...                                   *)
LEMMA CodexFailKeeps ==
    ASSUME Codex!SessionAssumption, CodexInv, NEW k \in Codex!Conns, Codex!FailActive(k)
    PROVE  CodexInv'
<1> DEFINE l == [xReader[k] EXCEPT !.pc = "close"]
<1>1. /\ xReader[k].pc = "fail" /\ k \notin xOpen /\ xReader[k].chan \in CodexRequests
         /\ xReader[k].chan \notin xClosed
      /\ xReq[xReader[k].chan].pc \in {"read", "finish", "done"}
  BY DEF Codex!FailActive, CodexInv, CodexReaderFine
<1>2. /\ l \in Loop /\ l.pc = "close" /\ l.chan = xReader[k].chan
         /\ xReader' = [xReader EXCEPT ![k] = l]
      /\ xChan' = Codex!Put(xReader[k].chan, [conn |-> k, event |-> None])
      /\ xActive' = IF xActive = xReader[k].chan THEN None ELSE xActive
      /\ UNCHANGED <<xReqMu, xConn, xDialed, xOpen, xUpstream, xClosed, xReq, xHeard, xPanicked>>
  <2>1. xReader[k] \in Loop
    BY SessionTypes
  <2>2. l \in Loop /\ l.pc = "close" /\ l.chan = xReader[k].chan
    BY <2>1 DEF Loop
  <2>3. xReader' = [xReader EXCEPT ![k] = l]
    BY DEF Codex!FailActive
  <2> QED BY <1>1, <2>2, <2>3 DEF Codex!FailActive
<1> HIDE DEF l
<1>3. Live(k)
  BY <1>1 DEF Live
<1>4. xActive' # xReader[k].chan
  BY <1>1, <1>2 DEF Codex!SessionAssumption
<1> QED BY <1>1, <1>2, <1>3, <1>4, LostMoves

(* ... its channel is closed, once, ...                                     *)
LEMMA CodexCloseKeeps ==
    ASSUME Codex!SessionAssumption, CodexInv, NEW k \in Codex!Conns, Codex!CloseActive(k)
    PROVE  CodexInv'
<1> DEFINE l == [xReader[k] EXCEPT !.pc = "invalidate"]
<1>1. /\ xReader[k].pc = "close" /\ k \notin xOpen /\ xReader[k].chan \notin xClosed
  BY DEF Codex!CloseActive, CodexInv, CodexReaderFine
<1>2. /\ l \in Loop /\ l.pc = "invalidate" /\ xReader' = [xReader EXCEPT ![k] = l]
      /\ xClosed' = xClosed \cup {xReader[k].chan} /\ xPanicked' = xPanicked
      /\ UNCHANGED <<xReqMu, xConn, xDialed, xOpen, xUpstream, xActive, xChan, xReq, xHeard>>
  BY <1>1, SessionTypes DEF Codex!CloseActive, Loop, CodexInv, Codex!TypeOK
<1> HIDE DEF l
<1>3. Live(k)
  BY <1>1 DEF Live
<1> QED BY <1>1, <1>2, <1>3, LostMoves

(* ... and the connection is given up.                                      *)
LEMMA EndKeeps ==
    ASSUME Codex!SessionAssumption, CodexInv, NEW k \in Codex!Conns, Codex!EndReader(k)
    PROVE  CodexInv'
<1> DEFINE l == [Codex!NoReader EXCEPT !.pc = "ended"]
<1>1. xReader[k].pc = "invalidate" /\ k \notin xOpen /\ k # None
  BY DEF Codex!EndReader, CodexInv, CodexReaderFine, Codex!SessionAssumption
<1>2. /\ l \in Loop /\ l.pc = "ended" /\ xReader' = [xReader EXCEPT ![k] = l]
      /\ xConn' = (IF xConn = k THEN None ELSE xConn) /\ xOpen' = xOpen
      /\ UNCHANGED <<xReqMu, xDialed, xUpstream, xActive, xChan, xClosed, xReq, xHeard, xPanicked>>
  BY <1>1 DEF Codex!EndReader, Codex!Invalidate, Codex!NoReader, Loop
<1> HIDE DEF l
<1>3. Live(k)
  BY <1>1 DEF Live
<1> QED BY <1>1, <1>2, <1>3, LostMoves

(* Connections are lost, while no request is being sent. *)
LEMMA LossKeeps ==
    ASSUME CodexInv, Codex!Steady, xOpen' \subseteq xOpen,
           xConn' = xConn \/ (xConn' = None /\ xOpen' = {}),
           UNCHANGED <<xReqMu, xDialed, xUpstream, xActive, xChan, xClosed, xReader, xReq, xHeard,
           xPanicked>>
    PROVE  CodexInv'
<1>1. \A r \in CodexRequests : xReq[r].pc \notin Writing
  BY DEF Codex!Steady, Writing
<1>2. Codex!TypeOK'
  BY DEF CodexInv, Codex!TypeOK
<1>3. Turns'
  BY DEF CodexInv, Turns
<1>4. Connected'
  BY DEF CodexInv, Connected, Live
<1>5. ASSUME NEW r \in CodexRequests PROVE RequestFine(r)'
  BY <1>1 DEF CodexInv, RequestFine
<1>6. ASSUME NEW k \in Codex!Conns PROVE CodexReaderFine(k)' /\ Coming(k)'
  BY DEF CodexInv, CodexReaderFine, Coming, GoesOn, Goes
<1> QED BY <1>2, <1>3, <1>4, <1>5, <1>6 DEF CodexInv

(* The invariant of the session holds at the start.                         *)
LEMMA CodexStart ==
    ASSUME Codex!SessionAssumption, Codex!Init
    PROVE  CodexInv
<1>1. Codex!TypeOK
  <2>1. <<>> \in Seq(Codex!Event) /\ <<>> \in Seq(Codex!Message) /\ 0 \in 0..MaxConns
    BY DEF Codex!SessionAssumption
  <2>2. Codex!NoReader \in Loop
    BY DEF Codex!NoReader, Loop
  <2>3. [pc |-> "new", stream |-> FALSE, conn |-> None, result |-> "none"] \in Turn
    BY DEF Turn
  <2>4. /\ xUpstream \in [Codex!Conns -> Seq(Codex!Event)]
           /\ xChan \in [CodexRequests -> Seq(Codex!Message)]
        /\ xReader \in [Codex!Conns -> Loop] /\ xReq \in [CodexRequests -> Turn]
        /\ xHeard \in [CodexRequests -> SUBSET CodexRequests]
    BY <2>1, <2>2, <2>3 DEF Codex!Init
  <2> QED BY <2>1, <2>4 DEF Codex!Init, Codex!TypeOK, Turn, Loop
<1>2. Turns
  BY DEF Codex!Init, Turns, Holding, Codex!Sending, Codex!SessionAssumption
<1>5. Connected
  BY DEF Codex!Init, Connected, Codex!NoReader, Live
<1>3. ASSUME NEW r \in CodexRequests PROVE RequestFine(r)
  BY DEF Codex!Init, RequestFine, Writing
<1>4. ASSUME NEW k \in Codex!Conns PROVE CodexReaderFine(k) /\ Coming(k)
  BY DEF Codex!Init, CodexReaderFine, Coming, Codex!NoReader
<1> QED BY <1>1, <1>2, <1>3, <1>4, <1>5 DEF CodexInv, Codex!Init

(* Every step of the session keeps its invariant.                           *)
LEMMA CodexMoves ==
    ASSUME Codex!SessionAssumption, CodexInv, [Codex!Next]_(Codex!vars)
    PROVE  CodexInv'
<1>1. CASE \E r \in CodexRequests : Codex!Begin(r) \/ Codex!Step(r) \/ Codex!Cancel(r)
  <2> PICK r \in CodexRequests : Codex!Begin(r) \/ Codex!Step(r) \/ Codex!Cancel(r)
    BY <1>1
  <2>1. ~Codex!UpgradeRefused(r) /\ ~Codex!Cancel(r)
    BY DEF Codex!UpgradeRefused, Codex!Cancel
  <2> QED BY <2>1, BeginTurn, LockKeeps, DialKeeps, SetActiveKeeps, WriteKeeps, ReadKeeps,
             ClosedEnds, FinishKeeps
          DEF Codex!Step
<1>2. CASE \E k \in Codex!Conns : Codex!ReaderStep(k) \/ Codex!Break(k)
  <2> PICK k \in Codex!Conns : Codex!ReaderStep(k) \/ Codex!Break(k)
    BY <1>2
  <2>1. CASE Codex!Break(k)
    BY <2>1, LossKeeps DEF Codex!Break
  <2> QED BY <2>1, MessageKeeps, DeliverKeeps, ReadFailsKeeps, CodexFailKeeps, CodexCloseKeeps,
             EndKeeps DEF Codex!ReaderStep
<1>3. CASE Codex!CloseSession
  <2>1. xOpen' = {}
    BY <1>3 DEF Codex!CloseSession, CodexInv, Connected
  <2> QED BY <1>3, <2>1, LossKeeps DEF Codex!CloseSession
<1>4. CASE UNCHANGED Codex!vars
  <2>1. Codex!TypeOK' /\ Turns' /\ Connected'
    BY <1>4 DEF Codex!vars, CodexInv, Codex!TypeOK, Turns, Connected, Live
  <2>2. ASSUME NEW r \in CodexRequests PROVE RequestFine(r)'
    BY <1>4 DEF Codex!vars, CodexInv, RequestFine, Live
  <2>3. ASSUME NEW k \in Codex!Conns PROVE CodexReaderFine(k)' /\ Coming(k)'
    BY <1>4 DEF Codex!vars, CodexInv, CodexReaderFine, Coming, GoesOn, Goes
  <2> QED BY <1>4, <2>1, <2>2, <2>3 DEF CodexInv, Codex!vars
<1> QED BY <1>1, <1>2, <1>3, <1>4 DEF Codex!Next

(* What the invariant of the session is for.                                *)
LEMMA CodexHolds ==
    ASSUME CodexInv
    PROVE  Codex!NoPanic /\ Codex!OwnAnswerOnly
BY DEF CodexInv, RequestFine, Codex!NoPanic, Codex!OwnAnswerOnly

-----------------------------------------------------------------------------
\* Subsystems

(* Beside the others each part moves by its own steps, or rests.            *)
LEMMA PartsMove ==
    ASSUME [AllNext]_everything
    PROVE  /\ [Config!Next]_(Config!vars) /\ [Relay!Next]_(Relay!vars)
           /\ [Usage!Next]_(Usage!vars) /\ [Codex!Next]_(Codex!vars)
<1>1. CASE LockStep \/ BreakerStep \/ RefreshStep \/ TokensStep \/ UNCHANGED everything
  <2>1. UNCHANGED <<config, relay, usage, codex>>
    BY <1>1 DEF LockStep, BreakerStep, RefreshStep, TokensStep, everything
  <2> QED BY <2>1 DEF config, relay, usage, codex, Config!vars, Relay!vars, Usage!vars, Codex!vars
<1>2. CASE ConfigStep
  <2>1. Config!Next /\ UNCHANGED <<relay, usage, codex>>
    BY <1>2 DEF ConfigStep
  <2> QED BY <2>1 DEF relay, usage, codex, Relay!vars, Usage!vars, Codex!vars
<1>3. CASE RelayStep
  <2>1. Relay!Next /\ UNCHANGED <<config, usage, codex>>
    BY <1>3 DEF RelayStep
  <2> QED BY <2>1 DEF config, usage, codex, Config!vars, Usage!vars, Codex!vars
<1>4. CASE UsageStep
  <2>1. Usage!Next /\ UNCHANGED <<config, relay, codex>>
    BY <1>4 DEF UsageStep
  <2> QED BY <2>1 DEF config, relay, codex, Config!vars, Relay!vars, Codex!vars
<1>5. CASE CodexStep
  <2>1. Codex!Next /\ UNCHANGED <<config, relay, usage>>
    BY <1>5 DEF CodexStep
  <2> QED BY <2>1 DEF config, relay, usage, Config!vars, Relay!vars, Usage!vars
<1> QED BY <1>1, <1>2, <1>3, <1>4, <1>5 DEF AllNext

(* However reloads of config.yaml, updates of auth files and the deferred    *)
(* server update follow and overtake each other, and whatever configuration  *)
(* they took on the way: as long as no callback of theirs has begun in the   *)
(* middle of another one, the service, the server and the selector go by one *)
(* configuration whenever none runs (reloadCallback, service.go 559).  For   *)
(* any number of reloading goroutines and of edits, and whatever is assumed  *)
(* of the timing, nothing included.                                          *)
THEOREM ServedTogether == AllSpec => []OneConfigServed
<1>1. AllInit => ConfigInv
  BY ConfigStart, ConfigAssumption DEF AllInit
<1>2. ConfigInv /\ [AllNext]_everything => ConfigInv'
  BY PartsMove, ConfigMoves, ConfigAssumption
<1>3. ConfigInv => OneConfigServed
  BY DEF ConfigInv, Together, OneServed, Serving, OneConfigServed, Config!OneConfigServed
<1> QED BY <1>1, <1>2, <1>3, PTL DEF AllSpec

(* No goroutine of the relay or of a Codex session sends on a closed        *)
(* channel, closes one twice or asserts the type of what is not there: for  *)
(* any number of requests, connections, chunks and any capacity, where      *)
(* lookups do not overlap the end of a session and callers keep up (relay), *)
(* and where readers, writes and cancellations keep apart (Codex).  A lemma *)
(* only: the code does not keep them apart, and can panic where they meet.  *)
LEMMA ChannelsSound == AllSpec => []NoPanic
<1>1. AllInit => RelayInv /\ CodexInv
  BY RelayStart, CodexStart, RelayAssumption, CodexAssumption DEF AllInit
<1>2. RelayInv /\ CodexInv /\ [AllNext]_everything => RelayInv' /\ CodexInv'
  BY PartsMove, RelayMoves, CodexMoves, RelayAssumption, CodexAssumption
<1>3. RelayInv /\ CodexInv => NoPanic
  BY RelayHolds, CodexHolds DEF NoPanic
<1> QED BY <1>1, <1>2, <1>3, PTL DEF AllSpec

(* A relayed answer taken for a success has every piece, in order, and a    *)
(* request to a Codex session hears events of its own answer only, under    *)
(* the same assumptions, which the code does not ensure either.             *)
LEMMA AnswersComplete == AllSpec => []AnswersIntact
<1>1. AllInit => RelayInv /\ CodexInv
  BY RelayStart, CodexStart, RelayAssumption, CodexAssumption DEF AllInit
<1>2. RelayInv /\ CodexInv /\ [AllNext]_everything => RelayInv' /\ CodexInv'
  BY PartsMove, RelayMoves, CodexMoves, RelayAssumption, CodexAssumption
<1>3. RelayInv /\ CodexInv => AnswersIntact
  BY RelayHolds, CodexHolds DEF AnswersIntact
<1> QED BY <1>1, <1>2, <1>3, PTL DEF AllSpec

(* The statistics count every record once and their totals are the sums     *)
(* over the records counted, for any finite set of records and any number   *)
(* of imports, of exports taken at any time.                                *)
THEOREM StatisticsExact == AllSpec => []RecordsCounted
<1>1. AllInit => UsageInv
  BY UsageStart, UsageAssumption DEF AllInit
<1>2. UsageInv /\ [AllNext]_everything => UsageInv'
  BY PartsMove, UsageMoves, UsageAssumption
<1>3. UsageInv => RecordsCounted
  BY DEF UsageInv, RecordsCounted
<1> QED BY <1>1, <1>2, <1>3, PTL DEF AllSpec
=============================================================================
