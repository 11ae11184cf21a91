--------------------------- MODULE CircuitBreaker ---------------------------
(***************************************************************************)
(* The three-state circuit breaker of internal/router/health.go.  The      *)
(* breaker has no mutex: every field is a separate atomic, so each load,   *)
(* store, add or compare-and-swap of Allow, RecordSuccess and              *)
(* RecordFailure is one step here and the steps of concurrent callers      *)
(* interleave.                                                             *)
(*                                                                         *)
(* Data abstracted: "failures" is only ever compared with the threshold,   *)
(* so it saturates there; the clock is kept as the age of lastFailure,     *)
(* saturating at ResetTimeout, and the position within the current second, *)
(* because lastFailure is stored in whole seconds.                         *)
(***************************************************************************)
EXTENDS Naturals, FiniteSets

CONSTANTS
    Senders,        \* goroutines that send requests through the breaker
    Threshold,      \* threshold of NewCircuitBreaker
    ResetTimeout,   \* resetTimeout, in clock ticks
    TicksPerSecond  \* clock ticks in the second to which lastFailure is cut

ASSUME SendersAssumption == Senders # {}
ASSUME ThresholdAssumption == Threshold \in Nat \ {0}
ASSUME ClockAssumption ==
    /\ ResetTimeout \in Nat
    /\ TicksPerSecond \in Nat \ {0}

VARIABLES
    state,      \* CircuitBreaker.state
    failures,   \* CircuitBreaker.failures, saturating at Threshold
    age,        \* time since lastFailure as time.Since computes it
    phase,      \* ticks since the current second began
    pc,         \* where each caller is
    counted     \* what the caller's failures.Add returned

breaker == <<state, failures, age, phase, pc, counted>>

CircuitState == {"closed", "open", "half_open"}

PC == {"idle",      \* between two requests
       "loaded",    \* Allow saw the breaker open
       "elapsed",   \* Allow saw the reset timeout elapsed, CAS is next
       "admitted",  \* Allow returned true, the request is running
       "zeroed",    \* RecordSuccess stored failures = 0
       "added",     \* RecordFailure added 1 to failures
       "stamped"}   \* RecordFailure stored lastFailure

AtMost(x, bound) == IF x > bound THEN bound ELSE x

BreakerTypeOK ==
    /\ state \in CircuitState
    /\ failures \in 0..Threshold
    /\ age \in 0..ResetTimeout
    /\ phase \in 0..(TicksPerSecond - 1)
    /\ pc \in [Senders -> PC]
    /\ counted \in [Senders -> 0..Threshold]

(* A new breaker; lastFailure is the Unix epoch, long past. *)
BreakerInit ==
    /\ state = "closed"
    /\ failures = 0
    /\ age = ResetTimeout
    /\ phase = 0
    /\ pc = [c \in Senders |-> "idle"]
    /\ counted = [c \in Senders |-> 0]

-----------------------------------------------------------------------------
Goto(c, label) == pc' = [pc EXCEPT ![c] = label]

(* Allow: the load of the state and the branches that need no more. *)
AllowLoad(c) ==
    /\ pc[c] = "idle"
    /\ \/ /\ state \in {"closed", "half_open"}
          /\ Goto(c, "admitted")
       \/ /\ state = "open"
          /\ Goto(c, "loaded")
    /\ UNCHANGED <<state, failures, age, phase, counted>>

(* Mutant: the boundary of the comparison is off by one. *)
AllowElapsedStrict(c) ==
    /\ pc[c] = "loaded"
    /\ Goto(c, IF age > ResetTimeout THEN "elapsed" ELSE "idle")
    /\ UNCHANGED <<state, failures, age, phase, counted>>

(* Allow, open: the load of lastFailure and the comparison. *)
AllowElapsed(c) ==
    /\ pc[c] = "loaded"
    /\ Goto(c, IF age >= ResetTimeout THEN "elapsed" ELSE "idle")
    /\ UNCHANGED <<state, failures, age, phase, counted>>

(* Allow, open: the compare-and-swap; the loser is rejected. *)
AllowSwap(c) ==
    /\ pc[c] = "elapsed"
    /\ \/ /\ state = "open"
          /\ state' = "half_open"
          /\ Goto(c, "admitted")
       \/ /\ state # "open"
          /\ Goto(c, "idle")
          /\ UNCHANGED state
    /\ UNCHANGED <<failures, age, phase, counted>>

(* RecordSuccess: failures.Store(0), then state.Store(Closed). *)
SuccessZero(c) ==
    /\ pc[c] = "admitted"
    /\ failures' = 0
    /\ Goto(c, "zeroed")
    /\ UNCHANGED <<state, age, phase, counted>>

SuccessClose(c) ==
    /\ pc[c] = "zeroed"
    /\ state' = "closed"
    /\ Goto(c, "idle")
    /\ UNCHANGED <<failures, age, phase, counted>>

(* Mutant: the caller compares a count no failure produced. *)
FailureAddUncapped(c) ==
    /\ pc[c] = "admitted"
    /\ failures' = failures + 1
    /\ counted' = [counted EXCEPT ![c] = failures']
    /\ Goto(c, "added")
    /\ UNCHANGED <<state, age, phase>>

(* RecordFailure: failures.Add(1), lastFailure.Store, state.Store(Open). *)
FailureAdd(c) ==
    /\ pc[c] = "admitted"
    /\ failures' = AtMost(failures + 1, Threshold)
    /\ counted' = [counted EXCEPT ![c] = failures']
    /\ Goto(c, "added")
    /\ UNCHANGED <<state, age, phase>>

FailureStamp(c) ==
    /\ pc[c] = "added"
    /\ age' = AtMost(phase, ResetTimeout)
    /\ Goto(c, "stamped")
    /\ UNCHANGED <<state, failures, phase, counted>>

FailureOpen(c) ==
    /\ pc[c] = "stamped"
    /\ state' = IF counted[c] >= Threshold THEN "open" ELSE state
    /\ Goto(c, "idle")
    /\ counted' = [counted EXCEPT ![c] = 0]
    /\ UNCHANGED <<failures, age, phase>>

Tick ==
    /\ phase' = (phase + 1) % TicksPerSecond
    /\ age' = AtMost(age + 1, ResetTimeout)
    /\ UNCHANGED <<state, failures, pc, counted>>

Report(c) ==
    \/ SuccessZero(c) \/ SuccessClose(c)
    \/ FailureAdd(c) \/ FailureStamp(c) \/ FailureOpen(c)

SenderStep(c) == AllowLoad(c) \/ AllowElapsed(c) \/ AllowSwap(c) \/ Report(c)

BreakerNext == Tick \/ \E c \in Senders : SenderStep(c)

BreakerSpec == BreakerInit /\ [][BreakerNext]_breaker

(* The goroutines run, time passes and, as long as there is traffic, some  *)
(* request arrives: nothing more is assumed of the scheduling.             *)
BreakerFairSpec ==
    /\ BreakerSpec
    /\ WF_breaker(Tick)
    /\ \A c \in Senders : WF_breaker(SenderStep(c))

-----------------------------------------------------------------------------
(* Under continued traffic the breaker does not stay open for ever: some   *)
(* caller of Allow finds the timeout elapsed and wins the swap, whatever    *)
(* late failures still push lastFailure forward.                           *)
EventuallyProbed == []<>(state # "open")
=============================================================================
