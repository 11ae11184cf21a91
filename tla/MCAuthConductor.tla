-------------------------- MODULE MCAuthConductor ---------------------------
(* Instances of AuthConductor for TLC. *)
EXTENDS AuthConductor, TLC

CONSTANTS a1, a2, m1, m2

(* Cooldowns of one and two ticks, the second one being the cut. *)
MCQuotaCooldown == 0 :> 1 @@ 1 :> 2
NoRetryAfter == {NoTime}
EitherRetryAfter == {NoTime, 1}
AllSupported == [a \in Auths |-> Models]
OneOnly == [a \in Auths |-> IF a = a2 THEN {m2} ELSE Models]
FlatPriority == [a \in Auths |-> 0]
A1First == [a \in Auths |-> IF a = a1 THEN 1 ELSE 0]
RetryOnce == [a \in Auths |-> 1]
RetryA1Twice == [a \in Auths |-> IF a = a1 THEN 2 ELSE 0]
Unpinned == {Auths}
PinnedToo == {Auths, {a1}}
NoAuth == {}
RequestSymmetry == Permutations(Requests)
=============================================================================
