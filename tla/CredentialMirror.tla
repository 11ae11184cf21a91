-------------------------- MODULE CredentialMirror --------------------------
(***************************************************************************)
(* What the watcher, its dispatcher and the service promise together: the  *)
(* manager's list of credentials is a mirror of the credentials there are  *)
(* (files in the auth directory, websocket channels).  The mirror may lag  *)
(* and may skip states, but it never steps back to an older state, and     *)
(* when a credential has changed it follows.                               *)
(*                                                                         *)
(* The state of a credential is numbered ("ver"), so that "older" means    *)
(* something; two states in which the credential is gone, or in which it   *)
(* has the same content, need not be told apart.                           *)
(***************************************************************************)
EXTENDS Naturals

CONSTANTS
    Creds,      \* credentials, by their ID
    MaxChanges  \* changes of one credential (bound)

VARIABLES
    source,  \* what there is
    mirror   \* what the manager serves from

vars == <<source, mirror>>

State == [ver : 0..MaxChanges, there : BOOLEAN, content : 0..MaxChanges]

Same(s, t) == s.there = t.there /\ (s.there => s.content = t.content)

TypeOK == source \in [Creds -> State] /\ mirror \in [Creds -> State]

Init == TypeOK /\ mirror = source

Change(c) ==
    /\ \E s \in State : s.ver = source[c].ver + 1 /\ source' = [source EXCEPT ![c] = s]
    /\ UNCHANGED mirror

Learn(c) ==
    /\ \E s \in State :
          /\ mirror[c].ver < s.ver /\ s.ver <= source[c].ver
          /\ s.ver = source[c].ver => s = source[c]
          /\ mirror' = [mirror EXCEPT ![c] = s]
    /\ UNCHANGED source

Next == \E c \in Creds : Change(c) \/ Learn(c)

Lags == Init /\ [][Next]_vars
Follows == \A c \in Creds : WF_vars(~Same(mirror[c], source[c]) /\ Learn(c))

Spec == Lags /\ Follows
=============================================================================
