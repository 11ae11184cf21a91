-------------------------- MODULE MCModelRegistry ---------------------------
(* Instances of ModelRegistry for TLC. *)
EXTENDS ModelRegistry

Once == [m \in Models |-> 1]
=============================================================================
