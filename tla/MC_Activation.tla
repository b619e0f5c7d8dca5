--------------------------- MODULE MC_Activation ----------------------------
(* A small instance of Activation: the daemon's loop and an operator's       *)
(* command on one follow-up, one queue row and one signal of another kind.   *)
EXTENDS Activation

ActivationFairSpec == ActivationSpec /\ ActivationFairness
=============================================================================
