------------------------------ MODULE MCLifecycle ------------------------------
(* Lifecycle for TLC: the cards, processes and places are in the cfg. *)
EXTENDS Lifecycle
=============================================================================
