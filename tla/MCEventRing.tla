---------------------------- MODULE MCEventRing ----------------------------
(* EventRing on a small instance. *)
EXTENDS EventRing, TLC

SubSymmetry == Permutations(Sub)
=============================================================================
