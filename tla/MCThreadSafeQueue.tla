-------------------------- MODULE MCThreadSafeQueue --------------------------
(* Instances of ThreadSafeQueue for TLC: with liveness, hence without       *)
(* symmetry.                                                                *)
EXTENDS ThreadSafeQueue
=============================================================================
