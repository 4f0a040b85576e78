-------------------------- MODULE MCRegistryUpdate --------------------------
(* Instances of RegistryUpdate for TLC: the values of the two mutexes,     *)
(* 10000 and 5000, become 2 and 1.                                         *)
EXTENDS RegistryUpdate, TLC

Levels == (high_level_mutex :> 2) @@ (low_level_mutex :> 1)
=============================================================================
