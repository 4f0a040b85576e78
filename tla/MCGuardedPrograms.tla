------------------------- MODULE MCGuardedPrograms --------------------------
(* Instances of GuardedPrograms for TLC. *)
EXTENDS GuardedPrograms

AllPrograms == DOMAIN Operations
=============================================================================
