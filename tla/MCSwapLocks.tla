---------------------------- MODULE MCSwapLocks -----------------------------
(* Instances of SwapLocks for TLC. *)
EXTENDS SwapLocks, TLC

ThreadSymmetry == Permutations(Threads)
=============================================================================
