------------------------ MODULE MCHierarchicalMutex ------------------------
(* Instances of HierarchicalMutex for TLC: the 10000, 6000 and 5000 of the *)
(* source become 3, 2 and 1, with ULONG_MAX = 4 above them.                *)
EXTENDS HierarchicalMutex, TLC

CONSTANTS high, other, low

(* Three mutexes at the levels the examples of the chapter use. *)
ThreeLevels == (high :> 3) @@ (other :> 2) @@ (low :> 1)

(* One mutex of the greatest value the constructor accepts. *)
TopLevel == (high :> ULONG_MAX) @@ (low :> 1)

ThreadSymmetry == Permutations(Threads)
=============================================================================
