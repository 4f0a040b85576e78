----------------------------- MODULE SwapLocks ------------------------------
(***************************************************************************)
(* swap(X& lhs, X& rhs) in its three versions: X has a mutex m and a       *)
(* some_detail; swap locks both mutexes with std::lock, exchanges the      *)
(* details by way of a temporary, and its guards unlock.                   *)
(*                                                                         *)
(*   "lock_guard"   3.2.5_Deadlock.cpp, first X: std::lock, then two       *)
(*                  guards that adopt, both of them, lhs.m                 *)
(*   "scoped_lock"  3.2.5_Deadlock.cpp, second X                           *)
(*   "unique_lock"  3.3_UniqueLock.cpp: two deferred locks and std::lock;  *)
(*                  the body of its inner swap (13) is a stub, for which    *)
(*                  the three assignments of 3.2.5 (19-21) stand            *)
(*                                                                         *)
(* std::lock is external.  It locks one mutex, tries the other and, if     *)
(* that fails, gives the first one back and starts again with either.      *)
(***************************************************************************)
EXTENDS Integers

CONSTANTS
  Threads,
  Objects,      \* the instances of X; a detail is named by its first object
  NoThread,     \* a mutex is free
  NoObject,     \* an argument or a local of a call that is over
  Versions      \* which of the three are considered

ASSUME SwapAssumption ==
  /\ NoThread \notin Threads
  /\ NoObject \notin Objects
  /\ Versions \subseteq {"lock_guard", "scoped_lock", "unique_lock"}

VARIABLES
  version,      \* the version of swap the program was compiled with
  m,            \* the owner of each object's mutex, or NoThread
  some_detail,  \* the detail of each object
  pc,           \* where each thread is
  pair,         \* the arguments <<lhs, rhs>> of its last call
  first,        \* the mutex std::lock took first
  tmp           \* the temporary of the inner swap

vars == <<version, m, some_detail, pc, pair, first, tmp>>

lhs(t) == pair[t][1]
rhs(t) == pair[t][2]

Init ==
  /\ version \in Versions
  /\ m = [x \in Objects |-> NoThread]
  /\ some_detail = [x \in Objects |-> x]
  /\ pc = [t \in Threads |-> "idle"]
  /\ pair = [t \in Threads |-> <<NoObject, NoObject>>]
  /\ first = [t \in Threads |-> NoObject]
  /\ tmp = [t \in Threads |-> NoObject]

Goto(t, label) == pc' = [pc EXCEPT ![t] = label]

(* At label `from`, the thread takes a step and goes on to `to`. *)
At(t, from, to) == pc[t] = from /\ Goto(t, to) /\ UNCHANGED version

(* swap(lhs, rhs); the same object on both sides is not locked at all. *)
Call(t, p) ==
  /\ At(t, "idle", IF p[1] = p[2] THEN "return" ELSE "lock")
  /\ pair' = [pair EXCEPT ![t] = p]
  /\ UNCHANGED <<m, some_detail, first, tmp>>

(* std::lock waits for one of the two mutexes. *)
LockFirst(t, x) ==
  /\ At(t, "lock", "try")
  /\ x \in {lhs(t), rhs(t)}
  /\ m[x] = NoThread
  /\ m' = [m EXCEPT ![x] = t]
  /\ first' = [first EXCEPT ![t] = x]
  /\ UNCHANGED <<some_detail, pair, tmp>>

Other(t) == IF first[t] = lhs(t) THEN rhs(t) ELSE lhs(t)

(* Mutant: the second mutex is taken whoever owns it. *)
TakeSecond(t) ==
  /\ At(t, "try", "copy")
  /\ m' = [m EXCEPT ![Other(t)] = t]
  /\ first' = [first EXCEPT ![t] = NoObject]
  /\ UNCHANGED <<some_detail, pair, tmp>>

(* std::lock tries the other one and has both. *)
TrySecond(t) ==
  /\ At(t, "try", "copy")
  /\ m[Other(t)] = NoThread
  /\ m' = [m EXCEPT ![Other(t)] = t]
  /\ first' = [first EXCEPT ![t] = NoObject]
  /\ UNCHANGED <<some_detail, pair, tmp>>

(* Mutant: std::lock keeps the first one and goes on trying. *)
KeepFirst(t) ==
  /\ At(t, "try", "try")
  /\ m[Other(t)] # NoThread
  /\ UNCHANGED <<m, some_detail, pair, first, tmp>>

(* std::lock finds the other one taken and gives the first one back. *)
BackOff(t) ==
  /\ At(t, "try", "lock")
  /\ m[Other(t)] # NoThread
  /\ m' = [m EXCEPT ![first[t]] = NoThread]
  /\ first' = [first EXCEPT ![t] = NoObject]
  /\ UNCHANGED <<some_detail, pair, tmp>>

(* Mutant: the temporary is never assigned. *)
CopyNothing(t) ==
  /\ At(t, "copy", "assign rhs")
  /\ UNCHANGED <<m, some_detail, pair, first, tmp>>

(* Mutant: the temporary is a copy of the wrong side. *)
CopyLhs(t) ==
  /\ At(t, "copy", "assign rhs")
  /\ tmp' = [tmp EXCEPT ![t] = some_detail[lhs(t)]]
  /\ UNCHANGED <<m, some_detail, pair, first>>

(* some_big_object tmp = rhs; *)
CopyRhs(t) ==
  /\ At(t, "copy", "assign rhs")
  /\ tmp' = [tmp EXCEPT ![t] = some_detail[rhs(t)]]
  /\ UNCHANGED <<m, some_detail, pair, first>>

(* rhs = lhs; *)
AssignRhs(t) ==
  /\ At(t, "assign rhs", "assign lhs")
  /\ some_detail' = [some_detail EXCEPT ![rhs(t)] = some_detail[lhs(t)]]
  /\ UNCHANGED <<m, pair, first, tmp>>

(* lhs = tmp; *)
AssignLhs(t) ==
  /\ At(t, "assign lhs", "unlock 1")
  /\ some_detail' = [some_detail EXCEPT ![lhs(t)] = tmp[t]]
  /\ tmp' = [tmp EXCEPT ![t] = NoObject]
  /\ UNCHANGED <<m, pair, first>>

(* Mutant: every version adopts lhs.m in both guards. *)
GuardedLhs(t, n) == lhs(t)

(* The mutex that the first, and then the second, guard to be destroyed    *)
(* unlocks: lock_guard and unique_lock objects go in reverse order of      *)
(* their declarations, scoped_lock unlocks in the order of its arguments.  *)
Guarded(t, n) ==
  IF version = "lock_guard" THEN lhs(t)
  ELSE IF (version = "scoped_lock") = (n = 1) THEN lhs(t) ELSE rhs(t)

(* A guard unlocks its mutex; if the thread does not own it this is        *)
(* undefined behaviour, taken to free the mutex, which is what the build   *)
(* does.                                                                   *)
Unlock(t, n) ==
  /\ At(t, IF n = 1 THEN "unlock 1" ELSE "unlock 2", IF n = 1 THEN "unlock 2" ELSE "return")
  /\ m' = [m EXCEPT ![Guarded(t, n)] = NoThread]
  /\ UNCHANGED <<some_detail, pair, first, tmp>>

Return(t) ==
  /\ At(t, "return", "idle")
  /\ pair' = [pair EXCEPT ![t] = <<NoObject, NoObject>>]
  /\ UNCHANGED <<m, some_detail, first, tmp>>

Step(t) ==
  \/ \E p \in Objects \X Objects : Call(t, p)
  \/ \E x \in Objects : LockFirst(t, x)
  \/ TrySecond(t) \/ BackOff(t)
  \/ CopyRhs(t) \/ AssignRhs(t) \/ AssignLhs(t)
  \/ \E n \in {1, 2} : Unlock(t, n)
  \/ Return(t)

Next == \E t \in Threads : Step(t)

Spec == Init /\ [][Next]_vars

-----------------------------------------------------------------------------

Labels == {"idle", "lock", "try", "copy", "assign rhs", "assign lhs",
           "unlock 1", "unlock 2", "return"}

(* The type of every variable. *)
TypeOK ==
  /\ version \in Versions
  /\ m \in [Objects -> Threads \cup {NoThread}]
  /\ some_detail \in [Objects -> Objects]
  /\ pc \in [Threads -> Labels]
  /\ pair \in [Threads -> (Objects \X Objects) \cup {<<NoObject, NoObject>>}]
  /\ first \in [Threads -> Objects \cup {NoObject}]
  /\ tmp \in [Threads -> Objects \cup {NoObject}]

(* "After it both lock_guard are released and the mutex unlocke[d]": a     *)
(* thread outside swap, or waiting in std::lock for a first mutex, owns    *)
(* none.                                                                   *)
NothingKept ==
  \A t \in Threads :
    pc[t] \in {"idle", "lock", "return"} => \A x \in Objects : m[x] # t

(* "dont wait for another thread if there is a chance that it is waiting   *)
(* for you": whoever owns a mutex, in std::lock or after it, can go on     *)
(* whatever the other threads do.                                          *)
HoldersNeverWait ==
  \A t \in Threads : (\E x \in Objects : m[x] = t) => ENABLED <<Step(t)>>_vars

(* A thread that moves details owns the mutexes of both objects. *)
BothLocked ==
  \A t \in Threads :
    pc[t] \in {"copy", "assign rhs", "assign lhs"} => m[lhs(t)] = t /\ m[rhs(t)] = t

-----------------------------------------------------------------------------

(* A swap takes effect when it assigns lhs; until then the rhs it has      *)
(* already overwritten still counts as what tmp keeps.                     *)
Detail(x) ==
  IF \E t \in Threads : pc[t] = "assign lhs" /\ rhs(t) = x
    THEN tmp[CHOOSE t \in Threads : pc[t] = "assign lhs" /\ rhs(t) = x]
    ELSE some_detail[x]

Phase(t) ==
  IF pc[t] = "idle" THEN "idle"
  ELSE IF pc[t] \in {"unlock 1", "unlock 2"} \/ (pc[t] = "return" /\ lhs(t) # rhs(t))
    THEN "done" ELSE "pending"

Atomic == INSTANCE AtomicSwap WITH
            some_detail <- [x \in Objects |-> Detail(x)],
            phase       <- [t \in Threads |-> Phase(t)],
            pair        <- pair

(* Concurrent swaps, in any order and of overlapping pairs, exchange       *)
(* details atomically: none is lost or duplicated.                         *)
ImplementsAtomicSwap == Atomic!ASpec
=============================================================================
