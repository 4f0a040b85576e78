------------------------- MODULE HierarchicalMutex -------------------------
(***************************************************************************)
(* hierachical_mutex of 3.2.7_HierarchicalMutex.cpp: a mutex that refuses, *)
(* by an exception, to be locked by a thread that holds a mutex of a lower *)
(* or equal hierarchy value.                                               *)
(*                                                                         *)
(* The threads call lock, try_lock and unlock on the mutexes in any order, *)
(* an unlock also on a mutex they do not hold: the check in unlock is      *)
(* there for that.  A check and the thread_local value it reads belong to  *)
(* one thread, so the check is one step with the call; the lock of         *)
(* internal_mutex, the bookkeeping after it, and the unlock of             *)
(* internal_mutex after the bookkeeping are steps of their own.            *)
(***************************************************************************)
EXTENDS Integers

CONSTANTS
  Threads,
  Mutexes,
  NoThread,         \* internal_mutex is free
  ULONG_MAX,
  hierarchy_value   \* the argument of each mutex's constructor

ASSUME MutexAssumption ==
  /\ NoThread \notin Threads
  /\ ULONG_MAX \in Nat
  /\ hierarchy_value \in [Mutexes -> 0..ULONG_MAX]

VARIABLES
  internal_mutex,               \* [Mutexes -> owner or NoThread]
  previous_hierarchy_value,     \* [Mutexes -> value saved by its holder]
  this_thread_hierarchy_value,  \* [Threads -> value], thread_local
  pc,                           \* where each thread is
  target,                       \* the mutex it called last
  thrown                        \* the call that threw, if its last one did

vars == <<internal_mutex, previous_hierarchy_value,
          this_thread_hierarchy_value, pc, target, thrown>>

hv == hierarchy_value
thv == this_thread_hierarchy_value
prev == previous_hierarchy_value

Init ==
  /\ internal_mutex = [m \in Mutexes |-> NoThread]
  /\ previous_hierarchy_value = [m \in Mutexes |-> 0]
  /\ this_thread_hierarchy_value = [t \in Threads |-> ULONG_MAX]
  /\ pc = [t \in Threads |-> "idle"]
  /\ target \in [Threads -> Mutexes]
  /\ thrown = [t \in Threads |-> "nothing"]

Goto(t, label) == pc' = [pc EXCEPT ![t] = label]

Outcome(t, what) == thrown' = [thrown EXCEPT ![t] = what]

(* Mutant: a mutex of the same value is allowed. *)
ViolationIfHigher(t, m) == thv[t] < hv[m]

(* check_for_hierarchy_violation *)
Violation(t, m) == thv[t] <= hv[m]

(* lock() or try_lock() throws logic_error before it touches the mutex. *)
RefuseLock(t, m) ==
  /\ pc[t] = "idle"
  /\ Violation(t, m)
  /\ Outcome(t, "lock")
  /\ target' = [target EXCEPT ![t] = m]
  /\ UNCHANGED <<internal_mutex, prev, thv, pc>>

(* The check passes; next is internal_mutex.lock() or .try_lock(). *)
CallLock(t, m) ==
  /\ pc[t] = "idle"
  /\ ~Violation(t, m)
  /\ \/ Goto(t, "lock")
     \/ Goto(t, "try_lock")
  /\ target' = [target EXCEPT ![t] = m]
  /\ UNCHANGED <<internal_mutex, prev, thv, thrown>>

(* Mutant: internal_mutex does not exclude. *)
LockInternalAnyway(t) ==
  /\ pc[t] \in {"lock", "try_lock"}
  /\ internal_mutex' = [internal_mutex EXCEPT ![target[t]] = t]
  /\ Goto(t, "update")
  /\ UNCHANGED <<prev, thv, target, thrown>>

(* internal_mutex.lock() returns, or .try_lock() returns true. *)
LockInternal(t) ==
  /\ pc[t] \in {"lock", "try_lock"}
  /\ internal_mutex[target[t]] = NoThread
  /\ internal_mutex' = [internal_mutex EXCEPT ![target[t]] = t]
  /\ Goto(t, "update")
  /\ UNCHANGED <<prev, thv, target, thrown>>

(* internal_mutex.try_lock() returns false; it may do so on a free mutex. *)
TryLockFails(t) ==
  /\ pc[t] = "try_lock"
  /\ Goto(t, "idle")
  /\ Outcome(t, "nothing")
  /\ UNCHANGED <<internal_mutex, prev, thv, target>>

(* Mutant: the value is saved after it has been overwritten. *)
UpdateThenSave(t) ==
  /\ pc[t] = "update"
  /\ prev' = [prev EXCEPT ![target[t]] = hv[target[t]]]
  /\ thv' = [thv EXCEPT ![t] = hv[target[t]]]
  /\ Goto(t, "idle")
  /\ Outcome(t, "nothing")
  /\ UNCHANGED <<internal_mutex, target>>

(* Mutant: the value that unlock() restores is never saved. *)
UpdateWithoutSave(t) ==
  /\ pc[t] = "update"
  /\ thv' = [thv EXCEPT ![t] = hv[target[t]]]
  /\ Goto(t, "idle")
  /\ Outcome(t, "nothing")
  /\ UNCHANGED <<internal_mutex, prev, target>>

(* update_hierarchy_value, and the return from lock or try_lock. *)
UpdateHierarchyValue(t) ==
  /\ pc[t] = "update"
  /\ prev' = [prev EXCEPT ![target[t]] = thv[t]]
  /\ thv' = [thv EXCEPT ![t] = hv[target[t]]]
  /\ Goto(t, "idle")
  /\ Outcome(t, "nothing")
  /\ UNCHANGED <<internal_mutex, target>>

(* unlock() of a mutex that is not the last one the thread locked throws. *)
RefuseUnlock(t, m) ==
  /\ pc[t] = "idle"
  /\ thv[t] # hv[m]
  /\ Outcome(t, "unlock")
  /\ target' = [target EXCEPT ![t] = m]
  /\ UNCHANGED <<internal_mutex, prev, thv, pc>>

(* Mutant: unlock() does not check. *)
CallUnlockUnchecked(t, m) ==
  /\ pc[t] = "idle"
  /\ thv' = [thv EXCEPT ![t] = prev[m]]
  /\ Goto(t, "unlock")
  /\ target' = [target EXCEPT ![t] = m]
  /\ UNCHANGED <<internal_mutex, prev, thrown>>

(* Mutant: unlock() does not restore the saved value. *)
CallUnlockKeepsValue(t, m) ==
  /\ pc[t] = "idle"
  /\ thv[t] = hv[m]
  /\ Goto(t, "unlock")
  /\ target' = [target EXCEPT ![t] = m]
  /\ UNCHANGED <<internal_mutex, prev, thv, thrown>>

(* unlock() passes its check and restores the value lock() saved. *)
CallUnlock(t, m) ==
  /\ pc[t] = "idle"
  /\ thv[t] = hv[m]
  /\ thv' = [thv EXCEPT ![t] = prev[m]]
  /\ Goto(t, "unlock")
  /\ target' = [target EXCEPT ![t] = m]
  /\ UNCHANGED <<internal_mutex, prev, thrown>>

(* Mutant: unlock() forgets internal_mutex. *)
UnlockNothing(t) ==
  /\ pc[t] = "unlock"
  /\ Goto(t, "idle")
  /\ Outcome(t, "nothing")
  /\ UNCHANGED <<internal_mutex, prev, thv, target>>

(* internal_mutex.unlock(); without ownership this is undefined behaviour, *)
(* taken here to free the mutex, which is what the build does.             *)
UnlockInternal(t) ==
  /\ pc[t] = "unlock"
  /\ internal_mutex' = [internal_mutex EXCEPT ![target[t]] = NoThread]
  /\ Goto(t, "idle")
  /\ Outcome(t, "nothing")
  /\ UNCHANGED <<prev, thv, target>>

(* A call that the client makes. *)
Call(t, m) ==
  \/ RefuseLock(t, m) \/ CallLock(t, m)
  \/ RefuseUnlock(t, m) \/ CallUnlock(t, m)

(* A step inside a call. *)
Step(t) ==
  \/ LockInternal(t) \/ TryLockFails(t)
  \/ UpdateHierarchyValue(t) \/ UnlockInternal(t)

Next == \E t \in Threads : (\E m \in Mutexes : Call(t, m)) \/ Step(t)

Spec == Init /\ [][Next]_vars

-----------------------------------------------------------------------------
(* Two conditions on the values given to the constructors, which the code  *)
(* does not enforce.                                                       *)

BelowMax == \A m \in Mutexes : hv[m] < ULONG_MAX

DistinctValues == \A m, k \in Mutexes : hv[m] = hv[k] => m = k

(* The mutexes whose lock() returned to t and whose unlock() has not. *)
Held(t) ==
  {m \in Mutexes : internal_mutex[m] = t /\ ~(pc[t] = "update" /\ target[t] = m)}

(* The type of every variable.  A thread's value is ULONG_MAX or that of a *)
(* mutex: the 0 that a mutex holds until it is first locked, with which a  *)
(* thread could lock nothing any more, never becomes the value of one.     *)
TypeOK ==
  LET Values == {ULONG_MAX} \cup {hv[m] : m \in Mutexes}
  IN
  /\ internal_mutex \in [Mutexes -> Threads \cup {NoThread}]
  /\ prev \in [Mutexes -> Values \cup {0}]
  /\ thv \in [Threads -> Values]
  /\ pc \in [Threads -> {"idle", "lock", "try_lock", "update", "unlock"}]
  /\ target \in [Threads -> Mutexes]
  /\ thrown \in [Threads -> {"nothing", "lock", "unlock"}]

(* internal_mutex is unlocked only by the thread that locked it, although  *)
(* unlock() compares nothing but two numbers.                              *)
OwnerUnlocks == \A t \in Threads : pc[t] = "unlock" => internal_mutex[target[t]] = t

(* "It prevents circular wait": in no set of threads does each one wait,   *)
(* inside lock(), for a mutex that another one of the set owns.  A set of  *)
(* one is a thread that waits for itself.                                  *)
NoCircularWait ==
  \A S \in SUBSET Threads :
    S # {} => \E t \in S : ~(pc[t] = "lock" /\ internal_mutex[target[t]] \in S)

(* A thread that holds no mutex is never refused a lock: the thread_local  *)
(* value starts, and ends every balanced use, above every mutex.           *)
FirstLockAllowed ==
  [][\A t \in Threads :
       thrown'[t] = "lock" /\ thrown[t] # "lock" => Held(t) # {}]_vars

Ordered == INSTANCE OrderedLocking WITH held <- [t \in Threads |-> Held(t)]

(* The comparison of one number per thread with one number per mutex gives *)
(* exactly the promised discipline: calls throw if and only if the mutex   *)
(* is out of order among all those the thread holds.                       *)
ImplementsOrderedLocking == Ordered!OSpec
=============================================================================
