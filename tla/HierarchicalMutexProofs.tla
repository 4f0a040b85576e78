----------------------- MODULE HierarchicalMutexProofs -----------------------
(***************************************************************************)
(* Theorems about HierarchicalMutex, for any sets of threads and mutexes   *)
(* and any values of hierarchy_value below ULONG_MAX, all different; then  *)
(* about its client RegistryUpdate, for any number of threads, users and   *)
(* amounts.                                                                *)
(***************************************************************************)
EXTENDS RegistryUpdate, SumTheorems, WellFoundedInduction, TLAPS

-----------------------------------------------------------------------------
(* The mutex *)

(* The mutexes that this_thread_hierarchy_value of t accounts for: those   *)
(* it owns, but not one it is just locking or unlocking.                   *)
Chain(t) ==
  {m \in Mutexes : internal_mutex[m] = t
                     /\ ~(pc[t] \in {"update", "unlock"} /\ target[t] = m)}

(* A thread at "update" or "unlock" owns its target. *)
Owns == \A t \in Threads : pc[t] \in {"update", "unlock"} => internal_mutex[target[t]] = t

(* The target of a thread that passed its check is below the thread. *)
TargetBelow == \A t \in Threads : pc[t] # "idle" => hv[target[t]] < thv[t]

(* v is the least value of the mutexes in M, or ULONG_MAX if M is empty. *)
LeastOf(v, M) ==
  /\ \A m \in M : v <= hv[m]
  /\ v = ULONG_MAX \/ \E m \in M : v = hv[m]

(* this_thread_hierarchy_value is the least value in the chain. *)
ThreadLeast == \A t \in Threads : LeastOf(thv[t], Chain(t))

(* Each mutex in the chain saved the least value above its own, so that    *)
(* unlock() can restore it.                                                *)
SavedLeast ==
  \A t \in Threads : \A m \in Chain(t) :
    /\ hv[m] < prev[m]
    /\ LeastOf(prev[m], {k \in Chain(t) : hv[m] < hv[k]})

(* The types without which nothing below can be said: every value is an    *)
(* unsigned long.                                                          *)
Typing ==
  /\ internal_mutex \in [Mutexes -> Threads \cup {NoThread}]
  /\ prev \in [Mutexes -> 0..ULONG_MAX]
  /\ thv \in [Threads -> 0..ULONG_MAX]
  /\ pc \in [Threads -> {"idle", "lock", "try_lock", "update", "unlock"}]
  /\ target \in [Threads -> Mutexes]
  /\ thrown \in [Threads -> {"nothing", "lock", "unlock"}]

IInv == Typing /\ Owns /\ TargetBelow /\ ThreadLeast /\ SavedLeast

-----------------------------------------------------------------------------

(* These types need no condition on the values. *)
LEMMA TypingKept == Spec => []Typing
<1>1. Init => Typing
  BY MutexAssumption DEF Init, Typing, prev, thv
<1>2. Typing /\ [Next]_vars => Typing'
  <2> SUFFICES ASSUME Typing, [Next]_vars PROVE Typing'
    OBVIOUS
  <2> USE MutexAssumption DEF Typing, prev, thv, hv, Goto, Outcome
  <2>1. CASE UNCHANGED vars
    BY <2>1 DEF vars
  <2>2. ASSUME NEW t \in Threads, NEW m \in Mutexes, Call(t, m) PROVE Typing'
    <3>1. CASE RefuseLock(t, m) BY <3>1 DEF RefuseLock
    <3>2. CASE CallLock(t, m) BY <3>2 DEF CallLock
    <3>3. CASE RefuseUnlock(t, m) BY <3>3 DEF RefuseUnlock
    <3>4. CASE CallUnlock(t, m) BY <3>4 DEF CallUnlock
    <3> QED BY <2>2, <3>1, <3>2, <3>3, <3>4 DEF Call
  <2>3. ASSUME NEW t \in Threads, Step(t) PROVE Typing'
    <3>1. CASE LockInternal(t) BY <3>1 DEF LockInternal
    <3>2. CASE TryLockFails(t) BY <3>2 DEF TryLockFails
    <3>3. CASE UpdateHierarchyValue(t) BY <3>3 DEF UpdateHierarchyValue
    <3>4. CASE UnlockInternal(t) BY <3>4 DEF UnlockInternal
    <3> QED BY <2>3, <3>1, <3>2, <3>3, <3>4 DEF Step
  <2> QED BY <2>1, <2>2, <2>3 DEF Next
<1> QED BY <1>1, <1>2, PTL DEF Spec

(* The values a thread compares are natural numbers. *)
LEMMA ValuesAreNaturals ==
  ASSUME Typing
  PROVE  /\ \A m \in Mutexes : hv[m] \in Nat /\ prev[m] \in Nat
         /\ \A t \in Threads : thv[t] \in Nat
BY MutexAssumption DEF Typing, MutexAssumption, hv

(* A step that leaves the chains and the values alone keeps them right. *)
LEMMA ChainsKept ==
  ASSUME ThreadLeast, SavedLeast, thv' = thv, prev' = prev,
         \A u \in Threads : Chain(u)' = Chain(u)
  PROVE  ThreadLeast' /\ SavedLeast'
BY DEF ThreadLeast, SavedLeast, LeastOf, hv

(* A call that throws, or passes the check of lock, moves no chain. *)
LEMMA CallKeeps ==
  ASSUME IInv, NEW t \in Threads, NEW m \in Mutexes,
         RefuseLock(t, m) \/ CallLock(t, m) \/ RefuseUnlock(t, m)
  PROVE  Owns' /\ TargetBelow' /\ ThreadLeast' /\ SavedLeast'
<1> USE MutexAssumption DEF IInv, Typing, hv, thv, prev, Goto, Outcome
<1> USE DEF RefuseLock, CallLock, RefuseUnlock, Violation
<1>1. Owns'
  BY DEF Owns
<1>2. TargetBelow'
  BY DEF TargetBelow
<1>3. \A u \in Threads : Chain(u)' = Chain(u)
  BY DEF Chain
<1>4. thv' = thv /\ prev' = prev
  OBVIOUS
<1> QED BY <1>1, <1>2, <1>3, <1>4, ChainsKept

(* Nor does a step on internal_mutex alone: the target is not accounted    *)
(* for before the update of lock and after the one of unlock.              *)
LEMMA InternalKeeps ==
  ASSUME IInv, NEW t \in Threads,
         LockInternal(t) \/ TryLockFails(t) \/ UnlockInternal(t)
  PROVE  Owns' /\ TargetBelow' /\ ThreadLeast' /\ SavedLeast'
<1> USE MutexAssumption DEF IInv, Typing, hv, thv, prev, Goto, Outcome
<1> USE DEF LockInternal, TryLockFails, UnlockInternal
<1>1. Owns'
  BY DEF Owns
<1>2. TargetBelow'
  BY DEF TargetBelow
<1>3. \A u \in Threads : Chain(u)' = Chain(u)
  BY DEF Chain, Owns
<1>4. thv' = thv /\ prev' = prev
  OBVIOUS
<1> QED BY <1>1, <1>2, <1>3, <1>4, ChainsKept

(* update_hierarchy_value adds the target, below all others, to the chain. *)
LEMMA UpdateKeeps ==
  ASSUME IInv, NEW t \in Threads, UpdateHierarchyValue(t)
  PROVE  Owns' /\ TargetBelow' /\ ThreadLeast' /\ SavedLeast'
<1> USE MutexAssumption DEF IInv, Typing, hv, thv, prev, Goto, Outcome
<1> USE DEF UpdateHierarchyValue
<1> PICK m \in Mutexes : m = target[t]
  OBVIOUS
<1>1. Owns'
  BY DEF Owns
<1>2. TargetBelow'
  BY DEF TargetBelow
<1>3. m \in Mutexes /\ hv[m] < thv[t] /\ internal_mutex[m] = t
  BY DEF Owns, TargetBelow
<1>4. Chain(t)' = Chain(t) \cup {m} /\ m \notin Chain(t)
  BY <1>3 DEF Chain
<1>5. \A u \in Threads \ {t} : Chain(u)' = Chain(u) /\ m \notin Chain(u)
  BY <1>3 DEF Chain
<1>6. \A k \in Chain(t) : hv[m] < hv[k] /\ k \in Mutexes
  <2>1. \A k \in Chain(t) : thv[t] <= hv[k] /\ k \in Mutexes
    BY DEF ThreadLeast, LeastOf, Chain
  <2>2. thv[t] \in Nat /\ \A k \in Mutexes : hv[k] \in Nat
    BY ValuesAreNaturals
  <2> QED BY <2>1, <2>2, <1>3
<1>7. \A k \in Mutexes \ {m} : prev'[k] = prev[k]
  OBVIOUS
<1>8. prev'[m] = thv[t] /\ thv'[t] = hv[m] /\ \A u \in Threads \ {t} : thv'[u] = thv[u]
  BY <1>3
<1>a. \A k \in Mutexes : hv[k] \in Nat
  BY ValuesAreNaturals
<1> HIDE DEF UpdateHierarchyValue, Typing
<1>9. ThreadLeast'
  <2> SUFFICES ASSUME NEW u \in Threads PROVE LeastOf(thv[u], Chain(u))'
    BY DEF ThreadLeast
  <2>1. CASE u = t
    BY <2>1, <1>4, <1>6, <1>8, <1>a DEF LeastOf
  <2>2. CASE u # t
    BY <2>2, <1>5, <1>8 DEF LeastOf, ThreadLeast
  <2> QED BY <2>1, <2>2
<1>10. SavedLeast'
  <2> SUFFICES ASSUME NEW u \in Threads, NEW k \in Chain(u)'
               PROVE  /\ hv[k] < prev'[k]
                      /\ LeastOf(prev'[k], {j \in Chain(u)' : hv[k] < hv[j]})
    BY DEF SavedLeast, LeastOf
  <2> k \in Mutexes
    BY DEF Chain
  <2>1. CASE u # t
    <3>1. k \in Chain(u) /\ prev'[k] = prev[k]
      BY <2>1, <1>5, <1>7
    <3> QED BY <2>1, <3>1, <1>5 DEF SavedLeast
  <2>2. CASE u = t /\ k = m
    <3>1. {j \in Chain(u)' : hv[k] < hv[j]} = Chain(t)
      BY <2>2, <1>4, <1>6, <1>a
    <3> QED BY <2>2, <3>1, <1>3, <1>8 DEF ThreadLeast
  <2>3. CASE u = t /\ k # m
    <3>1. k \in Chain(t) /\ prev'[k] = prev[k]
      BY <2>3, <1>4, <1>7
    <3>2. {j \in Chain(u)' : hv[k] < hv[j]} = {j \in Chain(t) : hv[k] < hv[j]}
      BY <2>3, <3>1, <1>4, <1>6, <1>a
    <3> QED BY <3>1, <3>2 DEF SavedLeast
  <2> QED BY <2>1, <2>2, <2>3
<1> QED BY <1>1, <1>2, <1>9, <1>10

(* The check of unlock accepts only the lowest mutex of the chain. *)
LEMMA UnlocksLowest ==
  ASSUME IInv, BelowMax, DistinctValues,
         NEW t \in Threads, NEW m \in Mutexes, thv[t] = hv[m]
  PROVE  m \in Chain(t) /\ \A k \in Chain(t) \ {m} : hv[m] < hv[k]
<1> USE MutexAssumption DEF IInv, Typing, hv, thv
<1>1. PICK k \in Chain(t) : thv[t] = hv[k]
  BY DEF ThreadLeast, LeastOf, BelowMax
<1>2. m \in Chain(t)
  BY <1>1 DEF DistinctValues, Chain
<1>3. \A j \in Chain(t) \ {m} : hv[m] # hv[j] /\ hv[m] <= hv[j] /\ j \in Mutexes
  BY DEF ThreadLeast, LeastOf, DistinctValues, Chain
<1> QED BY <1>2, <1>3

(* unlock() takes the lowest mutex out of the chain. *)
LEMMA CallUnlockKeeps ==
  ASSUME IInv, BelowMax, DistinctValues,
         NEW t \in Threads, NEW m \in Mutexes, CallUnlock(t, m)
  PROVE  Owns' /\ TargetBelow' /\ ThreadLeast' /\ SavedLeast'
<1> USE MutexAssumption DEF IInv, Typing, hv, thv, prev, Goto
<1> USE DEF CallUnlock
<1>1. m \in Chain(t) /\ \A k \in Chain(t) \ {m} : hv[m] < hv[k]
  BY UnlocksLowest
<1>2. internal_mutex[m] = t /\ hv[m] < prev[m]
  BY <1>1 DEF Chain, SavedLeast
<1>3. Owns'
  BY <1>2 DEF Owns
<1>4. TargetBelow'
  BY <1>2 DEF TargetBelow
<1>5. Chain(t)' = Chain(t) \ {m}
  BY <1>2 DEF Chain
<1>6. \A u \in Threads \ {t} : Chain(u)' = Chain(u)
  BY DEF Chain
<1>7. {k \in Chain(t) : hv[m] < hv[k]} = Chain(t) \ {m}
  BY <1>1
<1>8. LeastOf(prev[m], Chain(t) \ {m})
  BY <1>1, <1>7 DEF SavedLeast
<1>9. ThreadLeast'
  <2> SUFFICES ASSUME NEW u \in Threads PROVE LeastOf(thv'[u], Chain(u)')
    BY DEF ThreadLeast, LeastOf
  <2>1. CASE u = t
    BY <2>1, <1>5, <1>8
  <2>2. CASE u # t
    BY <2>2, <1>6 DEF ThreadLeast
  <2> QED BY <2>1, <2>2
<1>10. SavedLeast'
  <2> SUFFICES ASSUME NEW u \in Threads, NEW k \in Chain(u)'
               PROVE  /\ hv[k] < prev[k]
                      /\ LeastOf(prev[k], {j \in Chain(u)' : hv[k] < hv[j]})
    BY DEF SavedLeast, LeastOf
  <2>1. k \in Chain(u)
    BY <1>5, <1>6
  <2>2. {j \in Chain(u)' : hv[k] < hv[j]} = {j \in Chain(u) : hv[k] < hv[j]}
    <3>1. CASE u # t
      BY <3>1, <1>6
    <3>2. CASE u = t
      <4>1. k # m /\ hv[m] < hv[k] /\ k \in Mutexes
        BY <3>2, <1>1, <1>5 DEF Chain
      <4> QED BY <3>2, <4>1, <1>5
    <3> QED BY <3>1, <3>2
  <2> QED BY <2>1, <2>2 DEF SavedLeast
<1> QED BY <1>3, <1>4, <1>9, <1>10

(* IInv is an inductive invariant. *)
THEOREM Invariance == BelowMax /\ DistinctValues => (Spec => []IInv)
<1> SUFFICES ASSUME BelowMax, DistinctValues PROVE Spec => []IInv
  OBVIOUS
<1>1. Init => IInv
  <2> SUFFICES ASSUME Init PROVE IInv
    OBVIOUS
  <2> USE MutexAssumption DEF Init, hv, thv, prev
  <2>1. Typing
    BY DEF Typing
  <2>2. Owns /\ TargetBelow
    BY DEF Owns, TargetBelow
  <2>3. \A t \in Threads : Chain(t) = {}
    BY DEF Chain
  <2> QED BY <2>1, <2>2, <2>3 DEF IInv, ThreadLeast, SavedLeast, LeastOf
<1>2. Typing /\ IInv /\ [Next]_vars => (Typing' => IInv')
  <2> SUFFICES ASSUME IInv, [Next]_vars
               PROVE  Owns' /\ TargetBelow' /\ ThreadLeast' /\ SavedLeast'
    BY DEF IInv
  <2>1. CASE UNCHANGED vars
    BY <2>1 DEF vars, IInv, Owns, TargetBelow, ThreadLeast, SavedLeast, LeastOf,
                Chain, hv, thv, prev
  <2>2. ASSUME NEW t \in Threads, NEW m \in Mutexes, Call(t, m)
        PROVE  Owns' /\ TargetBelow' /\ ThreadLeast' /\ SavedLeast'
    BY <2>2, CallKeeps, CallUnlockKeeps DEF Call
  <2>3. ASSUME NEW t \in Threads, Step(t)
        PROVE  Owns' /\ TargetBelow' /\ ThreadLeast' /\ SavedLeast'
    BY <2>3, InternalKeeps, UpdateKeeps DEF Step
  <2> QED BY <2>1, <2>2, <2>3 DEF Next
<1>3. IInv => Typing
  BY DEF IInv
<1> QED BY <1>1, <1>2, <1>3, TypingKept, PTL DEF Spec

(* Every nonempty set of natural numbers has a least element. *)
LEMMA LeastNatural ==
  ASSUME NEW N, N \subseteq Nat, N # {}
  PROVE  \E x \in N : \A y \in N : x <= y
<1>1. PICK x \in N : \A y \in N : <<y, x>> \notin OpToRel(<, Nat)
  BY NatLessThanWellFounded, WFMin
<1>2. \A y \in N : ~(y < x)
  BY <1>1 DEF OpToRel
<1> QED BY <1>2

-----------------------------------------------------------------------------

(* What a mutex saved is the value of a thread that locked it. *)
SavedValues == \A m \in Mutexes : prev[m] \in {0, ULONG_MAX} \cup {hv[k] : k \in Mutexes}

(* Type correctness: a thread's value is the least in its chain, so it is  *)
(* that of a mutex or ULONG_MAX; and only such values are ever saved.      *)
THEOREM TypeCorrect == BelowMax /\ DistinctValues => (Spec => []TypeOK)
<1> SUFFICES ASSUME BelowMax, DistinctValues PROVE Spec => []TypeOK
  OBVIOUS
<1>1. IInv => \A t \in Threads : thv[t] \in {ULONG_MAX} \cup {hv[k] : k \in Mutexes}
  BY DEF IInv, ThreadLeast, LeastOf, Chain
<1>2. Init => SavedValues
  BY DEF Init, SavedValues, prev
<1>3. IInv /\ SavedValues /\ [Next]_vars => SavedValues'
  <2> SUFFICES ASSUME IInv, SavedValues, [Next]_vars, NEW m \in Mutexes
               PROVE  prev'[m] \in {0, ULONG_MAX} \cup {hv[k] : k \in Mutexes}
    BY DEF SavedValues, hv
  <2>1. CASE prev' = prev
    BY <2>1 DEF SavedValues
  <2>2. CASE \E t \in Threads : UpdateHierarchyValue(t)
    <3>1. PICK t \in Threads : prev' = [prev EXCEPT ![target[t]] = thv[t]]
      BY <2>2 DEF UpdateHierarchyValue
    <3>2. prev'[m] \in {prev[m], thv[t]}
      BY <3>1 DEF IInv, Typing
    <3> QED
      BY <3>2, <1>1 DEF SavedValues
  <2>3. prev' = prev \/ \E t \in Threads : UpdateHierarchyValue(t)
    BY DEF Next, Call, Step, vars, prev, RefuseLock, CallLock, RefuseUnlock, CallUnlock,
           LockInternal, TryLockFails, UnlockInternal
  <2> QED
    BY <2>1, <2>2, <2>3
<1>4. IInv /\ SavedValues => TypeOK
  BY <1>1 DEF IInv, Typing, SavedValues, TypeOK
<1> QED
  BY <1>2, <1>3, <1>4, Invariance, PTL DEF Spec

(* An unlock that passes the check is made by the owner. *)
THEOREM OwnerUnlocksTheorem == BelowMax /\ DistinctValues => (Spec => []OwnerUnlocks)
<1>1. IInv => OwnerUnlocks
  BY DEF IInv, Owns, OwnerUnlocks
<1> QED BY <1>1, Invariance, PTL

(* No circular wait: a thread that waits is above the mutex it waits for,  *)
(* whose owner, if it waits too, is not above that mutex; so of the        *)
(* waiting threads one with the least value waits for none of them.        *)
THEOREM NoCircularWaitTheorem == BelowMax /\ DistinctValues => (Spec => []NoCircularWait)
<1>1. IInv => NoCircularWait
  <2> SUFFICES ASSUME IInv, NEW S \in SUBSET Threads, S # {},
                      \A t \in S : pc[t] = "lock" /\ internal_mutex[target[t]] \in S
               PROVE  FALSE
    BY DEF NoCircularWait
  <2>1. Typing
    BY DEF IInv
  <2> DEFINE N == {thv[t] : t \in S}
  <2>2. N \subseteq Nat /\ N # {}
    BY <2>1, ValuesAreNaturals
  <2>3. PICK n \in N : \A k \in N : n <= k
    <3> HIDE DEF N
    <3> QED BY <2>2, LeastNatural
  <2>4. PICK t \in S : n = thv[t]
    OBVIOUS
  <2>5. PICK u \in S : u = internal_mutex[target[t]]
    OBVIOUS
  <2>6. target[t] \in Mutexes
    BY <2>1 DEF Typing
  <2>7. hv[target[t]] < thv[t]
    BY DEF IInv, TargetBelow
  <2>8. target[t] \in Chain(u)
    BY <2>5, <2>6 DEF Chain
  <2>9. thv[u] <= hv[target[t]]
    BY <2>8 DEF IInv, ThreadLeast, LeastOf
  <2>10. thv[t] <= thv[u]
    BY <2>3, <2>4
  <2> QED BY <2>1, <2>6, <2>7, <2>9, <2>10, ValuesAreNaturals
<1> QED BY <1>1, Invariance, PTL

(* The lock of a thread that holds nothing is never refused. *)
THEOREM FirstLockAllowedTheorem == BelowMax /\ DistinctValues => (Spec => FirstLockAllowed)
<1> SUFFICES ASSUME BelowMax, DistinctValues PROVE Spec => FirstLockAllowed
  OBVIOUS
<1>1. IInv /\ [Next]_vars =>
        [\A t \in Threads :
           thrown'[t] = "lock" /\ thrown[t] # "lock" => Held(t) # {}]_vars
  <2> SUFFICES ASSUME IInv, Next, NEW t \in Threads,
                      thrown'[t] = "lock", thrown[t] # "lock"
               PROVE  Held(t) # {}
    OBVIOUS
  <2>1. PICK m \in Mutexes : RefuseLock(t, m)
    <3>1. PICK u \in Threads : (\E m \in Mutexes : Call(u, m)) \/ Step(u)
      BY DEF Next
    <3>2. CASE Step(u)
      BY <3>2 DEF Step, LockInternal, TryLockFails, UpdateHierarchyValue,
                  UnlockInternal, Outcome, IInv, Typing
    <3>3. ASSUME NEW m \in Mutexes, Call(u, m) PROVE u = t /\ RefuseLock(u, m)
      BY <3>3 DEF Call, RefuseLock, CallLock, RefuseUnlock, CallUnlock,
                  Outcome, IInv, Typing
    <3> QED BY <3>1, <3>2, <3>3
  <2>2. pc[t] = "idle" /\ thv[t] <= hv[m]
    BY <2>1 DEF RefuseLock, Violation
  <2>3. thv[t] # ULONG_MAX
    BY <2>2, ValuesAreNaturals, MutexAssumption DEF BelowMax, MutexAssumption, IInv
  <2>4. PICK k \in Chain(t) : thv[t] = hv[k]
    BY <2>3 DEF IInv, ThreadLeast, LeastOf
  <2>5. k \in Held(t)
    BY <2>2, <2>4 DEF Chain, Held
  <2> QED BY <2>5
<1> QED BY <1>1, Invariance, PTL DEF Spec, FirstLockAllowed

-----------------------------------------------------------------------------

(* The held sets of the refinement mapping. *)
HeldBy == [t \in Threads |-> Held(t)]

(* Between its calls a thread's check compares with all it holds. *)
LEMMA CheckIsExact ==
  ASSUME IInv, BelowMax, DistinctValues,
         NEW t \in Threads, NEW m \in Mutexes, pc[t] = "idle"
  PROVE  /\ Held(t) = Chain(t)
         /\ Violation(t, m) <=> ~Ordered!Below(t, m)
         /\ thv[t] = hv[m] <=> Ordered!Lowest(t, m)
<1>1. Held(t) = Chain(t)
  BY DEF Held, Chain
<1>2. Typing /\ Chain(t) \subseteq Mutexes
  BY DEF IInv, Chain
<1>3. LeastOf(thv[t], Chain(t))
  BY DEF IInv, ThreadLeast
<1>4. thv[t] \in Nat /\ \A k \in Mutexes : hv[k] \in Nat
  BY <1>2, ValuesAreNaturals
<1>5. Violation(t, m) <=> ~Ordered!Below(t, m)
  <2>1. Ordered!Below(t, m) <=> \A k \in Chain(t) : hv[m] < hv[k]
    BY <1>1 DEF Ordered!Below, hv
  <2>2. hv[m] < ULONG_MAX /\ ULONG_MAX \in Nat
    BY MutexAssumption DEF BelowMax, MutexAssumption
  <2> QED BY <1>2, <1>3, <1>4, <2>1, <2>2 DEF Violation, LeastOf
<1>6. thv[t] = hv[m] <=> Ordered!Lowest(t, m)
  <2>1. Ordered!Lowest(t, m) <=> m \in Chain(t) /\ \A k \in Chain(t) : hv[m] <= hv[k]
    BY <1>1 DEF Ordered!Lowest, hv
  <2>2. ASSUME thv[t] = hv[m] PROVE Ordered!Lowest(t, m)
    <3>1. m \in Chain(t)
      BY <2>2, UnlocksLowest
    <3> QED BY <2>1, <2>2, <3>1, <1>3 DEF LeastOf
  <2>3. ASSUME Ordered!Lowest(t, m) PROVE thv[t] = hv[m]
    <3>1. thv[t] <= hv[m] /\ \A k \in Chain(t) : hv[m] <= hv[k]
      BY <2>1, <2>3, <1>3 DEF LeastOf
    <3>2. PICK k \in Chain(t) : thv[t] = hv[k]
      <4>1. hv[m] < ULONG_MAX /\ ULONG_MAX \in Nat
        BY MutexAssumption DEF BelowMax, MutexAssumption
      <4>2. thv[t] # ULONG_MAX
        BY <3>1, <4>1, <1>4
      <4> QED BY <4>2, <1>3 DEF LeastOf
    <3> QED BY <3>1, <3>2, <1>2, <1>4
  <2> QED BY <2>2, <2>3
<1> QED BY <1>1, <1>5, <1>6

(* Calls, seen by the abstract specification: a refusal is a refusal, a    *)
(* passed check is a stutter.                                              *)
LEMMA CallRefines ==
  ASSUME IInv, BelowMax, DistinctValues,
         NEW t \in Threads, NEW m \in Mutexes, Call(t, m)
  PROVE  [Ordered!ONext]_(Ordered!ovars)
<1> USE DEF IInv, Typing, Goto
<1>1. pc[t] = "idle"
  BY DEF Call, RefuseLock, CallLock, RefuseUnlock, CallUnlock
<1>2. HeldBy' = HeldBy
  <2>1. \A u \in Threads : Held(u)' = Held(u)
    BY <1>1 DEF Call, RefuseLock, CallLock, RefuseUnlock, CallUnlock, Held
  <2> QED BY <2>1 DEF HeldBy
<1>3. CASE RefuseLock(t, m)
  <2>1. ~Ordered!Below(t, m)
    BY <1>1, <1>3, CheckIsExact DEF RefuseLock
  <2> QED BY <1>2, <1>3, <2>1
          DEF RefuseLock, Outcome, HeldBy, Ordered!ONext, Ordered!RefuseLock, Ordered!Outcome
<1>4. CASE RefuseUnlock(t, m)
  <2>1. ~Ordered!Lowest(t, m)
    BY <1>1, <1>4, CheckIsExact DEF RefuseUnlock
  <2> QED BY <1>2, <1>4, <2>1
          DEF RefuseUnlock, Outcome, HeldBy, Ordered!ONext, Ordered!RefuseUnlock, Ordered!Outcome
<1>5. CASE CallLock(t, m) \/ CallUnlock(t, m)
  BY <1>2, <1>5 DEF CallLock, CallUnlock, HeldBy, Ordered!ovars
<1> QED BY <1>3, <1>4, <1>5 DEF Call

(* Steps inside a call: lock takes effect when it has updated the values,  *)
(* unlock when it has released internal_mutex.                             *)
LEMMA StepRefines ==
  ASSUME IInv, NEW t \in Threads, Step(t)
  PROVE  [Ordered!ONext]_(Ordered!ovars)
<1> USE DEF IInv, Typing, Goto
<1> PICK m \in Mutexes : m = target[t]
  OBVIOUS
<1>1. hv[m] < thv[t] /\ thv[t] \in Nat /\ \A k \in Mutexes : hv[k] \in Nat
  BY ValuesAreNaturals DEF TargetBelow, Step, LockInternal, TryLockFails,
     UpdateHierarchyValue, UnlockInternal
<1>2. \A k \in Chain(t) : hv[m] < hv[k] /\ hv[m] <= hv[k]
  BY <1>1 DEF ThreadLeast, LeastOf, Chain
<1>3. CASE LockInternal(t)
  <2>1. \A u \in Threads : Held(u)' = Held(u)
    BY <1>3, MutexAssumption DEF LockInternal, Held, MutexAssumption
  <2> QED BY <1>3, <2>1 DEF LockInternal, Ordered!ovars
<1>4. CASE TryLockFails(t)
  <2>1. \A u \in Threads : Held(u)' = Held(u)
    BY <1>4 DEF TryLockFails, Held
  <2>2. Held(t) = Chain(t)
    BY <1>4 DEF TryLockFails, Held, Chain
  <2>3. Ordered!Below(t, m)
    BY <1>2, <2>2 DEF Ordered!Below, hv
  <2> QED BY <1>4, <2>1, <2>3
          DEF TryLockFails, Outcome, Ordered!ONext, Ordered!Fail, Ordered!Outcome
<1>5. CASE UpdateHierarchyValue(t)
  <2>1. internal_mutex[m] = t
    BY <1>5 DEF UpdateHierarchyValue, Owns
  <2>2. Held(t)' = Held(t) \cup {m}
    BY <1>5, <2>1 DEF UpdateHierarchyValue, Held
  <2>3. \A u \in Threads \ {t} : Held(u)' = Held(u)
    BY <1>5 DEF UpdateHierarchyValue, Held
  <2>4. \A u \in Threads : m \notin Held(u)
    BY <1>5, <2>1 DEF UpdateHierarchyValue, Held
  <2>5. Held(t) = Chain(t)
    BY <1>5 DEF UpdateHierarchyValue, Held, Chain
  <2>6. Ordered!Below(t, m)
    BY <1>2, <2>5 DEF Ordered!Below, hv
  <2>7. HeldBy' = [HeldBy EXCEPT ![t] = @ \cup {m}]
    BY <2>2, <2>3 DEF HeldBy
  <2> QED BY <1>5, <2>4, <2>6, <2>7
          DEF UpdateHierarchyValue, Outcome, HeldBy, Ordered!ONext, Ordered!Acquire, Ordered!Outcome
<1>6. CASE UnlockInternal(t)
  <2>1. internal_mutex[m] = t
    BY <1>6 DEF UnlockInternal, Owns
  <2>2. Held(t)' = Held(t) \ {m}
    BY <1>6, MutexAssumption DEF UnlockInternal, Held, MutexAssumption
  <2>3. \A u \in Threads \ {t} : Held(u)' = Held(u)
    BY <1>6, <2>1, MutexAssumption DEF UnlockInternal, Held, MutexAssumption
  <2>4. m \in Held(t) /\ Held(t) \ {m} = Chain(t)
    BY <1>6, <2>1 DEF UnlockInternal, Held, Chain
  <2>5. Ordered!Lowest(t, m)
    BY <1>1, <1>2, <2>4 DEF Ordered!Lowest, hv
  <2>6. HeldBy' = [HeldBy EXCEPT ![t] = @ \ {m}]
    BY <2>2, <2>3 DEF HeldBy
  <2> QED BY <1>6, <2>5, <2>6
          DEF UnlockInternal, Outcome, HeldBy, Ordered!ONext, Ordered!Release, Ordered!Outcome
<1> QED BY <1>3, <1>4, <1>5, <1>6 DEF Step

(* hierachical_mutex implements ordered locking. *)
THEOREM ImplementsOrderedLockingTheorem ==
  BelowMax /\ DistinctValues => (Spec => ImplementsOrderedLocking)
<1> SUFFICES ASSUME BelowMax, DistinctValues PROVE Spec => ImplementsOrderedLocking
  OBVIOUS
<1>1. Init => Ordered!OInit
  BY MutexAssumption DEF Init, Ordered!OInit, Held, MutexAssumption
<1>2. IInv /\ [Next]_vars => [Ordered!ONext]_(Ordered!ovars)
  <2>1. CASE UNCHANGED vars
    BY <2>1 DEF vars, Ordered!ovars, Held
  <2>2. ASSUME IInv, Next PROVE [Ordered!ONext]_(Ordered!ovars)
    BY <2>2, CallRefines, StepRefines DEF Next
  <2> QED BY <2>1, <2>2
<1> QED BY <1>1, <1>2, Invariance, PTL DEF Spec, ImplementsOrderedLocking, Ordered!OSpec

-----------------------------------------------------------------------------
(* update_user_balance *)

Places == {"lock high", "lock low", "read", "write", "unlock low", "unlock high",
           "returned", "terminated"}

RTypeOK ==
  /\ Typing
  /\ at \in [Threads -> Places]
  /\ argument \in [Threads -> [user : Users, amount : Amounts]]
  /\ balance \in [Users -> Int]
  /\ read \in [Threads -> Int]

(* The call that a thread is in, at each statement: lock() while the next  *)
(* statement is already the one after it, unlock() likewise.               *)
CallAtPlace ==
  \A t \in Threads :
    /\ at[t] \in {"lock high", "write", "unlock low", "terminated"} => pc[t] = "idle"
    /\ at[t] = "lock low" => /\ pc[t] \in {"idle", "lock", "update"}
                             /\ pc[t] # "idle" => target[t] = high_level_mutex
    /\ at[t] = "read" => /\ pc[t] \in {"idle", "lock", "update"}
                         /\ pc[t] # "idle" => target[t] = low_level_mutex
    /\ at[t] = "unlock high" => /\ pc[t] \in {"idle", "unlock"}
                                /\ pc[t] = "unlock" => target[t] = low_level_mutex
    /\ at[t] = "returned" => /\ pc[t] \in {"idle", "unlock"}
                             /\ pc[t] = "unlock" => target[t] = high_level_mutex

(* Between the lock of low_level_mutex and its unlock; Inner also before   *)
(* lock() has updated the values and after unlock() has.                   *)
Critical(t) == at[t] \in {"write", "unlock low"} \/ (at[t] = "read" /\ pc[t] = "idle")

Inner(t) ==
  \/ Critical(t)
  \/ at[t] = "read" /\ pc[t] = "update"
  \/ at[t] = "unlock high" /\ pc[t] = "unlock"

OwnsLow == \A t \in Threads : Inner(t) => internal_mutex[low_level_mutex] = t

(* Between the lock of high_level_mutex and its unlock, outside those two. *)
UnderHigh(t) ==
  \/ at[t] = "lock low" /\ pc[t] = "idle"
  \/ at[t] = "read" /\ pc[t] \in {"lock", "update"}
  \/ at[t] = "unlock high"

(* this_thread_hierarchy_value, and what low_level_mutex has saved of it.  *)
ValueAtPlace ==
  \A t \in Threads :
    /\ at[t] = "lock high" => thv[t] = ULONG_MAX
    /\ UnderHigh(t) => thv[t] = hv[high_level_mutex]
    /\ Critical(t) => thv[t] = hv[low_level_mutex] /\ prev[low_level_mutex] = hv[high_level_mutex]

(* What a thread has read is still the balance when it writes.             *)
ReadIsCurrent ==
  \A t \in Threads : at[t] = "write" => read[t] = balance[argument[t].user]

RInv == RTypeOK /\ CallAtPlace /\ OwnsLow /\ ValueAtPlace /\ ReadIsCurrent
-----------------------------------------------------------------------------

(* Every step of the program is a step of the mutexes, or leaves them.     *)
LEMMA StepOfLibrary == RNext => [Next]_vars
<1> USE RegistryAssumption DEF Next, vars
<1>1. ASSUME NEW t \in Threads, LibraryStep(t) PROVE Next
  BY <1>1 DEF LibraryStep
<1>2. ASSUME NEW t \in Threads, NEW m \in Mutexes, NEW here, NEW there,
             LockOf(t, m, here, there) \/ UnlockOf(t, m, here, there)
      PROVE  Next
  BY <1>2 DEF LockOf, UnlockOf, Call
<1>3. ASSUME NEW t \in Threads, ThreadStep(t) PROVE [Next]_vars
  BY <1>1, <1>2, <1>3 DEF ThreadStep, LockHigh, LockLow, UnlockLow, UnlockHigh,
                          ReadBalance, WriteBalance
<1> QED
  BY <1>3 DEF RNext

(* The balance and what is read of it are integers. *)
LEMMA RTypeKept ==
  ASSUME RTypeOK, Typing', [RNext]_<<vars, rvars>>
  PROVE  RTypeOK'
<1> USE RegistryAssumption DEF RTypeOK, Places
<1>1. CASE UNCHANGED <<vars, rvars>>
  BY <1>1 DEF rvars
<1>2. ASSUME NEW t \in Threads, ThreadStep(t) PROVE RTypeOK'
  <2>1. argument[t].user \in Users /\ argument[t].amount \in Int /\ read[t] \in Int
    <3>1. argument[t] \in [user : Users, amount : Amounts]
      OBVIOUS
    <3> QED
      BY <3>1, RegistryAssumption
  <2>2. CASE WriteBalance(t)
    <3>1. read[t] + argument[t].amount \in Int
      <4> HIDE DEF RTypeOK
      <4> QED
        BY <2>1
    <3>2. balance' \in [Users -> Int]
      BY <2>1, <2>2, <3>1 DEF WriteBalance
    <3> QED
      BY <2>2, <3>2 DEF WriteBalance, Advance
  <2>3. CASE ReadBalance(t)
    BY <2>1, <2>3 DEF ReadBalance, Advance
  <2>4. CASE LockHigh(t) \/ LockLow(t)
    BY <2>4 DEF LockHigh, LockLow, LockOf, Advance
  <2>5. CASE UnlockLow(t) \/ UnlockHigh(t)
    BY <2>5 DEF UnlockLow, UnlockHigh, UnlockOf, Advance
  <2>6. CASE LibraryStep(t)
    BY <2>6 DEF LibraryStep, rvars
  <2> QED
    BY <1>2, <2>2, <2>3, <2>4, <2>5, <2>6 DEF ThreadStep
<1> QED
  BY <1>1, <1>2 DEF RNext

-----------------------------------------------------------------------------
(* The other parts of RInv, one kind of step at a time.                    *)

Placed == CallAtPlace /\ OwnsLow /\ ValueAtPlace /\ ReadIsCurrent

(* A step of t moves nobody else.                                          *)
OthersStay(t) ==
  /\ argument' = argument
  /\ \A u \in Threads \ {t} :
       /\ at'[u] = at[u] /\ pc'[u] = pc[u] /\ target'[u] = target[u]
       /\ thv'[u] = thv[u] /\ read'[u] = read[u]

LEMMA OnlyOneMoves ==
  ASSUME RTypeOK, NEW t \in Threads, ThreadStep(t)
  PROVE  OthersStay(t)
<1> USE DEF RTypeOK, Typing, OthersStay, Advance, Goto, Outcome, thv, prev
<1>1. CASE LockHigh(t) \/ LockLow(t)
  BY <1>1 DEF LockHigh, LockLow, LockOf, CallLock, RefuseLock
<1>2. CASE UnlockLow(t) \/ UnlockHigh(t)
  BY <1>2 DEF UnlockLow, UnlockHigh, UnlockOf, CallUnlock, RefuseUnlock
<1>3. CASE ReadBalance(t) \/ WriteBalance(t)
  BY <1>3 DEF ReadBalance, WriteBalance, vars
<1>4. CASE LibraryStep(t)
  BY <1>4 DEF LibraryStep, Step, LockInternal, TryLockFails, UpdateHierarchyValue,
              UnlockInternal, rvars
<1> QED
  BY <1>1, <1>2, <1>3, <1>4 DEF ThreadStep

(* lock() before its call of internal_mutex.lock().                        *)
LEMMA LockKeeps ==
  ASSUME RInv, NEW t \in Threads, LockHigh(t) \/ LockLow(t)
  PROVE  Placed'
<1>1. OthersStay(t)
  BY OnlyOneMoves DEF RInv, ThreadStep
<1>2. /\ pc[t] = "idle" /\ thv'[t] = thv[t]
      /\ internal_mutex' = internal_mutex /\ prev' = prev /\ balance' = balance
      /\ \/ at'[t] = "terminated" /\ pc'[t] = "idle"
         \/ /\ at[t] = "lock high" /\ at'[t] = "lock low"
            /\ pc'[t] = "lock" /\ target'[t] = high_level_mutex
         \/ /\ at[t] = "lock low" /\ at'[t] = "read"
            /\ pc'[t] = "lock" /\ target'[t] = low_level_mutex
  BY DEF RInv, RTypeOK, Typing, LockHigh, LockLow, LockOf, CallLock, RefuseLock, Advance, Goto,
         Outcome, thv, prev
<1>3. CallAtPlace'
  BY <1>1, <1>2 DEF RInv, CallAtPlace, OthersStay
<1>4. OwnsLow'
  BY <1>1, <1>2 DEF RInv, OwnsLow, Inner, Critical, OthersStay
<1>5. ValueAtPlace'
  BY <1>1, <1>2 DEF RInv, ValueAtPlace, UnderHigh, Critical, OthersStay, hv
<1>6. ReadIsCurrent'
  BY <1>1, <1>2 DEF RInv, ReadIsCurrent, OthersStay
<1> QED
  BY <1>3, <1>4, <1>5, <1>6 DEF Placed

(* The thread that reads or writes is the only one in the inner section.   *)
LEMMA BalanceKeeps ==
  ASSUME RInv, NEW t \in Threads, ReadBalance(t) \/ WriteBalance(t)
  PROVE  Placed'
<1>1. OthersStay(t)
  BY OnlyOneMoves DEF RInv, ThreadStep
<1>2. /\ pc[t] = "idle" /\ pc'[t] = "idle" /\ thv'[t] = thv[t]
      /\ internal_mutex' = internal_mutex /\ prev' = prev
      /\ \/ /\ at[t] = "read" /\ at'[t] = "write" /\ balance' = balance
            /\ read'[t] = balance[argument[t].user]
         \/ at[t] = "write" /\ at'[t] = "unlock low"
  BY DEF RInv, RTypeOK, Typing, ReadBalance, WriteBalance, Advance, vars, thv, prev
<1>3. \A u \in Threads \ {t} : ~Critical(u)
  BY <1>2 DEF RInv, OwnsLow, Inner, Critical
<1>4. CallAtPlace'
  BY <1>1, <1>2 DEF RInv, CallAtPlace, OthersStay
<1>5. OwnsLow'
  BY <1>1, <1>2 DEF RInv, OwnsLow, Inner, Critical, OthersStay
<1>6. ValueAtPlace'
  BY <1>1, <1>2 DEF RInv, ValueAtPlace, UnderHigh, Critical, OthersStay, hv
<1>7. ReadIsCurrent'
  <2> SUFFICES ASSUME NEW u \in Threads, at'[u] = "write"
               PROVE  read'[u] = balance'[argument'[u].user]
    BY DEF ReadIsCurrent
  <2>1. u = t
    BY <1>1, <1>3 DEF OthersStay, Critical
  <2> QED
    BY <1>1, <1>2, <2>1 DEF OthersStay
<1> QED
  BY <1>4, <1>5, <1>6, <1>7 DEF Placed

(* unlock() finds the value that the last lock() has set, and restores the *)
(* one before it.                                                          *)
LEMMA UnlockKeeps ==
  ASSUME RInv, NEW t \in Threads, UnlockLow(t) \/ UnlockHigh(t)
  PROVE  Placed' /\ at'[t] # "terminated"
<1>1. OthersStay(t)
  BY OnlyOneMoves DEF RInv, ThreadStep
<1>2. /\ pc[t] = "idle" /\ pc'[t] = "unlock"
      /\ internal_mutex' = internal_mutex /\ prev' = prev /\ balance' = balance
      /\ \/ /\ at[t] = "unlock low" /\ at'[t] = "unlock high"
            /\ target'[t] = low_level_mutex /\ thv'[t] = prev[low_level_mutex]
         \/ /\ at[t] = "unlock high" /\ at'[t] = "returned" /\ target'[t] = high_level_mutex
  <2>1. CASE UnlockLow(t)
    <3>1. thv[t] = hv[low_level_mutex]
      BY <2>1 DEF UnlockLow, UnlockOf, Advance, RInv, ValueAtPlace, Critical
    <3> QED
      BY <2>1, <3>1 DEF RInv, RTypeOK, Typing, UnlockLow, UnlockOf, CallUnlock, RefuseUnlock,
         Advance, Goto, thv, prev
  <2>2. CASE UnlockHigh(t)
    <3>1. thv[t] = hv[high_level_mutex]
      BY <2>2 DEF UnlockHigh, UnlockOf, Advance, RInv, ValueAtPlace, UnderHigh
    <3> QED
      BY <2>2, <3>1 DEF RInv, RTypeOK, Typing, UnlockHigh, UnlockOf, CallUnlock, RefuseUnlock,
         Advance, Goto, thv, prev
  <2> QED
    BY <2>1, <2>2
<1>3. CallAtPlace'
  BY <1>1, <1>2 DEF RInv, CallAtPlace, OthersStay
<1>4. OwnsLow'
  BY <1>1, <1>2 DEF RInv, OwnsLow, Inner, Critical, OthersStay
<1>5. ValueAtPlace'
  BY <1>1, <1>2 DEF RInv, ValueAtPlace, UnderHigh, Critical, OthersStay, hv
<1>6. ReadIsCurrent'
  BY <1>1, <1>2 DEF RInv, ReadIsCurrent, OthersStay
<1> QED
  BY <1>2, <1>3, <1>4, <1>5, <1>6 DEF Placed

(* internal_mutex.lock() returns: if it is the one of low_level_mutex,     *)
(* nobody was in the inner section.                                        *)
LEMMA LockInternalKeeps ==
  ASSUME RInv, NEW t \in Threads, LibraryStep(t), LockInternal(t)
  PROVE  Placed'
<1>1. OthersStay(t)
  BY OnlyOneMoves DEF RInv, ThreadStep
<1>2. /\ pc[t] = "lock" /\ pc'[t] = "update" /\ thv'[t] = thv[t] /\ at' = at
      /\ target' = target /\ prev' = prev /\ balance' = balance /\ read' = read
      /\ internal_mutex[target[t]] = NoThread
      /\ internal_mutex' = [internal_mutex EXCEPT ![target[t]] = t]
      /\ \/ at[t] = "lock low" /\ target[t] = high_level_mutex
         \/ at[t] = "read" /\ target[t] = low_level_mutex
  BY DEF RInv, RTypeOK, Typing, CallAtPlace, LibraryStep, LockInternal, Goto, Places, rvars,
         thv, prev
<1>3. /\ internal_mutex'[low_level_mutex] =
           IF at[t] = "read" THEN t ELSE internal_mutex[low_level_mutex]
      /\ at[t] = "read" => \A u \in Threads : ~Inner(u)
  BY <1>2, RegistryAssumption, MutexAssumption DEF RInv, RTypeOK, Typing, OwnsLow, MutexAssumption
<1>4. CallAtPlace'
  BY <1>1, <1>2 DEF RInv, CallAtPlace, OthersStay
<1>5. OwnsLow'
  BY <1>1, <1>2, <1>3 DEF RInv, OwnsLow, Inner, Critical, OthersStay
<1>6. ValueAtPlace'
  BY <1>1, <1>2 DEF RInv, ValueAtPlace, UnderHigh, Critical, OthersStay, hv
<1>7. ReadIsCurrent'
  BY <1>1, <1>2 DEF RInv, ReadIsCurrent, OthersStay
<1> QED
  BY <1>4, <1>5, <1>6, <1>7 DEF Placed

(* update_hierarchy_value, with internal_mutex owned.                      *)
LEMMA HierarchyKeeps ==
  ASSUME RInv, NEW t \in Threads, LibraryStep(t), UpdateHierarchyValue(t)
  PROVE  Placed'
<1>1. OthersStay(t)
  BY OnlyOneMoves DEF RInv, ThreadStep
<1>2. /\ pc[t] = "update" /\ pc'[t] = "idle" /\ at' = at
      /\ target' = target /\ balance' = balance /\ read' = read
      /\ internal_mutex' = internal_mutex
      /\ thv'[t] = hv[target[t]]
      /\ prev' = [prev EXCEPT ![target[t]] = thv[t]]
      /\ \/ at[t] = "lock low" /\ target[t] = high_level_mutex
         \/ at[t] = "read" /\ target[t] = low_level_mutex
  BY DEF RInv, RTypeOK, Typing, CallAtPlace, LibraryStep, UpdateHierarchyValue, Goto, Places,
         rvars, thv, prev
<1>3. /\ at[t] = "lock low" => prev'[low_level_mutex] = prev[low_level_mutex]
      /\ at[t] = "read" => /\ prev'[low_level_mutex] = hv[high_level_mutex]
                           /\ \A u \in Threads \ {t} : ~Critical(u)
  <2>1. prev'[low_level_mutex] =
          IF at[t] = "read" THEN thv[t] ELSE prev[low_level_mutex]
    <3>1. prev \in [Mutexes -> 0..ULONG_MAX]
      BY DEF RInv, RTypeOK, Typing
    <3> QED
      BY <1>2, <3>1, RegistryAssumption
  <2>2. at[t] = "read" => thv[t] = hv[high_level_mutex]
    <3>1. at[t] = "read" /\ pc[t] \in {"lock", "update"} => thv[t] = hv[high_level_mutex]
      BY DEF RInv, ValueAtPlace, UnderHigh
    <3> QED
      BY <1>2, <3>1
  <2>3. at[t] = "read" => \A u \in Threads \ {t} : ~Critical(u)
    BY <1>2 DEF RInv, OwnsLow, Inner
  <2> QED
    BY <2>1, <2>2, <2>3
<1>4. CallAtPlace'
  BY <1>1, <1>2 DEF RInv, CallAtPlace, OthersStay
<1>5. OwnsLow'
  BY <1>1, <1>2 DEF RInv, OwnsLow, Inner, Critical, OthersStay
<1>6. ValueAtPlace'
  BY <1>1, <1>2, <1>3 DEF RInv, ValueAtPlace, UnderHigh, Critical, OthersStay, hv
<1>7. ReadIsCurrent'
  BY <1>1, <1>2 DEF RInv, ReadIsCurrent, OthersStay
<1> QED
  BY <1>4, <1>5, <1>6, <1>7 DEF Placed

(* internal_mutex.unlock(), by the thread that owned it until now.         *)
LEMMA UnlockInternalKeeps ==
  ASSUME RInv, NEW t \in Threads, LibraryStep(t), UnlockInternal(t)
  PROVE  Placed'
<1>1. OthersStay(t)
  BY OnlyOneMoves DEF RInv, ThreadStep
<1>2. /\ pc[t] = "unlock" /\ pc'[t] = "idle" /\ thv'[t] = thv[t] /\ at' = at
      /\ target' = target /\ prev' = prev /\ balance' = balance /\ read' = read
      /\ internal_mutex' = [internal_mutex EXCEPT ![target[t]] = NoThread]
      /\ \/ at[t] = "unlock high" /\ target[t] = low_level_mutex
         \/ at[t] = "returned" /\ target[t] = high_level_mutex
  BY DEF RInv, RTypeOK, Typing, CallAtPlace, LibraryStep, UnlockInternal, Goto, Places, rvars,
         thv, prev
<1>3. /\ at[t] = "returned" =>
           internal_mutex'[low_level_mutex] = internal_mutex[low_level_mutex]
      /\ at[t] = "unlock high" => \A u \in Threads \ {t} : ~Inner(u)
  <2>1. internal_mutex \in [Mutexes -> Threads \cup {NoThread}]
    BY DEF RInv, RTypeOK, Typing
  <2>2. at[t] = "returned" =>
           internal_mutex'[low_level_mutex] = internal_mutex[low_level_mutex]
    BY <1>2, <2>1, RegistryAssumption
  <2>3. at[t] = "unlock high" => \A u \in Threads \ {t} : ~Inner(u)
    <3>1. pc[t] = "unlock" /\ at[t] = "unlock high" => Inner(t)
      BY DEF Inner
    <3> QED
      BY <1>2, <3>1 DEF RInv, OwnsLow
  <2> QED
    BY <2>2, <2>3
<1>4. CallAtPlace'
  BY <1>1, <1>2 DEF RInv, CallAtPlace, OthersStay
<1>5. OwnsLow'
  BY <1>1, <1>2, <1>3 DEF RInv, OwnsLow, Inner, Critical, OthersStay
<1>6. ValueAtPlace'
  BY <1>1, <1>2 DEF RInv, ValueAtPlace, UnderHigh, Critical, OthersStay, hv
<1>7. ReadIsCurrent'
  BY <1>1, <1>2 DEF RInv, ReadIsCurrent, OthersStay
<1> QED
  BY <1>4, <1>5, <1>6, <1>7 DEF Placed

(* No thread is in try_lock().                                             *)
LEMMA LibraryKeeps ==
  ASSUME RInv, NEW t \in Threads, LibraryStep(t)
  PROVE  Placed'
<1>1. ~TryLockFails(t)
  BY DEF RInv, RTypeOK, CallAtPlace, TryLockFails, Places
<1> QED
  BY <1>1, LockInternalKeeps, HierarchyKeeps, UnlockInternalKeeps DEF LibraryStep, Step

(* RInv is an inductive invariant, whatever the values of the two mutexes. *)
THEOREM RInvariance == RSpec => []RInv
<1>1. RSpec => []Typing
  <2>1. RInit => Init
    BY DEF RInit
  <2>2. [RNext]_<<vars, rvars>> => [Next]_vars
    BY StepOfLibrary
  <2> QED
    BY <2>1, <2>2, TypingKept, PTL DEF RSpec, Spec
<1>2. RInit => RInv
  <2> SUFFICES ASSUME RInit PROVE RInv
    OBVIOUS
  <2>1. Typing
    <3>1. Init
      BY DEF RInit
    <3> QED
      BY <3>1, MutexAssumption DEF Init, Typing, prev, thv
  <2>2. RTypeOK
    <3>1. balance \in [Users -> Int] /\ read \in [Threads -> Int]
      <4>1. /\ balance = [u \in Users |-> InitialBalance]
            /\ read = [t \in Threads |-> 0]
        BY DEF RInit
      <4>2. InitialBalance \in Int
        BY RegistryAssumption
      <4> QED
        BY <4>1, <4>2
    <3> QED
      BY <2>1, <3>1 DEF RInit, RTypeOK, Places
  <2>3. CallAtPlace /\ OwnsLow /\ ValueAtPlace /\ ReadIsCurrent
    BY DEF RInit, Init, thv, CallAtPlace, OwnsLow, Inner, Critical, ValueAtPlace, UnderHigh, ReadIsCurrent
  <2> QED
    BY <2>2, <2>3 DEF RInv
<1>3. RInv /\ Typing' /\ [RNext]_<<vars, rvars>> => RInv'
  <2> SUFFICES ASSUME RInv, Typing', [RNext]_<<vars, rvars>> PROVE RInv'
    OBVIOUS
  <2>1. RTypeOK'
    BY RTypeKept DEF RInv
  <2>2. CASE UNCHANGED <<vars, rvars>>
    BY <2>1, <2>2 DEF vars, rvars, RInv, CallAtPlace, OwnsLow, Inner, Critical, ValueAtPlace,
                      UnderHigh, ReadIsCurrent, thv, prev, hv
  <2>3. ASSUME NEW t \in Threads, ThreadStep(t) PROVE Placed'
    BY <2>3, LockKeeps, BalanceKeeps, UnlockKeeps, LibraryKeeps DEF ThreadStep
  <2> QED
    BY <2>1, <2>2, <2>3 DEF RNext, RInv, Placed
<1> QED
  BY <1>1, <1>2, <1>3, PTL DEF RSpec

-----------------------------------------------------------------------------
(* No lost update.                                                         *)

Amount == [t \in Threads |-> argument[t].amount]

(* A sum of amounts is one more amount when one more thread has written.   *)
LEMMA AmountOfOneMore ==
  ASSUME RTypeOK, NEW S, S \subseteq Threads, NEW t \in Threads, t \notin S
  PROVE  SumFunctionOnSet(Amount, S \cup {t}) = argument[t].amount + SumFunctionOnSet(Amount, S)
<1>1. IsFiniteSet(S \cup {t})
  <2>1. IsFiniteSet(Threads) /\ S \cup {t} \subseteq Threads
    BY RegistryAssumption
  <2> QED
    BY <2>1, FS_Subset
<1>2. \A x \in S \cup {t} : Amount[x] \in Int
  <2>1. \A x \in Threads : argument[x] \in [user : Users, amount : Amounts]
    BY DEF RTypeOK
  <2> QED
    BY <2>1, RegistryAssumption DEF Amount
<1>3. t \in S \cup {t} /\ (S \cup {t}) \ {t} = S /\ Amount[t] = argument[t].amount
  BY DEF Amount
<1> HIDE DEF Amount
<1> QED
  BY <1>1, <1>2, <1>3, SumRemove

(* A step that is not the write changes neither side of the equation.      *)
LEMMA OtherStepsUpdateNothing ==
  ASSUME RInv, NoLostUpdate, NEW t \in Threads, ThreadStep(t), ~WriteBalance(t)
  PROVE  NoLostUpdate'
<1>1. argument' = argument /\ \A u \in Threads \ {t} : at'[u] = at[u]
  BY OnlyOneMoves DEF RInv, OthersStay
<1>2. balance' = balance
  BY DEF ThreadStep, LockHigh, LockLow, LockOf, ReadBalance, UnlockLow, UnlockHigh, UnlockOf,
         LibraryStep, rvars
<1>3. at'[t] \in {"unlock low", "unlock high", "returned"}
        <=> at[t] \in {"unlock low", "unlock high", "returned"}
  <2> USE DEF RInv, RTypeOK, Advance
  <2>1. CASE LockHigh(t) \/ LockLow(t)
    BY <2>1 DEF LockHigh, LockLow, LockOf
  <2>2. CASE ReadBalance(t)
    BY <2>2 DEF ReadBalance
  <2>3. CASE UnlockLow(t) \/ UnlockHigh(t)
    <3>1. at'[t] # "terminated"
      BY <2>3, UnlockKeeps
    <3> QED
      BY <2>3, <3>1 DEF UnlockLow, UnlockHigh, UnlockOf
  <2>4. CASE LibraryStep(t)
    BY <2>4 DEF LibraryStep, rvars
  <2> QED
    BY <2>1, <2>2, <2>3, <2>4 DEF ThreadStep
<1>4. \A u \in Users : Updated(u)' = Updated(u)
  BY <1>1, <1>3 DEF Updated
<1> QED
  BY <1>1, <1>2, <1>4 DEF NoLostUpdate

(* The write adds the amount of the thread to what is still the balance.   *)
LEMMA WriteUpdates ==
  ASSUME RInv, NoLostUpdate, NEW t \in Threads, WriteBalance(t)
  PROVE  NoLostUpdate'
<1>1. argument' = argument /\ \A u \in Threads \ {t} : at'[u] = at[u]
  BY OnlyOneMoves DEF RInv, OthersStay, ThreadStep
<1>2. PICK w \in Users : w = argument[t].user
  BY DEF RInv, RTypeOK
<1>3. /\ at[t] = "write" /\ at'[t] = "unlock low"
      /\ balance' = [balance EXCEPT ![w] = read[t] + argument[t].amount]
      /\ read[t] = balance[w]
  BY <1>2 DEF WriteBalance, Advance, RInv, RTypeOK, ReadIsCurrent
<1>4. \A u \in Users \ {w} : balance'[u] = balance[u] /\ Updated(u)' = Updated(u)
  <2>1. \A u \in Users \ {w} : balance'[u] = balance[u]
    BY <1>3 DEF RInv, RTypeOK
  <2>2. \A u \in Users \ {w} : Updated(u)' = Updated(u)
    BY <1>1, <1>2, <1>3 DEF Updated
  <2> QED
    BY <2>1, <2>2
<1>5. Updated(w)' = Updated(w) \cup {t} /\ t \notin Updated(w) /\ Updated(w) \subseteq Threads
  BY <1>1, <1>2, <1>3 DEF Updated
<1>6. SumFunctionOnSet(Amount, Updated(w)')
        = argument[t].amount + SumFunctionOnSet(Amount, Updated(w))
  BY <1>5, AmountOfOneMore DEF RInv
<1>7. balance'[w] = balance[w] + argument[t].amount
  BY <1>3 DEF RInv, RTypeOK
<1>8. balance[w] = InitialBalance + SumFunctionOnSet(Amount, Updated(w))
  BY DEF NoLostUpdate, Amount
<1>9. /\ argument[t].amount \in Int
      /\ SumFunctionOnSet(Amount, Updated(w)) \in Int
  <2>1. \A x \in Threads : argument[x] \in [user : Users, amount : Amounts]
    BY DEF RInv, RTypeOK
  <2>2. IsFiniteSet(Updated(w))
    BY <1>5, RegistryAssumption, FS_Subset
  <2>3. argument[t].amount \in Int /\ \A x \in Updated(w) : Amount[x] \in Int
    BY <2>1, <1>5, RegistryAssumption DEF Amount
  <2> QED
    <3> HIDE DEF Amount
    <3> QED
      BY <2>2, <2>3, SumType
<1>10. balance'[w] = InitialBalance + SumFunctionOnSet(Amount, Updated(w)')
  <2> HIDE DEF Amount
  <2>1. InitialBalance \in Int
    BY RegistryAssumption
  <2> QED
    BY <2>1, <1>6, <1>7, <1>8, <1>9
<1>11. \A u \in Users : balance'[u] = InitialBalance + SumFunctionOnSet(Amount, Updated(u)')
  BY <1>4, <1>10 DEF NoLostUpdate, Amount
<1> QED
  BY <1>1, <1>11 DEF NoLostUpdate, Amount

(* No update is lost: in every reachable state each balance is the initial *)
(* one plus the amounts of the threads that have written it, for any       *)
(* number of threads and any amounts, and also where the values of the two *)
(* mutexes are such that threads are refused.                              *)
THEOREM NoLostUpdateTheorem == RSpec => []NoLostUpdate
<1>1. RInit => NoLostUpdate
  <2> SUFFICES ASSUME RInit, NEW u \in Users
               PROVE  balance[u] = InitialBalance + SumFunctionOnSet(Amount, Updated(u))
    BY DEF NoLostUpdate, Amount
  <2>1. balance[u] = InitialBalance /\ Updated(u) = {}
    BY DEF RInit, Updated
  <2>2. SumFunctionOnSet(Amount, {}) = 0
    BY SumOfNothing
  <2> QED
    BY <2>1, <2>2, RegistryAssumption
<1>2. RInv /\ NoLostUpdate /\ [RNext]_<<vars, rvars>> => NoLostUpdate'
  <2> SUFFICES ASSUME RInv, NoLostUpdate, [RNext]_<<vars, rvars>> PROVE NoLostUpdate'
    OBVIOUS
  <2>1. CASE UNCHANGED <<vars, rvars>>
    BY <2>1 DEF rvars, NoLostUpdate, Updated
  <2>2. ASSUME NEW t \in Threads, ThreadStep(t) PROVE NoLostUpdate'
    BY <2>2, OtherStepsUpdateNothing, WriteUpdates
  <2> QED
    BY <2>1, <2>2 DEF RNext
<1> QED
  BY <1>1, <1>2, RInvariance, PTL DEF RSpec

-----------------------------------------------------------------------------

(* With high_level_mutex above low_level_mutex, and below the initial      *)
(* value of a thread, none is refused: the check of lock() sees the value  *)
(* that belongs to the place of the thread.                                *)
THEOREM NoneTerminatedTheorem ==
  hv[low_level_mutex] < hv[high_level_mutex] /\ hv[high_level_mutex] < ULONG_MAX
    => (RSpec => []NoneTerminated)
<1> SUFFICES ASSUME hv[low_level_mutex] < hv[high_level_mutex],
                    hv[high_level_mutex] < ULONG_MAX
             PROVE  RSpec => []NoneTerminated
  OBVIOUS
<1>1. RInit => NoneTerminated
  BY DEF RInit, NoneTerminated
<1>2. RInv /\ NoneTerminated /\ [RNext]_<<vars, rvars>> => NoneTerminated'
  <2> SUFFICES ASSUME RInv, NoneTerminated, [RNext]_<<vars, rvars>> PROVE NoneTerminated'
    OBVIOUS
  <2>1. CASE UNCHANGED <<vars, rvars>>
    BY <2>1 DEF rvars, NoneTerminated
  <2>2. ASSUME NEW t \in Threads, ThreadStep(t) PROVE at'[t] # "terminated"
    <3> USE DEF RInv, RTypeOK, Advance
    <3>1. hv[low_level_mutex] \in Nat /\ hv[high_level_mutex] \in Nat /\ ULONG_MAX \in Nat
      BY RegistryAssumption, MutexAssumption DEF hv
    <3>2. CASE LockHigh(t)
      <4>1. at[t] = "lock high" /\ thv[t] = ULONG_MAX
        BY <3>2 DEF LockHigh, LockOf, ValueAtPlace
      <4>2. ~Violation(t, high_level_mutex)
        <5>1. thv[t] \in Nat /\ hv[high_level_mutex] \in Nat /\ hv[high_level_mutex] < thv[t]
          BY <4>1, <3>1
        <5> HIDE DEF RTypeOK, RInv
        <5> QED
          BY <5>1 DEF Violation
      <4> QED
        BY <3>2, <4>2 DEF LockHigh, LockOf
    <3>3. CASE LockLow(t)
      <4>1. at[t] = "lock low" /\ pc[t] = "idle"
        BY <3>3 DEF LockLow, LockOf
      <4>2. thv[t] = hv[high_level_mutex]
        BY <4>1 DEF ValueAtPlace, UnderHigh
      <4>3. ~Violation(t, low_level_mutex)
        <5>1. thv[t] \in Nat /\ hv[low_level_mutex] \in Nat /\ hv[low_level_mutex] < thv[t]
          BY <4>2, <3>1
        <5> HIDE DEF RTypeOK, RInv
        <5> QED
          BY <5>1 DEF Violation
      <4> QED
        BY <3>3, <4>3 DEF LockLow, LockOf
    <3>4. CASE UnlockLow(t) \/ UnlockHigh(t)
      BY <3>4, UnlockKeeps
    <3>5. CASE ReadBalance(t) \/ WriteBalance(t)
      BY <3>5 DEF ReadBalance, WriteBalance
    <3>6. CASE LibraryStep(t)
      BY <3>6 DEF LibraryStep, rvars, NoneTerminated
    <3> QED
      BY <2>2, <3>2, <3>3, <3>4, <3>5, <3>6 DEF ThreadStep
  <2>3. ASSUME NEW t \in Threads, ThreadStep(t) PROVE NoneTerminated'
    BY <2>2, <2>3, OnlyOneMoves DEF NoneTerminated, OthersStay, RInv
  <2> QED
    BY <2>1, <2>3 DEF RNext
<1> QED
  BY <1>1, <1>2, RInvariance, PTL DEF RSpec
=============================================================================
