--------------------------- MODULE SwapLocksProofs ---------------------------
(***************************************************************************)
(* Theorems about the two correct versions of swap, for any threads and    *)
(* objects.  The third one, whose guards adopt the same mutex twice, is    *)
(* excluded by a condition on the versions considered.                     *)
(***************************************************************************)
EXTENDS SwapLocks, TLAPS

NoDoubleAdoption == "lock_guard" \notin Versions

(* The mutexes a thread holds at each label. *)
Holds(t, x) ==
  \/ pc[t] = "try" /\ x = first[t]
  \/ pc[t] \in {"copy", "assign rhs", "assign lhs", "unlock 1"} /\ (x = lhs(t) \/ x = rhs(t))
  \/ pc[t] = "unlock 2" /\ x = Guarded(t, 2)

OwnsAtLabel == \A t \in Threads : \A x \in Objects : m[x] = t <=> Holds(t, x)

(* Within a call the arguments are objects, different ones once it locks.  *)
PairAtLabel ==
  \A t \in Threads :
    /\ pc[t] = "idle" => pair[t] = <<NoObject, NoObject>>
    /\ pc[t] # "idle" => pair[t] \in Objects \X Objects
    /\ pc[t] \notin {"idle", "return"} => lhs(t) # rhs(t)
    /\ pc[t] = "try" => first[t] \in {lhs(t), rhs(t)}

(* The temporary keeps what rhs had, and then rhs has what lhs has. *)
TmpAtLabel ==
  \A t \in Threads :
    /\ pc[t] \in {"assign rhs", "assign lhs"} => tmp[t] \in Objects
    /\ pc[t] = "assign rhs" => tmp[t] = some_detail[rhs(t)]
    /\ pc[t] = "assign lhs" => some_detail[rhs(t)] = some_detail[lhs(t)]

SInv == TypeOK /\ version # "lock_guard" /\ OwnsAtLabel /\ PairAtLabel /\ TmpAtLabel

-----------------------------------------------------------------------------

(* A mutex that t holds is held by no other thread. *)
LEMMA OwnerIsUnique ==
  ASSUME SInv, NEW t \in Threads, NEW u \in Threads \ {t},
         NEW x \in Objects, Holds(t, x)
  PROVE  ~Holds(u, x)
BY DEF SInv, OwnsAtLabel

(* The arguments of a call under way are objects. *)
LEMMA ArgumentsAreObjects ==
  ASSUME SInv, NEW t \in Threads, pc[t] # "idle"
  PROVE  lhs(t) \in Objects /\ rhs(t) \in Objects
BY DEF SInv, PairAtLabel, lhs, rhs

(* The mutex std::lock tries is the argument it has not locked. *)
LEMMA OtherIsOther ==
  ASSUME SInv, NEW t \in Threads, pc[t] = "try"
  PROVE  /\ Other(t) \in Objects /\ first[t] \in Objects /\ Other(t) # first[t]
         /\ \A x : (x = lhs(t) \/ x = rhs(t)) <=> (x = first[t] \/ x = Other(t))
BY ArgumentsAreObjects DEF SInv, PairAtLabel, Other

(* The guards unlock one argument each. *)
LEMMA GuardsAdoptBoth ==
  ASSUME SInv, NEW t \in Threads
  PROVE  \/ Guarded(t, 1) = lhs(t) /\ Guarded(t, 2) = rhs(t)
         \/ Guarded(t, 1) = rhs(t) /\ Guarded(t, 2) = lhs(t)
BY DEF SInv, Guarded

LEMMA Types ==
  ASSUME SInv
  PROVE  /\ pc \in [Threads -> Labels] /\ m \in [Objects -> Threads \cup {NoThread}]
         /\ pair \in [Threads -> (Objects \X Objects) \cup {<<NoObject, NoObject>>}]
         /\ first \in [Threads -> Objects \cup {NoObject}]
         /\ tmp \in [Threads -> Objects \cup {NoObject}]
BY DEF SInv, TypeOK

(* What t does not change of another thread u. *)
Same(u) ==
  /\ pc'[u] = pc[u] /\ pair'[u] = pair[u] /\ first'[u] = first[u] /\ tmp'[u] = tmp[u]
  /\ version' = version

LEMMA SameHolds ==
  ASSUME NEW u, Same(u)
  PROVE  /\ lhs(u)' = lhs(u) /\ rhs(u)' = rhs(u)
         /\ \A x : Holds(u, x)' <=> Holds(u, x)
<1>1. lhs(u)' = lhs(u) /\ rhs(u)' = rhs(u)
  BY DEF Same, lhs, rhs
<1>2. Guarded(u, 2)' = Guarded(u, 2)
  BY <1>1 DEF Same, Guarded
<1> QED BY <1>1, <1>2 DEF Same, Holds

(* It is enough to look at the thread that takes the step. *)
LEMMA OwnsIfMoverOwns ==
  ASSUME SInv, NEW t \in Threads, \A u \in Threads \ {t} : Same(u),
         \A u \in Threads \ {t} : \A x \in Objects : m'[x] = u <=> m[x] = u,
         \A x \in Objects : m'[x] = t <=> Holds(t, x)'
  PROVE  OwnsAtLabel'
BY SameHolds DEF SInv, OwnsAtLabel

LEMMA PairIfMoverPairs ==
  ASSUME SInv, NEW t \in Threads, \A u \in Threads \ {t} : Same(u),
         /\ pc'[t] = "idle" => pair'[t] = <<NoObject, NoObject>>
         /\ pc'[t] # "idle" => pair'[t] \in Objects \X Objects
         /\ pc'[t] \notin {"idle", "return"} => lhs(t)' # rhs(t)'
         /\ pc'[t] = "try" => first'[t] \in {lhs(t)', rhs(t)'}
  PROVE  PairAtLabel'
BY SameHolds DEF SInv, PairAtLabel, Same

LEMMA TmpIfMoverTmp ==
  ASSUME SInv, NEW t \in Threads, \A u \in Threads \ {t} : Same(u),
         \A u \in Threads \ {t} : pc[u] \in {"assign rhs", "assign lhs"} =>
           /\ some_detail'[lhs(u)] = some_detail[lhs(u)]
           /\ some_detail'[rhs(u)] = some_detail[rhs(u)],
         /\ pc'[t] \in {"assign rhs", "assign lhs"} => tmp'[t] \in Objects
         /\ pc'[t] = "assign rhs" => tmp'[t] = some_detail'[rhs(t)']
         /\ pc'[t] = "assign lhs" => some_detail'[rhs(t)'] = some_detail'[lhs(t)']
  PROVE  TmpAtLabel'
<1> SUFFICES ASSUME NEW u \in Threads
             PROVE  /\ pc'[u] \in {"assign rhs", "assign lhs"} => tmp'[u] \in Objects
                    /\ pc'[u] = "assign rhs" => tmp'[u] = some_detail'[rhs(u)']
                    /\ pc'[u] = "assign lhs" => some_detail'[rhs(u)'] = some_detail'[lhs(u)']
  BY DEF TmpAtLabel
<1>1. CASE u = t
  BY <1>1
<1>2. CASE u # t
  <2>1. lhs(u)' = lhs(u) /\ rhs(u)' = rhs(u) /\ pc'[u] = pc[u] /\ tmp'[u] = tmp[u]
    BY <1>2, SameHolds DEF Same
  <2> QED BY <1>2, <2>1 DEF SInv, TmpAtLabel
<1> QED BY <1>1, <1>2

-----------------------------------------------------------------------------

(* Every step keeps the invariant, one action at a time.                   *)
(* A call touches no mutex and no detail. *)
LEMMA CallKeeps ==
  ASSUME SInv, NEW t \in Threads, NEW p \in Objects \X Objects, Call(t, p)
  PROVE  SInv'
<1> USE SwapAssumption DEF SwapAssumption, At, Goto, Call
<1>0. /\ version' = version /\ m \in [Objects -> Threads \cup {NoThread}]
      /\ pc \in [Threads -> Labels] /\ first \in [Threads -> Objects \cup {NoObject}]
      /\ pair \in [Threads -> (Objects \X Objects) \cup {<<NoObject, NoObject>>}]
  BY DEF SInv, TypeOK
<1>1. TypeOK' /\ version' # "lock_guard"
  BY <1>0 DEF SInv, TypeOK, Labels
<1>2. \A u \in Threads \ {t} : Same(u)
  BY Types DEF Same
<1>3. OwnsAtLabel'
  <2>1. \A x \in Objects : ~Holds(t, x) /\ ~Holds(t, x)'
    BY <1>0 DEF Holds
  <2>2. \A x \in Objects : m'[x] = t <=> Holds(t, x)'
    BY <2>1 DEF SInv, OwnsAtLabel
  <2>3. m' = m
    OBVIOUS
  <2> HIDE DEF At, Goto, CopyRhs, AssignRhs, AssignLhs
  <2> QED BY <1>2, <2>2, <2>3, OwnsIfMoverOwns
<1>4. PairAtLabel'
  BY <1>0, <1>2, PairIfMoverPairs DEF lhs, rhs
<1>5. TmpAtLabel'
  BY <1>0, <1>2, TmpIfMoverTmp
<1> QED BY <1>1, <1>3, <1>4, <1>5 DEF SInv

(* std::lock waits for one mutex. *)
LEMMA LockFirstKeeps ==
  ASSUME SInv, NEW t \in Threads, NEW y \in Objects, LockFirst(t, y)
  PROVE  SInv'
<1> USE SwapAssumption DEF SwapAssumption, At, Goto, LockFirst
<1>0. /\ version' = version /\ m \in [Objects -> Threads \cup {NoThread}]
      /\ pc \in [Threads -> Labels] /\ first \in [Threads -> Objects \cup {NoObject}]
      /\ pair \in [Threads -> (Objects \X Objects) \cup {<<NoObject, NoObject>>}]
  BY DEF SInv, TypeOK
<1>1. TypeOK' /\ version' # "lock_guard"
  BY <1>0 DEF SInv, TypeOK, Labels
<1>2. \A u \in Threads \ {t} : Same(u)
  BY Types DEF Same
<1>3. OwnsAtLabel'
  <2>1. \A x \in Objects : ~Holds(t, x) /\ (Holds(t, x)' <=> x = y)
    BY <1>0 DEF Holds
  <2>2. \A x \in Objects : m[x] # t /\ (m'[x] = t <=> x = y)
    BY <1>0, <2>1 DEF SInv, OwnsAtLabel
  <2> QED BY <1>0, <1>2, <2>1, <2>2, OwnsIfMoverOwns
<1>4. PairAtLabel'
  BY <1>0, <1>2, PairIfMoverPairs DEF SInv, PairAtLabel, lhs, rhs
<1>5. TmpAtLabel'
  BY <1>0, <1>2, TmpIfMoverTmp
<1> QED BY <1>1, <1>3, <1>4, <1>5 DEF SInv

(* It tries the other one and has both. *)
LEMMA TrySecondKeeps ==
  ASSUME SInv, NEW t \in Threads, TrySecond(t)
  PROVE  SInv'
<1> USE SwapAssumption DEF SwapAssumption, At, Goto, TrySecond
<1>0. /\ version' = version /\ m \in [Objects -> Threads \cup {NoThread}]
      /\ pc \in [Threads -> Labels] /\ first \in [Threads -> Objects \cup {NoObject}]
      /\ pair \in [Threads -> (Objects \X Objects) \cup {<<NoObject, NoObject>>}]
  BY DEF SInv, TypeOK
<1>1. TypeOK' /\ version' # "lock_guard"
  BY <1>0, OtherIsOther DEF SInv, TypeOK, Labels
<1>2. \A u \in Threads \ {t} : Same(u)
  BY Types DEF Same
<1>3. OwnsAtLabel'
  <2> DEFINE o == Other(t)
  <2>1. o \in Objects /\ m[o] = NoThread /\ m' = [m EXCEPT ![o] = t]
    BY OtherIsOther
  <2>2. \A x \in Objects : (Holds(t, x) <=> x = first[t]) /\ (Holds(t, x)' <=> x = first[t] \/ x = o)
    BY <1>0, OtherIsOther DEF Holds, lhs, rhs
  <2>3. \A x \in Objects : m'[x] = t <=> x = first[t] \/ x = o
    BY <1>0, <2>1, <2>2 DEF SInv, OwnsAtLabel
  <2> HIDE DEF o
  <2> QED BY <1>0, <1>2, <2>1, <2>2, <2>3, OwnsIfMoverOwns
<1>4. PairAtLabel'
  BY <1>0, <1>2, PairIfMoverPairs DEF SInv, PairAtLabel, lhs, rhs
<1>5. TmpAtLabel'
  BY <1>0, <1>2, TmpIfMoverTmp
<1> QED BY <1>1, <1>3, <1>4, <1>5 DEF SInv

(* It gives the first one back. *)
LEMMA BackOffKeeps ==
  ASSUME SInv, NEW t \in Threads, BackOff(t)
  PROVE  SInv'
<1> USE SwapAssumption DEF SwapAssumption, At, Goto, BackOff
<1>0. /\ version' = version /\ m \in [Objects -> Threads \cup {NoThread}]
      /\ pc \in [Threads -> Labels] /\ first \in [Threads -> Objects \cup {NoObject}]
      /\ pair \in [Threads -> (Objects \X Objects) \cup {<<NoObject, NoObject>>}]
  BY DEF SInv, TypeOK
<1>1. TypeOK' /\ version' # "lock_guard"
  BY <1>0 DEF SInv, TypeOK, Labels
<1>2. \A u \in Threads \ {t} : Same(u)
  BY Types DEF Same
<1>3. OwnsAtLabel'
  <2>1. first[t] \in Objects
    BY OtherIsOther
  <2>2. \A x \in Objects : (Holds(t, x) <=> x = first[t]) /\ ~Holds(t, x)'
    BY <1>0 DEF Holds
  <2>3. m[first[t]] = t /\ \A x \in Objects : m'[x] # t
    BY <1>0, <2>1, <2>2 DEF SInv, OwnsAtLabel
  <2> QED BY <1>0, <1>2, <2>1, <2>2, <2>3, OwnsIfMoverOwns
<1>4. PairAtLabel'
  BY <1>0, <1>2, PairIfMoverPairs DEF SInv, PairAtLabel, lhs, rhs
<1>5. TmpAtLabel'
  BY <1>0, <1>2, TmpIfMoverTmp
<1> QED BY <1>1, <1>3, <1>4, <1>5 DEF SInv

(* The temporary keeps the detail of rhs. *)
LEMMA CopyRhsKeeps ==
  ASSUME SInv, NEW t \in Threads, CopyRhs(t)
  PROVE  SInv'
<1> USE SwapAssumption DEF SwapAssumption, At, Goto, CopyRhs
<1>0. /\ version' = version /\ m \in [Objects -> Threads \cup {NoThread}]
      /\ pc \in [Threads -> Labels] /\ first \in [Threads -> Objects \cup {NoObject}]
      /\ pair \in [Threads -> (Objects \X Objects) \cup {<<NoObject, NoObject>>}]
  BY DEF SInv, TypeOK
<1>a. lhs(t) \in Objects /\ rhs(t) \in Objects /\ lhs(t) # rhs(t)
  BY <1>0, ArgumentsAreObjects DEF SInv, PairAtLabel
<1>1. TypeOK' /\ version' # "lock_guard"
  BY <1>0, <1>a DEF SInv, TypeOK, Labels
<1>2. \A u \in Threads \ {t} : Same(u)
  BY Types DEF Same
<1>3. OwnsAtLabel'
  <2>1. \A x \in Objects : Holds(t, x)' <=> Holds(t, x)
    BY <1>0 DEF Holds, lhs, rhs
  <2>2. \A x \in Objects : m'[x] = t <=> Holds(t, x)'
    BY <2>1 DEF SInv, OwnsAtLabel
  <2>3. m' = m
    OBVIOUS
  <2> HIDE DEF At, Goto, CopyRhs, AssignRhs, AssignLhs
  <2> QED BY <1>2, <2>2, <2>3, OwnsIfMoverOwns
<1>4. PairAtLabel'
  BY <1>0, <1>2, PairIfMoverPairs DEF SInv, PairAtLabel, lhs, rhs
<1>5. TmpAtLabel'
  <2>1. some_detail' = some_detail /\ lhs(t)' = lhs(t) /\ rhs(t)' = rhs(t)
    BY DEF lhs, rhs
  <2>2. tmp'[t] = some_detail[rhs(t)] /\ tmp'[t] \in Objects /\ pc'[t] = "assign rhs"
    BY <1>0, <1>a DEF SInv, TypeOK
  <2> HIDE DEF At, Goto, CopyRhs, AssignRhs, AssignLhs
  <2> QED BY <1>2, <2>1, <2>2, TmpIfMoverTmp
<1> QED BY <1>1, <1>3, <1>4, <1>5 DEF SInv

(* Then rhs gets the detail of lhs. *)
LEMMA AssignRhsKeeps ==
  ASSUME SInv, NEW t \in Threads, AssignRhs(t)
  PROVE  SInv'
<1> USE SwapAssumption DEF SwapAssumption, At, Goto, AssignRhs
<1>0. /\ version' = version /\ m \in [Objects -> Threads \cup {NoThread}]
      /\ pc \in [Threads -> Labels] /\ first \in [Threads -> Objects \cup {NoObject}]
      /\ pair \in [Threads -> (Objects \X Objects) \cup {<<NoObject, NoObject>>}]
  BY DEF SInv, TypeOK
<1>a. lhs(t) \in Objects /\ rhs(t) \in Objects /\ lhs(t) # rhs(t)
  BY <1>0, ArgumentsAreObjects DEF SInv, PairAtLabel
<1>1. TypeOK' /\ version' # "lock_guard"
  BY <1>0, <1>a DEF SInv, TypeOK, Labels
<1>2. \A u \in Threads \ {t} : Same(u)
  BY Types DEF Same
<1>3. OwnsAtLabel'
  <2>1. \A x \in Objects : Holds(t, x)' <=> Holds(t, x)
    BY <1>0 DEF Holds, lhs, rhs
  <2>2. \A x \in Objects : m'[x] = t <=> Holds(t, x)'
    BY <2>1 DEF SInv, OwnsAtLabel
  <2>3. m' = m
    OBVIOUS
  <2> HIDE DEF At, Goto, CopyRhs, AssignRhs, AssignLhs
  <2> QED BY <1>2, <2>2, <2>3, OwnsIfMoverOwns
<1>4. PairAtLabel'
  BY <1>0, <1>2, PairIfMoverPairs DEF SInv, PairAtLabel, lhs, rhs
<1>5. TmpAtLabel'
  <2>1. ASSUME NEW u \in Threads \ {t}, pc[u] \in {"assign rhs", "assign lhs"}
        PROVE  /\ some_detail'[lhs(u)] = some_detail[lhs(u)]
               /\ some_detail'[rhs(u)] = some_detail[rhs(u)]
    <3>1. Holds(t, lhs(t)) /\ Holds(t, rhs(t)) /\ Holds(u, lhs(u)) /\ Holds(u, rhs(u))
      BY <2>1 DEF Holds
    <3>2. lhs(u) \in Objects /\ rhs(u) \in Objects
      BY <2>1, ArgumentsAreObjects
    <3>3. lhs(u) \notin {lhs(t), rhs(t)} /\ rhs(u) \notin {lhs(t), rhs(t)}
      BY <1>a, <3>1, <3>2, OwnerIsUnique
    <3> QED BY <1>a, <3>2, <3>3 DEF SInv, TypeOK
  <2>2. /\ pc[t] = "assign rhs" /\ pc'[t] = "assign lhs" /\ tmp' = tmp
        /\ lhs(t)' = lhs(t) /\ rhs(t)' = rhs(t)
    BY <1>0 DEF lhs, rhs
  <2>3. some_detail'[rhs(t)] = some_detail[lhs(t)] /\ some_detail'[lhs(t)] = some_detail[lhs(t)]
    BY <1>a DEF SInv, TypeOK
  <2>4. tmp'[t] \in Objects
    BY <2>2 DEF SInv, TmpAtLabel
  <2>5. some_detail'[rhs(t)'] = some_detail'[lhs(t)'] /\ pc'[t] = "assign lhs"
    BY <2>2, <2>3
  <2> HIDE DEF At, Goto, AssignRhs
  <2> QED BY <1>2, <2>1, <2>4, <2>5, TmpIfMoverTmp
<1> QED BY <1>1, <1>3, <1>4, <1>5 DEF SInv

(* And lhs what the temporary kept. *)
LEMMA AssignLhsKeeps ==
  ASSUME SInv, NEW t \in Threads, AssignLhs(t)
  PROVE  SInv'
<1> USE SwapAssumption DEF SwapAssumption, At, Goto, AssignLhs
<1>0. /\ version' = version /\ m \in [Objects -> Threads \cup {NoThread}]
      /\ pc \in [Threads -> Labels] /\ first \in [Threads -> Objects \cup {NoObject}]
      /\ pair \in [Threads -> (Objects \X Objects) \cup {<<NoObject, NoObject>>}]
  BY DEF SInv, TypeOK
<1>a. lhs(t) \in Objects /\ rhs(t) \in Objects /\ lhs(t) # rhs(t)
  BY <1>0, ArgumentsAreObjects DEF SInv, PairAtLabel
<1>1. TypeOK' /\ version' # "lock_guard"
  BY <1>0, <1>a DEF SInv, TypeOK, Labels, TmpAtLabel
<1>2. \A u \in Threads \ {t} : Same(u)
  BY Types DEF Same
<1>3. OwnsAtLabel'
  <2>1. \A x \in Objects : Holds(t, x)' <=> Holds(t, x)
    BY <1>0 DEF Holds, lhs, rhs
  <2>2. \A x \in Objects : m'[x] = t <=> Holds(t, x)'
    BY <2>1 DEF SInv, OwnsAtLabel
  <2>3. m' = m
    OBVIOUS
  <2> HIDE DEF At, Goto, CopyRhs, AssignRhs, AssignLhs
  <2> QED BY <1>2, <2>2, <2>3, OwnsIfMoverOwns
<1>4. PairAtLabel'
  BY <1>0, <1>2, PairIfMoverPairs DEF SInv, PairAtLabel, lhs, rhs
<1>5. TmpAtLabel'
  <2>1. ASSUME NEW u \in Threads \ {t}, pc[u] \in {"assign rhs", "assign lhs"}
        PROVE  /\ some_detail'[lhs(u)] = some_detail[lhs(u)]
               /\ some_detail'[rhs(u)] = some_detail[rhs(u)]
    <3>1. Holds(t, lhs(t)) /\ Holds(t, rhs(t)) /\ Holds(u, lhs(u)) /\ Holds(u, rhs(u))
      BY <2>1 DEF Holds
    <3>2. lhs(u) \in Objects /\ rhs(u) \in Objects
      BY <2>1, ArgumentsAreObjects
    <3>3. lhs(u) \notin {lhs(t), rhs(t)} /\ rhs(u) \notin {lhs(t), rhs(t)}
      BY <1>a, <3>1, <3>2, OwnerIsUnique
    <3> QED BY <1>a, <3>2, <3>3 DEF SInv, TypeOK
  <2>2. pc'[t] = "unlock 1"
    BY <1>0
  <2> HIDE DEF At, Goto, CopyRhs, AssignRhs, AssignLhs
  <2> QED BY <1>2, <2>1, <2>2, TmpIfMoverTmp
<1> QED BY <1>1, <1>3, <1>4, <1>5 DEF SInv

(* The guards unlock one mutex each, the two of them both. *)
LEMMA UnlockKeeps ==
  ASSUME SInv, NEW t \in Threads, NEW n \in {1, 2}, Unlock(t, n)
  PROVE  SInv'
<1> USE SwapAssumption DEF SwapAssumption, At, Goto, Unlock
<1>0. /\ version' = version /\ m \in [Objects -> Threads \cup {NoThread}]
      /\ pc \in [Threads -> Labels] /\ first \in [Threads -> Objects \cup {NoObject}]
      /\ pair \in [Threads -> (Objects \X Objects) \cup {<<NoObject, NoObject>>}]
  BY DEF SInv, TypeOK
<1>a. lhs(t) \in Objects /\ rhs(t) \in Objects /\ lhs(t) # rhs(t)
  BY <1>0, ArgumentsAreObjects DEF SInv, PairAtLabel
<1>1. TypeOK' /\ version' # "lock_guard"
  BY <1>0 DEF SInv, TypeOK, Labels
<1>2. \A u \in Threads \ {t} : Same(u)
  BY Types DEF Same
<1>3. OwnsAtLabel'
  <2> DEFINE g == Guarded(t, n)
  <2>1. g \in Objects /\ m' = [m EXCEPT ![g] = NoThread]
    BY <1>a, GuardsAdoptBoth
  <2>2. lhs(t)' = lhs(t) /\ rhs(t)' = rhs(t) /\ Guarded(t, 2)' = Guarded(t, 2)
    BY <1>0 DEF Guarded, lhs, rhs
  <2>3. Holds(t, g)
    BY <1>0, GuardsAdoptBoth DEF Holds
  <2>4. \A x \in Objects : Holds(t, x)' <=> Holds(t, x) /\ x # g
    <3>1. CASE n = 1
      <4>1. pc[t] = "unlock 1" /\ pc'[t] = "unlock 2"
        BY <1>0, <3>1
      <4>2. \A x : (x = lhs(t) \/ x = rhs(t)) <=> (x = Guarded(t, 1) \/ x = Guarded(t, 2))
        BY GuardsAdoptBoth
      <4>3. Guarded(t, 1) # Guarded(t, 2)
        BY <1>a, GuardsAdoptBoth
      <4> QED BY <2>2, <3>1, <4>1, <4>2, <4>3 DEF Holds
    <3>2. CASE n # 1
      <4>1. pc[t] = "unlock 2" /\ pc'[t] = "return" /\ n = 2
        BY <1>0, <3>2
      <4> HIDE DEF Unlock
      <4> QED BY <4>1 DEF Holds
    <3> HIDE DEF g, Unlock
    <3> QED BY <3>1, <3>2
  <2> HIDE DEF g, Unlock
  <2>5. m[g] = t
    BY <2>1, <2>3 DEF SInv, OwnsAtLabel
  <2>6. \A x \in Objects : m'[x] = t <=> Holds(t, x)'
    BY <1>0, <2>1, <2>4, <2>5 DEF SInv, OwnsAtLabel
  <2> QED BY <1>0, <1>2, <2>1, <2>5, <2>6, OwnsIfMoverOwns
<1>4. PairAtLabel'
  BY <1>0, <1>2, PairIfMoverPairs DEF SInv, PairAtLabel, lhs, rhs
<1>5. TmpAtLabel'
  BY <1>0, <1>2, TmpIfMoverTmp
<1> QED BY <1>1, <1>3, <1>4, <1>5 DEF SInv

(* A return forgets the arguments. *)
LEMMA ReturnKeeps ==
  ASSUME SInv, NEW t \in Threads, Return(t)
  PROVE  SInv'
<1> USE SwapAssumption DEF SwapAssumption, At, Goto, Return
<1>0. /\ version' = version /\ m \in [Objects -> Threads \cup {NoThread}]
      /\ pc \in [Threads -> Labels] /\ first \in [Threads -> Objects \cup {NoObject}]
      /\ pair \in [Threads -> (Objects \X Objects) \cup {<<NoObject, NoObject>>}]
  BY DEF SInv, TypeOK
<1>1. TypeOK' /\ version' # "lock_guard"
  BY <1>0 DEF SInv, TypeOK, Labels
<1>2. \A u \in Threads \ {t} : Same(u)
  BY Types DEF Same
<1>3. OwnsAtLabel'
  <2>1. \A x \in Objects : ~Holds(t, x) /\ ~Holds(t, x)'
    BY <1>0 DEF Holds
  <2>2. \A x \in Objects : m'[x] = t <=> Holds(t, x)'
    BY <2>1 DEF SInv, OwnsAtLabel
  <2>3. m' = m
    OBVIOUS
  <2> HIDE DEF At, Goto, CopyRhs, AssignRhs, AssignLhs
  <2> QED BY <1>2, <2>2, <2>3, OwnsIfMoverOwns
<1>4. PairAtLabel'
  BY <1>0, <1>2, PairIfMoverPairs DEF lhs, rhs
<1>5. TmpAtLabel'
  BY <1>0, <1>2, TmpIfMoverTmp
<1> QED BY <1>1, <1>3, <1>4, <1>5 DEF SInv

(* The invariant, from which the safety properties follow. *)
THEOREM SwapInvariance == NoDoubleAdoption => (Spec => []SInv)
<1> SUFFICES ASSUME NoDoubleAdoption PROVE Spec => []SInv
  OBVIOUS
<1>1. Init => SInv
  BY SwapAssumption DEF NoDoubleAdoption, SwapAssumption, Init, SInv, TypeOK, Labels,
     OwnsAtLabel, Holds, PairAtLabel, TmpAtLabel
<1>2. SInv /\ [Next]_vars => SInv'
  <2>1. ASSUME SInv, Next PROVE SInv'
    BY <2>1, CallKeeps, LockFirstKeeps, TrySecondKeeps, BackOffKeeps, CopyRhsKeeps,
       AssignRhsKeeps, AssignLhsKeeps, UnlockKeeps, ReturnKeeps DEF Next, Step
  <2>2. ASSUME SInv, UNCHANGED vars PROVE SInv'
    <3>1. \A u : Same(u) /\ UNCHANGED <<m, some_detail>>
      BY <2>2 DEF vars, Same
    <3>2. TypeOK' /\ version' # "lock_guard"
      BY <2>2 DEF vars, SInv, TypeOK
    <3>3. OwnsAtLabel'
      BY <2>2, <3>1, SameHolds DEF SInv, OwnsAtLabel
    <3>4. PairAtLabel'
      BY <2>2, <3>1, SameHolds DEF Same, SInv, PairAtLabel
    <3>5. TmpAtLabel'
      <4>1. \A u : /\ lhs(u)' = lhs(u) /\ rhs(u)' = rhs(u)
                  /\ pc'[u] = pc[u] /\ tmp'[u] = tmp[u]
        BY <3>1, SameHolds DEF Same
      <4>2. some_detail' = some_detail /\ TmpAtLabel
        BY <2>2 DEF vars, SInv
      <4> QED BY <4>1, <4>2 DEF TmpAtLabel
    <3> QED BY <3>2, <3>3, <3>4, <3>5 DEF SInv
  <2> QED BY <2>1, <2>2
<1> QED BY <1>1, <1>2, PTL DEF Spec

(* The variables keep their types, for any threads and objects. *)
THEOREM TypeCorrect == NoDoubleAdoption => (Spec => []TypeOK)
BY SwapInvariance, PTL DEF SInv

(* A thread outside swap, or waiting in std::lock for its first mutex,     *)
(* owns none.                                                              *)
THEOREM NothingKeptTheorem == NoDoubleAdoption => (Spec => []NothingKept)
<1>1. SInv => NothingKept
  BY DEF SInv, TypeOK, OwnsAtLabel, Holds, NothingKept
<1> QED BY <1>1, SwapInvariance, PTL

(* The exchange happens with both mutexes held. *)
THEOREM BothLockedTheorem == NoDoubleAdoption => (Spec => []BothLocked)
<1>1. SInv => BothLocked
  <2> SUFFICES ASSUME SInv, NEW t \in Threads,
                      pc[t] \in {"copy", "assign rhs", "assign lhs"}
               PROVE  m[lhs(t)] = t /\ m[rhs(t)] = t
    BY DEF BothLocked
  <2>1. lhs(t) \in Objects /\ rhs(t) \in Objects
    BY ArgumentsAreObjects
  <2>2. Holds(t, lhs(t)) /\ Holds(t, rhs(t))
    BY DEF Holds
  <2> QED BY <2>1, <2>2 DEF SInv, OwnsAtLabel
<1> QED BY <1>1, SwapInvariance, PTL

-----------------------------------------------------------------------------

(* An overwritten rhs counts as what the temporary of its thread keeps,    *)
(* which thread that is being certain.                                     *)
HiddenIsTmp ==
  \A t \in Threads : pc[t] = "assign lhs" => Detail(rhs(t)) = tmp[t]

LEMMA Hidden == SInv => HiddenIsTmp
<1> SUFFICES ASSUME SInv, NEW t \in Threads, pc[t] = "assign lhs"
             PROVE  Detail(rhs(t)) = tmp[t]
  BY DEF HiddenIsTmp
<1> DEFINE P(u) == pc[u] = "assign lhs" /\ rhs(u) = rhs(t)
           c == CHOOSE u \in Threads : P(u)
<1>1. c \in Threads /\ P(c)
  <2>1. \E u \in Threads : P(u)
    OBVIOUS
  <2> QED BY <2>1
<1>2. c = t
  <2>1. rhs(t) \in Objects
    BY ArgumentsAreObjects
  <2>2. Holds(t, rhs(t)) /\ Holds(c, rhs(t))
    BY <1>1 DEF Holds
  <2> HIDE DEF c
  <2> QED BY <1>1, <2>1, <2>2, OwnerIsUnique
<1>3. Detail(rhs(t)) = tmp[c]
  BY DEF Detail
<1> QED BY <1>2, <1>3

LEMMA HiddenNext == SInv' => HiddenIsTmp'
BY Hidden, PTL

(* Any other object counts as what it has. *)
Plain(x) == \A t \in Threads : ~(pc[t] = "assign lhs" /\ rhs(t) = x)

LEMMA PlainIsDetail ==
  ASSUME NEW x, Plain(x)
  PROVE  Detail(x) = some_detail[x]
BY DEF Plain, Detail

LEMMA PlainIsDetailNext ==
  ASSUME NEW x, Plain(x)'
  PROVE  Detail(x)' = some_detail'[x]
BY DEF Plain, Detail

(* A thread that holds an object's mutex and has not overwritten it sees   *)
(* the object as it counts.                                                *)
LEMMA HeldIsPlain ==
  ASSUME SInv, NEW t \in Threads, NEW x \in Objects, Holds(t, x),
         pc[t] = "assign lhs" => x # rhs(t)
  PROVE  Plain(x)
<1> SUFFICES ASSUME NEW u \in Threads, pc[u] = "assign lhs", rhs(u) = x PROVE FALSE
  BY DEF Plain
<1>1. Holds(u, x)
  BY DEF Holds
<1> QED BY <1>1, OwnerIsUnique

(* An object keeps its detail if it does so itself and the same threads    *)
(* hide it as before.                                                      *)
LEMMA DetailKept ==
  ASSUME SInv, SInv', NEW x, some_detail'[x] = some_detail[x],
         \A u \in Threads :
           \/ pc'[u] # "assign lhs" /\ (pc[u] = "assign lhs" => rhs(u) # x)
           \/ pc[u] # "assign lhs" /\ (pc'[u] = "assign lhs" => rhs(u)' # x)
           \/ pc'[u] = pc[u] /\ rhs(u)' = rhs(u) /\ tmp'[u] = tmp[u]
  PROVE  Detail(x)' = Detail(x)
<1>1. CASE Plain(x)
  <2>1. Plain(x)'
    BY <1>1 DEF Plain
  <2> QED BY <1>1, <2>1, PlainIsDetail, PlainIsDetailNext
<1>2. CASE ~Plain(x)
  <2>1. PICK u \in Threads : pc[u] = "assign lhs" /\ rhs(u) = x
    BY <1>2 DEF Plain
  <2>2. pc'[u] = "assign lhs" /\ rhs(u)' = x /\ tmp'[u] = tmp[u]
    BY <2>1
  <2>3. Detail(x) = tmp[u]
    BY <2>1, Hidden DEF HiddenIsTmp
  <2>4. Detail(x)' = tmp'[u]
    BY <2>2, HiddenNext DEF HiddenIsTmp
  <2> QED BY <2>2, <2>3, <2>4
<1> QED BY <1>1, <1>2

(* The two functions AtomicSwap is given. *)
DetailMap == [x \in Objects |-> Detail(x)]
PhaseMap  == [t \in Threads |-> Phase(t)]

LEMMA PhaseMoves ==
  ASSUME NEW t \in Threads, \A u \in Threads \ {t} : Same(u)
  PROVE  PhaseMap' = [PhaseMap EXCEPT ![t] = Phase(t)']
<1>1. \A u \in Threads \ {t} : Phase(u)' = Phase(u)
  BY DEF Same, Phase, lhs, rhs
<1> QED BY <1>1 DEF PhaseMap

LEMMA DetailsKept ==
  ASSUME SInv, SInv', NEW t \in Threads, \A u \in Threads \ {t} : Same(u),
         some_detail' = some_detail, pc[t] # "assign lhs", pc'[t] # "assign lhs"
  PROVE  DetailMap' = DetailMap
<1>1. \A u \in Threads \ {t} : rhs(u)' = rhs(u)
  BY SameHolds
<1>2. ASSUME NEW x \in Objects PROVE Detail(x)' = Detail(x)
  BY <1>1, DetailKept DEF Same
<1> QED BY <1>2 DEF DetailMap

-----------------------------------------------------------------------------

(* Every step is one of AtomicSwap, or invisible to it.                    *)

(* std::lock, and the copy into the temporary, are invisible. *)
LEMMA LockRefines ==
  ASSUME SInv, SInv', NEW t \in Threads,
         (\E x \in Objects : LockFirst(t, x)) \/ TrySecond(t) \/ BackOff(t) \/ CopyRhs(t)
  PROVE  UNCHANGED Atomic!avars
<1> USE DEF SInv, TypeOK, At, Goto, LockFirst, TrySecond, BackOff, CopyRhs
<1>1. \A u \in Threads \ {t} : Same(u)
  BY DEF Same
<1>2. some_detail' = some_detail /\ pair' = pair
  OBVIOUS
<1>3. /\ pc[t] \in {"lock", "try", "copy"}
      /\ pc'[t] \in {"lock", "try", "copy", "assign rhs"}
  OBVIOUS
<1>4. Phase(t)' = Phase(t)
  BY <1>3 DEF Phase
<1> HIDE DEF SInv, TypeOK, At, Goto, LockFirst, TrySecond, BackOff, CopyRhs
<1>5. PhaseMap' = PhaseMap
  BY <1>1, <1>4, PhaseMoves DEF PhaseMap
<1>6. DetailMap' = DetailMap
  BY <1>1, <1>2, <1>3, DetailsKept
<1> QED BY <1>2, <1>5, <1>6 DEF Atomic!avars, PhaseMap, DetailMap

(* Overwriting rhs is invisible: the temporary keeps its detail. *)
LEMMA AssignRhsRefines ==
  ASSUME SInv, SInv', NEW t \in Threads, AssignRhs(t)
  PROVE  UNCHANGED Atomic!avars
<1>1. \A u \in Threads \ {t} : Same(u)
  BY Types DEF At, Goto, AssignRhs, Same
<1>2. /\ pair' = pair /\ tmp' = tmp
      /\ pc[t] = "assign rhs" /\ pc'[t] = "assign lhs"
      /\ \A x \in Objects \ {rhs(t)} : some_detail'[x] = some_detail[x]
  BY DEF SInv, TypeOK, At, Goto, AssignRhs
<1>a. rhs(t)' = rhs(t)
  BY <1>2 DEF rhs
<1>3. \A u \in Threads \ {t} : rhs(u)' = rhs(u)
  BY <1>1, SameHolds
<1>4. rhs(t) \in Objects
  BY <1>2, ArgumentsAreObjects
<1>5. Phase(t)' = Phase(t)
  BY <1>2 DEF Phase
<1>6. ASSUME NEW x \in Objects PROVE Detail(x)' = Detail(x)
  <2>1. CASE x = rhs(t)
    <3>1. Holds(t, x)
      BY <1>2, <2>1 DEF Holds
    <3>2. Detail(x) = some_detail[x]
      BY <1>2, <3>1, HeldIsPlain, PlainIsDetail
    <3>3. Detail(x)' = tmp'[t]
      BY <1>2, <1>a, <2>1, HiddenNext DEF HiddenIsTmp
    <3> QED BY <1>2, <2>1, <3>2, <3>3 DEF SInv, TmpAtLabel
  <2>2. CASE x # rhs(t)
    BY <1>1, <1>2, <1>a, <1>3, <2>2, DetailKept DEF Same
  <2> QED BY <2>1, <2>2
<1>7. PhaseMap' = PhaseMap
  BY <1>1, <1>5, PhaseMoves DEF PhaseMap
<1>8. DetailMap' = DetailMap
  BY <1>6 DEF DetailMap
<1> QED BY <1>2, <1>7, <1>8 DEF Atomic!avars, PhaseMap, DetailMap

(* Assigning lhs is the exchange. *)
LEMMA AssignLhsRefines ==
  ASSUME SInv, SInv', NEW t \in Threads, AssignLhs(t)
  PROVE  Atomic!Exchange(t)
<1>1. \A u \in Threads \ {t} : Same(u)
  BY Types DEF At, Goto, AssignLhs, Same
<1>2. /\ pair' = pair /\ pc[t] = "assign lhs" /\ pc'[t] = "unlock 1"
      /\ some_detail' = [some_detail EXCEPT ![lhs(t)] = tmp[t]]
  BY DEF SInv, TypeOK, At, Goto, AssignLhs
<1>3. \A u \in Threads \ {t} : rhs(u)' = rhs(u)
  BY <1>1, SameHolds
<1>4. lhs(t) \in Objects /\ rhs(t) \in Objects /\ lhs(t) # rhs(t)
  BY <1>2, ArgumentsAreObjects DEF SInv, PairAtLabel
<1>5. Holds(t, lhs(t)) /\ Holds(t, rhs(t))
  BY <1>2 DEF Holds
<1>6. Holds(t, lhs(t))' /\ Holds(t, rhs(t))' /\ lhs(t)' = lhs(t) /\ rhs(t)' = rhs(t)
  BY <1>2 DEF Holds, lhs, rhs
<1>7. Detail(lhs(t)) = some_detail[lhs(t)] /\ Detail(rhs(t)) = tmp[t]
  <2>1. Plain(lhs(t))
    BY <1>4, <1>5, HeldIsPlain
  <2> QED BY <1>2, <2>1, PlainIsDetail, Hidden DEF HiddenIsTmp
<1>8. /\ some_detail'[lhs(t)] = tmp[t]
      /\ \A x \in Objects \ {lhs(t)} : some_detail'[x] = some_detail[x]
      /\ some_detail[rhs(t)] = some_detail[lhs(t)]
  BY <1>2, <1>4 DEF SInv, TypeOK, TmpAtLabel
<1>9. ASSUME NEW x \in {lhs(t), rhs(t)} PROVE Detail(x)' = some_detail'[x]
  <2>1. ASSUME NEW u \in Threads, pc'[u] = "assign lhs", rhs(u)' = x PROVE FALSE
    <3>1. u # t /\ pc[u] = "assign lhs" /\ rhs(u) = x
      BY <1>1, <1>2, <1>3, <2>1 DEF Same
    <3>2. Holds(u, x)
      BY <3>1 DEF Holds
    <3> QED BY <1>4, <1>5, <3>1, <3>2, OwnerIsUnique
  <2>2. Plain(x)'
    BY <2>1 DEF Plain
  <2> QED BY <2>2, PlainIsDetailNext
<1>10. ASSUME NEW x \in Objects \ {lhs(t), rhs(t)} PROVE Detail(x)' = Detail(x)
  BY <1>1, <1>2, <1>3, <1>8, DetailKept DEF Same
<1>11. DetailMap' = [DetailMap EXCEPT ![lhs(t)] = DetailMap[rhs(t)],
                                      ![rhs(t)] = DetailMap[lhs(t)]]
  BY <1>4, <1>7, <1>8, <1>9, <1>10 DEF DetailMap
<1>12. Phase(t) = "pending" /\ Phase(t)' = "done"
  BY <1>2 DEF Phase
<1>13. PhaseMap' = [PhaseMap EXCEPT ![t] = "done"] /\ PhaseMap[t] = "pending"
  BY <1>1, <1>12, PhaseMoves DEF PhaseMap
<1> QED BY <1>2, <1>4, <1>11, <1>13 DEF Atomic!Exchange, PhaseMap, DetailMap, lhs, rhs

(* So are the guards that unlock. *)
LEMMA UnlockRefines ==
  ASSUME SInv, SInv', NEW t \in Threads, NEW n \in {1, 2}, Unlock(t, n)
  PROVE  UNCHANGED Atomic!avars
<1>1. \A u \in Threads \ {t} : Same(u)
  BY Types DEF At, Goto, Unlock, Same
<1>2. /\ some_detail' = some_detail /\ pair' = pair
      /\ pc[t] \in {"unlock 1", "unlock 2"} /\ pc'[t] \in {"unlock 2", "return"}
  BY DEF SInv, TypeOK, At, Goto, Unlock
<1>3. Phase(t)' = Phase(t)
  <2>1. lhs(t)' = lhs(t) /\ rhs(t)' = rhs(t) /\ lhs(t) # rhs(t)
    BY <1>2 DEF SInv, PairAtLabel, lhs, rhs
  <2> QED BY <1>2, <2>1 DEF Phase
<1>4. PhaseMap' = PhaseMap
  BY <1>1, <1>3, PhaseMoves DEF PhaseMap
<1>5. DetailMap' = DetailMap
  BY <1>1, <1>2, DetailsKept
<1> QED BY <1>2, <1>4, <1>5 DEF Atomic!avars, PhaseMap, DetailMap

LEMMA CallRefines ==
  ASSUME SInv, SInv', NEW t \in Threads, NEW p \in Objects \X Objects, Call(t, p)
  PROVE  Atomic!Invoke(t, p)
<1>1. \A u \in Threads \ {t} : Same(u)
  BY Types DEF At, Goto, Call, Same
<1>2. /\ some_detail' = some_detail /\ pair' = [pair EXCEPT ![t] = p]
      /\ pc[t] = "idle" /\ pc'[t] \in {"return", "lock"}
      /\ pc'[t] = "return" => lhs(t)' = rhs(t)'
  BY DEF SInv, TypeOK, At, Goto, Call, lhs, rhs
<1>3. Phase(t) = "idle" /\ Phase(t)' = "pending"
  BY <1>2 DEF Phase
<1>4. PhaseMap' = [PhaseMap EXCEPT ![t] = "pending"] /\ PhaseMap[t] = "idle"
  BY <1>1, <1>3, PhaseMoves DEF PhaseMap
<1>5. DetailMap' = DetailMap
  BY <1>1, <1>2, DetailsKept
<1> QED BY <1>2, <1>4, <1>5 DEF Atomic!Invoke, PhaseMap, DetailMap

LEMMA ReturnRefines ==
  ASSUME SInv, SInv', NEW t \in Threads, Return(t)
  PROVE  Atomic!Return(t)
<1>1. \A u \in Threads \ {t} : Same(u)
  BY Types DEF At, Goto, Return, Same
<1>2. /\ some_detail' = some_detail /\ pair' = [pair EXCEPT ![t] = <<NoObject, NoObject>>]
      /\ pc[t] = "return" /\ pc'[t] = "idle"
  BY DEF SInv, TypeOK, At, Goto, Return
<1>3. /\ Phase(t) = "done" \/ (Phase(t) = "pending" /\ pair[t][1] = pair[t][2])
      /\ Phase(t)' = "idle"
  BY <1>2 DEF Phase, lhs, rhs
<1>4. PhaseMap' = [PhaseMap EXCEPT ![t] = "idle"] /\ PhaseMap[t] = Phase(t)
  BY <1>1, <1>3, PhaseMoves DEF PhaseMap
<1>5. DetailMap' = DetailMap
  BY <1>1, <1>2, DetailsKept
<1> QED BY <1>2, <1>3, <1>4, <1>5 DEF Atomic!Return, PhaseMap, DetailMap

(* Concurrent swaps exchange details atomically: for any threads, objects  *)
(* and overlapping pairs, none is lost or duplicated.                      *)
THEOREM ImplementsAtomicSwapTheorem == NoDoubleAdoption => (Spec => ImplementsAtomicSwap)
<1> SUFFICES ASSUME NoDoubleAdoption PROVE Spec => ImplementsAtomicSwap
  OBVIOUS
<1>1. Init => Atomic!AInit
  BY DEF Init, Atomic!AInit, Phase, Detail
<1>2. SInv /\ SInv' /\ [Next]_vars => [Atomic!ANext]_(Atomic!avars)
  <2>1. ASSUME SInv, SInv', Next PROVE [Atomic!ANext]_(Atomic!avars)
    BY <2>1, CallRefines, LockRefines, AssignRhsRefines, AssignLhsRefines, UnlockRefines,
       ReturnRefines DEF Next, Step, Atomic!ANext
  <2>2. ASSUME UNCHANGED vars PROVE UNCHANGED Atomic!avars
    BY <2>2 DEF vars, Atomic!avars, Detail, Phase, lhs, rhs
  <2> QED BY <2>1, <2>2
<1> QED BY <1>1, <1>2, SwapInvariance, PTL DEF Spec, ImplementsAtomicSwap, Atomic!ASpec
=============================================================================
