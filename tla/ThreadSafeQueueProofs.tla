------------------------ MODULE ThreadSafeQueueProofs ------------------------
(***************************************************************************)
(* Theorems about ThreadSafeQueue, for any finite set of threads, any set  *)
(* of values and any bounds on the calls and the spurious wakeups.         *)
(***************************************************************************)
EXTENDS ThreadSafeQueue, FiniteSetTheorems, SequenceTheorems, TLAPS

(* Which operation a thread can be in at each label. *)
OpAtLabel ==
  \A t \in Threads :
    /\ pc[t] \in {"push", "notify"} => op[t] = "push"
    /\ pc[t] \in {"test", "front", "pop"} => op[t] # "push"
    /\ pc[t] \in {"waiting", "relock"} => op[t] = "wait_and_pop"

(* A push carries its value until it has pushed it; a pop has no value     *)
(* before it has copied one.                                               *)
ValAtLabel ==
  \A t \in Threads :
    /\ pc[t] = "idle" => val[t] = NoValue
    /\ pc[t] \in {"lock", "push"} /\ op[t] = "push" => val[t] \in Values
    /\ pc[t] \in {"lock", "relock", "waiting", "test", "front"} /\ op[t] # "push"
         => val[t] = NoValue

(* From the test to the pop the queue is not empty, and after the copy the *)
(* copied value is still at its front.                                     *)
FrontStays ==
  \A t \in Threads :
    /\ pc[t] \in {"front", "pop"} => data_queue # <<>>
    /\ pc[t] = "pop" => val[t] = Head(data_queue)

QInv == TypeOK /\ QueueGuarded /\ OpAtLabel /\ ValAtLabel /\ FrontStays

-----------------------------------------------------------------------------

(* Every step keeps the invariant, one action at a time.                   *)
LEMMA CallKeeps ==
  ASSUME QInv, NEW t \in Threads, NEW o \in Ops, NEW v \in Values \cup {NoValue},
         Call(t, o, v)
  PROVE  QInv'
<1> USE QueueAssumption DEF QInv, TypeOK, QueueAssumption, Call, Goto, Labels, Ops, Inside
<1>1. TypeOK'
  OBVIOUS
<1>2. QueueGuarded'
  BY DEF QueueGuarded
<1>3. OpAtLabel'
  BY DEF OpAtLabel
<1>4. ValAtLabel'
  BY DEF ValAtLabel
<1>5. FrontStays'
  BY DEF FrontStays
<1> QED BY <1>1, <1>2, <1>3, <1>4, <1>5

(* Taking, and giving up, the mutex. *)
LEMMA MutexStepKeeps ==
  ASSUME QInv, NEW t \in Threads, Lock(t) \/ Wait(t) \/ Unlock(t)
  PROVE  QInv'
<1> USE QueueAssumption DEF QInv, TypeOK, QueueAssumption, Goto, Labels, Ops, Inside
<1> USE DEF Lock, Wait, Unlock
<1>1. TypeOK'
  OBVIOUS
<1>2. QueueGuarded'
  <2>1. CASE Lock(t)
    <3>1. pc' = [pc EXCEPT ![t] = IF op[t] = "push" THEN "push" ELSE "test"]
      BY <2>1
    <3>2. pc'[t] \in Inside /\ \A u \in Threads \ {t} : pc'[u] = pc[u]
      BY <3>1
    <3>3. mut = NoThread /\ mut' = t
      BY <2>1
    <3> QED BY <3>2, <3>3 DEF QueueGuarded
  <2>2. CASE Wait(t)
    BY <2>2 DEF QueueGuarded
  <2>3. CASE Unlock(t)
    BY <2>3 DEF QueueGuarded
  <2> QED BY <2>1, <2>2, <2>3
<1>3. OpAtLabel'
  BY DEF OpAtLabel
<1>4. ValAtLabel'
  BY DEF ValAtLabel, OpAtLabel
<1>5. FrontStays'
  BY DEF FrontStays, QueueGuarded
<1> QED BY <1>1, <1>2, <1>3, <1>4, <1>5

(* Waking a thread, by a notification or spuriously. *)
LEMMA WakeKeeps ==
  ASSUME QInv, NEW t \in Threads, NotifyOne(t) \/ WakeSpuriously(t)
  PROVE  QInv'
<1> USE QueueAssumption DEF QInv, TypeOK, QueueAssumption, Goto, Labels, Ops, Inside
<1> USE DEF NotifyOne, WakeSpuriously, data_cond
<1>1. TypeOK'
  <2>1. CASE NotifyOne(t)
    <3>1. pc' \in [Threads -> Labels]
      BY <2>1
    <3> QED BY <2>1, <3>1
  <2>2. CASE WakeSpuriously(t)
    BY <2>2
  <2> QED BY <2>1, <2>2
<1>2. QueueGuarded'
  BY DEF QueueGuarded
<1>3. OpAtLabel'
  BY DEF OpAtLabel
<1>4. ValAtLabel'
  BY DEF ValAtLabel, OpAtLabel
<1>5. FrontStays'
  BY DEF FrontStays
<1> QED BY <1>1, <1>2, <1>3, <1>4, <1>5

(* The steps with mut held that leave the queue alone. *)
LEMMA ReadKeeps ==
  ASSUME QInv, NEW t \in Threads,
         FindValue(t) \/ FindEmpty(t) \/ CopyFront(t) \/ PushThrows(t) \/ CopyThrows(t)
  PROVE  QInv'
<1> USE QueueAssumption DEF QInv, TypeOK, QueueAssumption, Goto, Labels, Ops, Inside
<1> USE DEF FindValue, FindEmpty, CopyFront, PushThrows, CopyThrows
<1>1. TypeOK'
  <2>1. pc[t] = "front" => Head(data_queue) \in Values
    BY HeadTailProperties DEF FrontStays
  <2>2. CASE CopyFront(t)
    BY <2>1, <2>2
  <2>3. CASE CopyThrows(t)
    BY <2>3
  <2>4. CASE FindValue(t) \/ FindEmpty(t) \/ PushThrows(t)
    BY <2>4
  <2> QED BY <2>2, <2>3, <2>4
<1>2. QueueGuarded'
  BY DEF QueueGuarded
<1>3. OpAtLabel'
  BY DEF OpAtLabel
<1>4. ValAtLabel'
  BY DEF ValAtLabel, OpAtLabel
<1>5. FrontStays'
  BY DEF FrontStays, QueueGuarded
<1> QED BY <1>1, <1>2, <1>3, <1>4, <1>5

(* The steps that change the queue: nobody else is between test and pop. *)
LEMMA WriteKeeps ==
  ASSUME QInv, NEW t \in Threads, Push(t) \/ Pop(t)
  PROVE  QInv'
<1> USE QueueAssumption DEF QInv, TypeOK, QueueAssumption, Goto, Labels, Ops, Inside
<1> USE DEF Push, Pop
<1>1. TypeOK'
  <2>1. pc[t] = "push" => val[t] \in Values
    BY DEF ValAtLabel, OpAtLabel
  <2>2. pc[t] = "pop" => Tail(data_queue) \in Seq(Values)
    BY HeadTailProperties DEF FrontStays
  <2>3. data_queue' \in Seq(Values)
    <3>1. CASE Push(t)
      <4>1. val[t] \in Values /\ data_queue \in Seq(Values)
        BY <2>1, <3>1
      <4>2. Append(data_queue, val[t]) \in Seq(Values)
        BY <4>1, AppendProperties
      <4> QED BY <3>1, <4>2
    <3>2. CASE Pop(t)
      BY <2>2, <3>2
    <3> QED BY <3>1, <3>2
  <2> QED BY <2>3
<1>2. QueueGuarded'
  BY DEF QueueGuarded
<1>3. OpAtLabel'
  BY DEF OpAtLabel
<1>4. ValAtLabel'
  BY DEF ValAtLabel, OpAtLabel
<1>5. FrontStays'
  <2>1. \A u \in Threads : pc'[u] \notin {"front", "pop"}
    BY DEF QueueGuarded
  <2> QED BY <2>1 DEF FrontStays
<1> QED BY <1>1, <1>2, <1>3, <1>4, <1>5

(* QInv is an inductive invariant. *)
THEOREM QueueInvariance == Spec => []QInv
<1>1. Init => QInv
  BY QueueAssumption, EmptySeq DEF Init, QInv, TypeOK, QueueGuarded, OpAtLabel, ValAtLabel,
     FrontStays, QueueAssumption, Labels, Ops, Inside
<1>2. QInv /\ [Next]_vars => QInv'
  <2>1. CASE UNCHANGED vars
    BY <2>1 DEF vars, QInv, TypeOK, QueueGuarded, OpAtLabel, ValAtLabel, FrontStays
  <2>2. ASSUME QInv, NEW t \in Threads, Step(t) PROVE QInv'
    BY <2>2, MutexStepKeeps, WakeKeeps, ReadKeeps, WriteKeeps DEF Step
  <2> QED BY <2>1, <2>2, CallKeeps, WakeKeeps DEF Next
<1> QED BY <1>1, <1>2, PTL DEF Spec

(* Every variable keeps its type. *)
THEOREM TypeCorrect == Spec => []TypeOK
<1>1. QInv => TypeOK
  BY DEF QInv
<1> QED BY <1>1, QueueInvariance, PTL

(* The queue is touched only with mut held. *)
THEOREM QueueGuardedTheorem == Spec => []QueueGuarded
<1>1. QInv => QueueGuarded
  BY DEF QInv
<1> QED BY <1>1, QueueInvariance, PTL

-----------------------------------------------------------------------------
(* No wakeup is lost but by a throw: the thread that a notification woke,  *)
(* or the notifier itself, counts for every value that was pushed while    *)
(* others sleep, until it has popped one or its copy has thrown.           *)

(* A step that takes t out of Serving, or puts t into it, or swaps it for  *)
(* another thread, changes the number of serving threads by one or none.   *)
LEMMA ServingCounts ==
  ASSUME NEW S, NEW T, IsFiniteSet(S), NEW x, NEW y
  PROVE  /\ Cardinality(S) \in Nat
         /\ T = S \cup {x} => Cardinality(S) <= Cardinality(T)
         /\ T = S \cup {x} /\ x \notin S => Cardinality(T) = Cardinality(S) + 1
         /\ T = S \ {x} /\ x \in S => Cardinality(T) = Cardinality(S) - 1
         /\ T = (S \ {x}) \cup {y} /\ x \in S /\ y \notin S
              => Cardinality(T) = Cardinality(S)
<1>1. Cardinality(S) \in Nat
  BY FS_CardinalityType
<1>2. Cardinality(S \cup {x}) = IF x \in S THEN Cardinality(S) ELSE Cardinality(S) + 1
  BY FS_AddElement
<1>3. /\ IsFiniteSet(S \ {x})
      /\ Cardinality(S \ {x}) = IF x \in S THEN Cardinality(S) - 1 ELSE Cardinality(S)
  BY FS_RemoveElement
<1>4. ASSUME y \notin S, x \in S
      PROVE  Cardinality((S \ {x}) \cup {y}) = Cardinality(S)
  <2>1. Cardinality((S \ {x}) \cup {y}) = Cardinality(S \ {x}) + 1
    BY <1>3, <1>4, FS_AddElement
  <2> QED BY <1>1, <1>3, <1>4, <2>1
<1>5. T = S \cup {x} => Cardinality(S) <= Cardinality(T)
  BY <1>1, <1>2
<1>6. T = S \cup {x} /\ x \notin S => Cardinality(T) = Cardinality(S) + 1
  BY <1>2
<1>7. T = S \ {x} /\ x \in S => Cardinality(T) = Cardinality(S) - 1
  BY <1>3
<1>8. T = (S \ {x}) \cup {y} /\ x \in S /\ y \notin S => Cardinality(T) = Cardinality(S)
  BY <1>4
<1> QED BY <1>1, <1>5, <1>6, <1>7, <1>8

(* One step keeps NoLostWakeup. *)
LEMMA NoLostWakeupStep ==
  ASSUME QInv, NoLostWakeup, [Next]_vars
  PROVE  NoLostWakeup'
<1> USE DEF NoLostWakeup, QInv, TypeOK, Goto
<1>1. IsFiniteSet(Serving) /\ Serving \subseteq Threads
  BY QueueAssumption, FS_Subset DEF QueueAssumption, Serving
<1>2. Len(data_queue) \in Nat /\ Cardinality(Serving) \in Nat /\ throws \in Nat
  BY <1>1, ServingCounts, LenProperties
<1>3. ASSUME data_queue' = data_queue, throws' = throws, data_cond' \subseteq data_cond,
             \/ Serving' = Serving
             \/ \E x : Serving' = Serving \cup {x}
             \/ \E x, y : x \in Serving /\ y \notin Serving
                          /\ Serving' = (Serving \ {x}) \cup {y}
      PROVE  NoLostWakeup'
  <2>1. Cardinality(Serving) <= Cardinality(Serving')
    <3>1. CASE Serving' = Serving
      BY <3>1, <1>2
    <3>2. ASSUME NEW x, Serving' = Serving \cup {x}
          PROVE  Cardinality(Serving) <= Cardinality(Serving')
      BY <3>2, <1>1, ServingCounts
    <3>3. ASSUME NEW x, NEW y, x \in Serving, y \notin Serving,
                 Serving' = (Serving \ {x}) \cup {y}
          PROVE  Cardinality(Serving) <= Cardinality(Serving')
      <4>1. Cardinality(Serving') = Cardinality(Serving)
        BY <3>3, <1>1, ServingCounts
      <4> QED BY <4>1, <1>2
    <3> QED BY <3>1, <3>2, <3>3, <1>3
  <2>2. Cardinality(Serving') \in Nat
    <3>1. IsFiniteSet(Serving')
      BY QueueAssumption, FS_Subset DEF QueueAssumption, Serving
    <3> QED BY <3>1, FS_CardinalityType
  <2>3. data_cond' # {} => data_cond # {}
    BY <1>3
  <2> QED BY <1>2, <1>3, <2>1, <2>2, <2>3
<1>4. CASE UNCHANGED vars
  <2>1. data_cond' = data_cond /\ Serving' = Serving
    BY <1>4 DEF vars, data_cond, Serving
  <2> QED BY <1>3, <1>4, <2>1 DEF vars
<1>5. ASSUME NEW t \in Threads, NEW o \in Ops, NEW v \in Values \cup {NoValue}, Call(t, o, v)
      PROVE  NoLostWakeup'
  <2>1. data_cond' \subseteq data_cond /\ Serving' = Serving
    BY <1>5 DEF Call, data_cond, Serving
  <2> QED BY <1>3, <1>5, <2>1 DEF Call
<1>6. ASSUME NEW t \in Threads, WakeSpuriously(t) PROVE NoLostWakeup'
  <2>1. data_cond' \subseteq data_cond /\ Serving' = Serving \cup {t}
    BY <1>6 DEF WakeSpuriously, data_cond, Serving
  <2> QED BY <1>3, <1>6, <2>1 DEF WakeSpuriously
<1>7. ASSUME NEW t \in Threads, Step(t) PROVE NoLostWakeup'
  <2>1. CASE Lock(t)
    <3>1. data_cond' \subseteq data_cond
      BY <2>1 DEF Lock, data_cond
    <3>2. Serving' = Serving \/ Serving' = Serving \cup {t}
      BY <2>1, <1>7 DEF Lock, Serving, OpAtLabel
    <3> QED BY <1>3, <2>1, <3>1, <3>2 DEF Lock
  <2>2. CASE Push(t)
    <3>1. data_cond' \subseteq data_cond /\ Serving' = Serving \cup {t} /\ t \notin Serving
      BY <2>2 DEF Push, data_cond, Serving
    <3>2. Len(data_queue') = Len(data_queue) + 1 /\ throws' = throws
      <4>1. val[t] \in Values /\ data_queue \in Seq(Values)
        BY <2>2 DEF Push, ValAtLabel, OpAtLabel
      <4> QED BY <2>2, <4>1, AppendProperties DEF Push
    <3>3. Cardinality(Serving') = Cardinality(Serving) + 1
      BY <1>1, <3>1, ServingCounts
    <3> QED BY <1>2, <3>1, <3>2, <3>3
  <2>3. CASE NotifyOne(t)
    <3>1. CASE data_cond = {}
      <4>1. data_cond' = {}
        BY <2>3, <3>1 DEF NotifyOne, data_cond
      <4> QED BY <4>1
    <3>2. ASSUME NEW w \in data_cond, pc' = [pc EXCEPT ![t] = "unlock", ![w] = "relock"]
          PROVE  NoLostWakeup'
      <4>1. data_cond' \subseteq data_cond
        BY <2>3, <3>2 DEF NotifyOne, data_cond
      <4>2. t \in Serving /\ w \notin Serving
        BY <2>3 DEF NotifyOne, data_cond, Serving
      <4>3. Serving' = (Serving \ {t}) \cup {w}
        BY <2>3, <3>2 DEF NotifyOne, data_cond, Serving
      <4> QED BY <1>3, <2>3, <4>1, <4>2, <4>3 DEF NotifyOne
    <3> QED BY <2>3, <3>1, <3>2 DEF NotifyOne
  <2>4. CASE FindValue(t) \/ CopyFront(t)
    <3>1. data_cond' \subseteq data_cond /\ Serving' = Serving
      BY <2>4 DEF FindValue, CopyFront, data_cond, Serving
    <3> QED BY <1>3, <2>4, <3>1 DEF FindValue, CopyFront
  <2>5. CASE FindEmpty(t) \/ Wait(t)
    <3>1. Len(data_queue') = 0 /\ throws' \in Nat
      BY <2>5 DEF FindEmpty, Wait
    <3>2. IsFiniteSet(Serving')
      BY QueueAssumption, FS_Subset DEF QueueAssumption, Serving
    <3> QED BY <3>1, <3>2, FS_CardinalityType
  <2>6. CASE Pop(t)
    <3>1. data_cond' \subseteq data_cond /\ Serving' = Serving \ {t} /\ t \in Serving
      BY <2>6 DEF Pop, data_cond, Serving
    <3>2. Len(data_queue') = Len(data_queue) - 1 /\ throws' = throws
      <4>1. data_queue \in Seq(Values) /\ data_queue # <<>>
        BY <2>6 DEF Pop, FrontStays
      <4> QED BY <2>6, <4>1, HeadTailProperties DEF Pop
    <3>3. Cardinality(Serving') = Cardinality(Serving) - 1
      BY <1>1, <3>1, ServingCounts
    <3> QED BY <1>2, <3>1, <3>2, <3>3
  <2>7. CASE Unlock(t)
    <3>1. data_cond' \subseteq data_cond /\ Serving' = Serving
      BY <2>7 DEF Unlock, data_cond, Serving
    <3> QED BY <1>3, <2>7, <3>1 DEF Unlock
  <2>8. CASE PushThrows(t)
    <3>1. data_cond' \subseteq data_cond /\ Serving' = Serving
      BY <2>8 DEF PushThrows, data_cond, Serving
    <3> QED BY <1>3, <2>8, <3>1 DEF PushThrows
  <2>9. CASE CopyThrows(t)
    <3>1. data_cond' \subseteq data_cond /\ Serving' = Serving \ {t} /\ t \in Serving
      BY <2>9 DEF CopyThrows, data_cond, Serving
    <3>2. data_queue' = data_queue /\ throws' = throws + 1
      BY <2>9 DEF CopyThrows
    <3>3. Cardinality(Serving') = Cardinality(Serving) - 1
      BY <1>1, <3>1, ServingCounts
    <3> QED BY <1>2, <3>1, <3>2, <3>3
  <2> QED BY <1>7, <2>1, <2>2, <2>3, <2>4, <2>5, <2>6, <2>7, <2>8, <2>9 DEF Step
<1> QED BY <1>4, <1>5, <1>6, <1>7 DEF Next

(* While a thread sleeps, every value in the queue is spoken for, but for  *)
(* one per copy that threw.                                                *)
THEOREM NoLostWakeupTheorem == Spec => []NoLostWakeup
<1>1. Init => NoLostWakeup
  BY DEF Init, NoLostWakeup, data_cond
<1>2. QInv /\ NoLostWakeup /\ [Next]_vars => NoLostWakeup'
  BY NoLostWakeupStep
<1> QED BY <1>1, <1>2, QueueInvariance, PTL DEF Spec

-----------------------------------------------------------------------------
(* threadsafe_queue implements the linearizable queue.                     *)

(* The functions that the refinement mapping substitutes. *)
PhaseMap == [t \in Threads |-> Phase(t)]
ResultMap == [t \in Threads |-> Result(t)]

(* A step after which only t's phase and result may differ. *)
LEMMA OnlyOneMoves ==
  ASSUME NEW t \in Threads,
         \A u \in Threads \ {t} : Phase(u)' = Phase(u) /\ Result(u)' = Result(u)
  PROVE  /\ PhaseMap' = [PhaseMap EXCEPT ![t] = Phase(t)']
         /\ ResultMap' = [ResultMap EXCEPT ![t] = Result(t)']
         /\ PhaseMap[t] = Phase(t) /\ ResultMap[t] = Result(t)
         /\ Phase(t)' = Phase(t) => PhaseMap' = PhaseMap
         /\ Result(t)' = Result(t) => ResultMap' = ResultMap
BY DEF PhaseMap, ResultMap

(* Locking, waiting, waking, testing and copying are invisible, and so is  *)
(* a throw until the call has unwound.                                     *)
LEMMA InvisibleRefines ==
  ASSUME QInv, NEW t \in Threads,
         \/ Lock(t) \/ NotifyOne(t) \/ FindValue(t) \/ Wait(t) \/ WakeSpuriously(t)
         \/ CopyFront(t) \/ PushThrows(t) \/ CopyThrows(t)
  PROVE  UNCHANGED Atomic!avars
<1> USE DEF QInv, TypeOK, Goto
<1> USE DEF Lock, NotifyOne, FindValue, Wait, WakeSpuriously, CopyFront,
            PushThrows, CopyThrows, data_cond
<1>1. data_queue' = data_queue /\ op' = op
  OBVIOUS
<1>2. \A u \in Threads : Phase(u)' = Phase(u)
  BY DEF Phase
<1>3. \A u \in Threads : Result(u)' = Result(u)
  BY <1>2, <1>1 DEF Result, Phase, OpAtLabel
<1> QED BY <1>1, <1>2, <1>3 DEF Atomic!avars

(* A call is an invocation. *)
LEMMA CallRefines ==
  ASSUME QInv, NEW t \in Threads, NEW o \in Ops, NEW v \in Values \cup {NoValue},
         Call(t, o, v)
  PROVE  Atomic!Invoke(t, o, v)
<1> USE DEF QInv, TypeOK, Goto, Call
<1>1. \A u \in Threads \ {t} : Phase(u)' = Phase(u) /\ Result(u)' = Result(u)
  BY DEF Phase, Result
<1>2. Phase(t) = "idle" /\ Phase(t)' = "pending"
  BY DEF Phase
<1>3. Result(t)' = v
  BY <1>2 DEF Result
<1> QED BY <1>1, <1>2, <1>3, OnlyOneMoves DEF Atomic!Invoke, PhaseMap, ResultMap

(* push takes effect at data_queue.push. *)
LEMMA PushRefines ==
  ASSUME QInv, NEW t \in Threads, Push(t)
  PROVE  Atomic!Enqueue(t)
<1> USE DEF QInv, TypeOK, Goto, Push
<1>1. \A u \in Threads \ {t} : Phase(u)' = Phase(u) /\ Result(u)' = Result(u)
  BY DEF Phase, Result
<1>2. Phase(t) = "pending" /\ Phase(t)' = "done" /\ op[t] = "push"
  BY DEF Phase, OpAtLabel
<1>3. Result(t) = val[t] /\ Result(t)' = Result(t)
  BY <1>2 DEF Result
<1> QED BY <1>1, <1>2, <1>3, OnlyOneMoves DEF Atomic!Enqueue, PhaseMap, ResultMap

(* A pop takes effect at data_queue.pop: what it copied before is still    *)
(* the front.                                                              *)
LEMMA PopRefines ==
  ASSUME QInv, NEW t \in Threads, Pop(t)
  PROVE  Atomic!Dequeue(t)
<1> USE DEF QInv, TypeOK, Goto, Pop
<1>1. \A u \in Threads \ {t} : Phase(u)' = Phase(u) /\ Result(u)' = Result(u)
  BY DEF Phase, Result
<1>2. Phase(t) = "pending" /\ Phase(t)' = "done" /\ op[t] # "push"
  BY DEF Phase, OpAtLabel
<1>3. Result(t)' = Head(data_queue) /\ data_queue # <<>>
  BY <1>2 DEF Result, FrontStays
<1> QED BY <1>1, <1>2, <1>3, OnlyOneMoves DEF Atomic!Dequeue, PhaseMap, ResultMap

(* A failing try_pop takes effect at its test. *)
LEMMA EmptyRefines ==
  ASSUME QInv, NEW t \in Threads, FindEmpty(t)
  PROVE  Atomic!FindEmpty(t)
<1> USE DEF QInv, TypeOK, Goto, FindEmpty
<1>1. \A u \in Threads \ {t} : Phase(u)' = Phase(u) /\ Result(u)' = Result(u)
  BY DEF Phase, Result
<1>2. Phase(t) = "pending" /\ Phase(t)' = "done"
  BY DEF Phase
<1>3. Result(t)' = Result(t)
  BY <1>2 DEF Result, ValAtLabel
<1> QED BY <1>1, <1>2, <1>3, OnlyOneMoves DEF Atomic!FindEmpty, PhaseMap, ResultMap

(* Leaving the call is a return, or the abort of a call that threw. *)
LEMMA UnlockRefines ==
  ASSUME QInv, NEW t \in Threads, Unlock(t)
  PROVE  Atomic!Return(t) \/ Atomic!Abort(t)
<1> USE DEF QInv, TypeOK, Goto, Unlock
<1>1. \A u \in Threads \ {t} : Phase(u)' = Phase(u) /\ Result(u)' = Result(u)
  BY DEF Phase, Result
<1>2. Phase(t) \in {"pending", "done"} /\ Phase(t)' = "idle"
  BY DEF Phase
<1>3. Result(t)' = NoValue
  BY <1>2 DEF Result
<1> QED BY <1>1, <1>2, <1>3, OnlyOneMoves
        DEF Atomic!Return, Atomic!Abort, PhaseMap, ResultMap

(* The theorem: every behaviour of the code is one of the abstract queue. *)
THEOREM ImplementsAtomicQueueTheorem == Spec => ImplementsAtomicQueue
<1>1. Init => Atomic!AInit
  BY DEF Init, Atomic!AInit, Phase, Result
<1>2. QInv /\ [Next]_vars => [Atomic!ANext]_(Atomic!avars)
  <2>1. CASE UNCHANGED vars
    BY <2>1 DEF vars, Atomic!avars, Phase, Result
  <2>2. ASSUME QInv, NEW t \in Threads, NEW o \in Ops, NEW v \in Values \cup {NoValue},
               Call(t, o, v)
        PROVE  Atomic!ANext
    BY <2>2, CallRefines DEF Atomic!ANext, Atomic!Ops, Ops
  <2>3. ASSUME QInv, NEW t \in Threads, Step(t) \/ WakeSpuriously(t)
        PROVE  [Atomic!ANext]_(Atomic!avars)
    BY <2>3, InvisibleRefines, PushRefines, PopRefines, EmptyRefines, UnlockRefines
       DEF Step, Atomic!ANext
  <2> QED BY <2>1, <2>2, <2>3 DEF Next
<1> QED BY <1>1, <1>2, QueueInvariance, PTL DEF Spec, ImplementsAtomicQueue, Atomic!ASpec
=============================================================================
