--------------------------- MODULE ThreadSafeQueue ---------------------------
(***************************************************************************)
(* threadsafe_queue<T> of Chapter 4 (threadSafeQueue.cpp): a std::queue    *)
(* guarded by the mutex `mut`, with the condition variable `data_cond` on  *)
(* which wait_and_pop sleeps until a push notifies it.                     *)
(*                                                                         *)
(* Any number of threads call push, try_pop and wait_and_pop in any order. *)
(* The T& and the shared_ptr overload of a pop take the same steps (test,  *)
(* copy the front, pop, unlock) and are one operation here: the first      *)
(* signals an empty queue by `false`, the second by an empty pointer, both *)
(* NoValue.  The copy, which may throw, is the assignment to `value` in    *)
(* the first and std::make_shared in the second.                           *)
(*                                                                         *)
(* The copy constructor, the move constructor and empty() are not modelled:*)
(* lines 35, 43 and 103 are ill-formed for every T the queue can hold, so  *)
(* no program contains a call of one of them.                              *)
(***************************************************************************)
EXTENDS Naturals, Sequences, FiniteSets

CONSTANTS
  Threads,      \* the threads that share the queue
  Values,       \* the values of type T
  NoThread,     \* mut is free
  NoValue,      \* no result: false, or the empty shared_ptr
  MaxCalls,     \* bound: how many calls each thread makes
  MaxSpurious   \* bound: how many spurious wakeups occur in all

ASSUME QueueAssumption ==
  /\ IsFiniteSet(Threads)
  /\ NoThread \notin Threads
  /\ NoValue \notin Values
  /\ MaxCalls \in Nat
  /\ MaxSpurious \in Nat

VARIABLES
  mut,          \* the thread that holds the mutex, or NoThread
  data_queue,   \* the std::queue<T>
  pc,           \* where each thread is
  op,           \* the operation it is in, or was last in
  val,          \* new_value of a push; the copied front, or NoValue, of a pop
  calls,        \* how many calls each thread has made
  spurious,     \* how many spurious wakeups have occurred
  throws        \* how many copies of a front have thrown

vars == <<mut, data_queue, pc, op, val, calls, spurious, throws>>

Ops == {"push", "try_pop", "wait_and_pop"}

Labels == {"idle",      \* outside the queue
           "lock",      \* at the constructor of the lock
           "push",      \* holds mut: before data_queue.push
           "notify",    \* holds mut: before data_cond.notify_one
           "test",      \* holds mut: about to look whether the queue is empty
           "waiting",   \* asleep in data_cond.wait, without mut
           "relock",    \* woken in data_cond.wait, taking mut again
           "front",     \* holds mut: before the copy of data_queue.front
           "pop",       \* holds mut: before data_queue.pop
           "unlock",    \* holds mut: the call took effect, before the unlock
           "unwind"}    \* holds mut: an exception is leaving the call

(* The labels at which a thread owns mut. *)
Inside == {"push", "notify", "test", "front", "pop", "unlock", "unwind"}

(* The threads asleep on the condition variable. *)
data_cond == {t \in Threads : pc[t] = "waiting"}

Init ==
  /\ mut = NoThread
  /\ data_queue = <<>>
  /\ pc = [t \in Threads |-> "idle"]
  /\ op = [t \in Threads |-> "push"]
  /\ val = [t \in Threads |-> NoValue]
  /\ calls = [t \in Threads |-> 0]
  /\ spurious = 0
  /\ throws = 0

Goto(t, label) == pc' = [pc EXCEPT ![t] = label]

(* A thread calls operation o, a push with any new_value. *)
Call(t, o, v) ==
  /\ pc[t] = "idle"
  /\ calls[t] < MaxCalls
  /\ v \in (IF o = "push" THEN Values ELSE {NoValue})
  /\ Goto(t, "lock")
  /\ op' = [op EXCEPT ![t] = o]
  /\ val' = [val EXCEPT ![t] = v]
  /\ calls' = [calls EXCEPT ![t] = @ + 1]
  /\ UNCHANGED <<mut, data_queue, spurious, throws>>

(* Mutant: the lock does not exclude. *)
LockNothing(t) ==
  /\ pc[t] \in {"lock", "relock"}
  /\ mut' = t
  /\ Goto(t, IF op[t] = "push" THEN "push" ELSE "test")
  /\ UNCHANGED <<data_queue, op, val, calls, spurious, throws>>

(* The constructor of the lock, or the end of data_cond.wait, takes mut. *)
Lock(t) ==
  /\ pc[t] \in {"lock", "relock"}
  /\ mut = NoThread
  /\ mut' = t
  /\ Goto(t, IF op[t] = "push" THEN "push" ELSE "test")
  /\ UNCHANGED <<data_queue, op, val, calls, spurious, throws>>

(* Mutant: new_value was moved from before it is pushed. *)
PushMovedFrom(t) ==
  /\ pc[t] = "push"
  /\ data_queue' = Append(data_queue, NoValue)
  /\ Goto(t, "notify")
  /\ UNCHANGED <<mut, op, val, calls, spurious, throws>>

(* Mutant: the container is a stack. *)
PushOnTop(t) ==
  /\ pc[t] = "push"
  /\ data_queue' = <<val[t]>> \o data_queue
  /\ Goto(t, "notify")
  /\ UNCHANGED <<mut, op, val, calls, spurious, throws>>

(* Mutant: push returns without a notification. *)
PushSilently(t) ==
  /\ pc[t] = "push"
  /\ data_queue' = Append(data_queue, val[t])
  /\ Goto(t, "unlock")
  /\ UNCHANGED <<mut, op, val, calls, spurious, throws>>

(* data_queue.push(new_value) *)
Push(t) ==
  /\ pc[t] = "push"
  /\ data_queue' = Append(data_queue, val[t])
  /\ Goto(t, "notify")
  /\ UNCHANGED <<mut, op, val, calls, spurious, throws>>

(* data_queue.push throws and leaves the queue as it was. *)
PushThrows(t) ==
  /\ pc[t] = "push"
  /\ Goto(t, "unwind")
  /\ UNCHANGED <<mut, data_queue, op, val, calls, spurious, throws>>

(* Mutant: notifies only the push that made the queue nonempty. *)
NotifyIfWasEmpty(t) ==
  /\ pc[t] = "notify"
  /\ \/ /\ data_cond = {} \/ Len(data_queue) > 1
        /\ Goto(t, "unlock")
     \/ \E w \in data_cond :
          /\ Len(data_queue) = 1
          /\ pc' = [pc EXCEPT ![t] = "unlock", ![w] = "relock"]
  /\ UNCHANGED <<mut, data_queue, op, val, calls, spurious, throws>>

(* data_cond.notify_one(): wakes one sleeping thread, if there is one. *)
NotifyOne(t) ==
  /\ pc[t] = "notify"
  /\ \/ /\ data_cond = {}
        /\ Goto(t, "unlock")
     \/ \E w \in data_cond :
          pc' = [pc EXCEPT ![t] = "unlock", ![w] = "relock"]
  /\ UNCHANGED <<mut, data_queue, op, val, calls, spurious, throws>>

(* The predicate of data_cond.wait, or the test of try_pop, finds a value. *)
FindValue(t) ==
  /\ pc[t] = "test"
  /\ data_queue # <<>>
  /\ Goto(t, "front")
  /\ UNCHANGED <<mut, data_queue, op, val, calls, spurious, throws>>

(* Mutant: try_pop returns early and leaves mut locked. *)
FindEmptyKeepsLock(t) ==
  /\ pc[t] = "test"
  /\ op[t] = "try_pop"
  /\ data_queue = <<>>
  /\ Goto(t, "idle")
  /\ UNCHANGED <<mut, data_queue, op, val, calls, spurious, throws>>

(* try_pop finds the queue empty and gives up. *)
FindEmpty(t) ==
  /\ pc[t] = "test"
  /\ op[t] = "try_pop"
  /\ data_queue = <<>>
  /\ Goto(t, "unlock")
  /\ UNCHANGED <<mut, data_queue, op, val, calls, spurious, throws>>

(* data_cond.wait unlocks mut and puts the thread to sleep in one step. *)
Wait(t) ==
  /\ pc[t] = "test"
  /\ op[t] = "wait_and_pop"
  /\ data_queue = <<>>
  /\ mut' = NoThread
  /\ Goto(t, "waiting")
  /\ UNCHANGED <<data_queue, op, val, calls, spurious, throws>>

(* A sleeping thread may wake although nobody notified it. *)
WakeSpuriously(t) ==
  /\ pc[t] = "waiting"
  /\ spurious < MaxSpurious
  /\ spurious' = spurious + 1
  /\ Goto(t, "relock")
  /\ UNCHANGED <<mut, data_queue, op, val, calls, throws>>

(* value = data_queue.front(), or make_shared<T>(data_queue.front()) *)
CopyFront(t) ==
  /\ pc[t] = "front"
  /\ val' = [val EXCEPT ![t] = Head(data_queue)]
  /\ Goto(t, "pop")
  /\ UNCHANGED <<mut, data_queue, op, calls, spurious, throws>>

(* Mutant: the value is popped before it is copied, so a throw loses it. *)
CopyThrowsAfterPop(t) ==
  /\ pc[t] = "front"
  /\ data_queue' = Tail(data_queue)
  /\ throws' = throws + 1
  /\ Goto(t, "unwind")
  /\ UNCHANGED <<mut, op, val, calls, spurious>>

(* The copy throws: the value stays at the front of the queue. *)
CopyThrows(t) ==
  /\ pc[t] = "front"
  /\ throws' = throws + 1
  /\ Goto(t, "unwind")
  /\ UNCHANGED <<mut, data_queue, op, val, calls, spurious>>

(* data_queue.pop() *)
Pop(t) ==
  /\ pc[t] = "pop"
  /\ data_queue' = Tail(data_queue)
  /\ Goto(t, "unlock")
  /\ UNCHANGED <<mut, op, val, calls, spurious, throws>>

(* The lock is destroyed, by a return or by the exception that unwinds. *)
Unlock(t) ==
  /\ pc[t] \in {"unlock", "unwind"}
  /\ mut' = NoThread
  /\ val' = [val EXCEPT ![t] = NoValue]
  /\ Goto(t, "idle")
  /\ UNCHANGED <<data_queue, op, calls, spurious, throws>>

(* The steps a thread takes by itself once it is inside a call. *)
Step(t) ==
  \/ Lock(t) \/ Push(t) \/ PushThrows(t) \/ NotifyOne(t)
  \/ FindValue(t) \/ FindEmpty(t) \/ Wait(t)
  \/ CopyFront(t) \/ CopyThrows(t) \/ Pop(t) \/ Unlock(t)

Next ==
  \E t \in Threads :
    \/ \E o \in Ops, v \in Values \cup {NoValue} : Call(t, o, v)
    \/ WakeSpuriously(t)
    \/ Step(t)

Spec == Init /\ [][Next]_vars

(* A thread inside a call is scheduled again and again; nobody has to make *)
(* another call, and no wakeup is spurious by necessity.                   *)
Fairness == \A t \in Threads : WF_vars(Step(t))

FairSpec == Spec /\ Fairness

-----------------------------------------------------------------------------

(* The type of every variable. *)
TypeOK ==
  /\ mut \in Threads \cup {NoThread}
  /\ data_queue \in Seq(Values)
  /\ pc \in [Threads -> Labels]
  /\ op \in [Threads -> Ops]
  /\ val \in [Threads -> Values \cup {NoValue}]
  /\ calls \in [Threads -> 0..MaxCalls]
  /\ spurious \in 0..MaxSpurious
  /\ throws \in Nat

(* Only the owner of mut is between a lock and its unlock: every access of *)
(* data_queue is made with mut held, also after a wakeup in wait_and_pop.  *)
QueueGuarded == \A t \in Threads : pc[t] \in Inside <=> mut = t

(* The threads that are about to take a value, or to wake one that will. *)
Serving == {t \in Threads : pc[t] \in {"notify", "relock", "test", "front", "pop"}}

(* No wakeup is lost but by a throw: while a thread sleeps in              *)
(* wait_and_pop, for every value in the queue there is an awake thread     *)
(* that will take it or notify a sleeper about it, or a copy that threw    *)
(* after it had been notified.                                             *)
NoLostWakeup ==
  data_cond # {} => Len(data_queue) <= Cardinality(Serving) + throws

(* push and try_pop return: neither blocks for good on mut. *)
CallReturns ==
  \A t \in Threads :
    (pc[t] = "lock" /\ op[t] # "wait_and_pop") ~> (pc[t] = "idle")

(* A thread sleeps in wait_and_pop while the queue holds a value. *)
Stranded == data_cond # {} /\ data_queue # <<>>

(* "wait_and_pop() waits until there is a value to retrieve": no thread    *)
(* sleeps for ever while the queue holds a value it could take.            *)
StrandedValueIsTaken == Stranded ~> ~Stranded

(* The code keeps that promise as long as no copy of a front throws.       *)
StrandedOnlyByThrow == Stranded ~> (~Stranded \/ throws > 0)

-----------------------------------------------------------------------------

(* A push takes effect at data_queue.push, a pop at data_queue.pop or at   *)
(* the test that finds the queue empty.                                    *)
Phase(t) ==
  CASE pc[t] = "idle" -> "idle"
    [] pc[t] \in {"notify", "unlock"} -> "done"
    [] OTHER -> "pending"

(* The copied front becomes the result of the pop when the pop is done. *)
Result(t) == IF op[t] = "push" \/ Phase(t) = "done" THEN val[t] ELSE NoValue

Atomic == INSTANCE AtomicQueue WITH
            items <- data_queue,
            phase <- [t \in Threads |-> Phase(t)],
            op    <- op,
            val   <- [t \in Threads |-> Result(t)]

(* threadsafe_queue implements the linearizable queue: values leave in the *)
(* order in which they entered, none is lost, duplicated or read without   *)
(* being removed, try_pop reports an empty queue only when it is empty,    *)
(* and a call that throws leaves the queue unchanged.                      *)
ImplementsAtomicQueue == Atomic!ASpec
=============================================================================
