----------------------------- MODULE AtomicQueue -----------------------------
(***************************************************************************)
(* What threadsafe_queue promises its callers: every call takes effect in  *)
(* one indivisible step somewhere between its invocation and its return,   *)
(* on one first-in first-out queue (linearizability).  There is no mutex   *)
(* and no condition variable here.                                         *)
(***************************************************************************)
EXTENDS Sequences

CONSTANTS
  Threads,    \* the threads that call the queue
  Values,     \* the values of type T
  NoValue     \* "false" of try_pop(T&), the empty shared_ptr of try_pop()

VARIABLES
  items,      \* the abstract queue
  phase,      \* "idle", "pending" (invoked) or "done" (took effect)
  op,         \* the operation a thread is in
  val         \* the argument of a push, the result of a pop

avars == <<items, phase, op, val>>

Ops == {"push", "try_pop", "wait_and_pop"}

AInit ==
  /\ items = <<>>
  /\ phase = [t \in Threads |-> "idle"]
  /\ op = [t \in Threads |-> "push"]
  /\ val = [t \in Threads |-> NoValue]

(* A thread invokes operation o; v is the argument of a push. *)
Invoke(t, o, v) ==
  /\ phase[t] = "idle"
  /\ v \in (IF o = "push" THEN Values ELSE {NoValue})
  /\ phase' = [phase EXCEPT ![t] = "pending"]
  /\ op' = [op EXCEPT ![t] = o]
  /\ val' = [val EXCEPT ![t] = v]
  /\ UNCHANGED items

(* The value enters the queue at its tail. *)
Enqueue(t) ==
  /\ phase[t] = "pending"
  /\ op[t] = "push"
  /\ items' = Append(items, val[t])
  /\ phase' = [phase EXCEPT ![t] = "done"]
  /\ UNCHANGED <<op, val>>

(* Either kind of pop takes the oldest value. *)
Dequeue(t) ==
  /\ phase[t] = "pending"
  /\ op[t] # "push"
  /\ items # <<>>
  /\ items' = Tail(items)
  /\ val' = [val EXCEPT ![t] = Head(items)]
  /\ phase' = [phase EXCEPT ![t] = "done"]
  /\ UNCHANGED op

(* Only try_pop may report an empty queue, and only when it is empty. *)
FindEmpty(t) ==
  /\ phase[t] = "pending"
  /\ op[t] = "try_pop"
  /\ items = <<>>
  /\ phase' = [phase EXCEPT ![t] = "done"]
  /\ UNCHANGED <<items, op, val>>

(* A call that throws has no effect on the queue. *)
Abort(t) ==
  /\ phase[t] = "pending"
  /\ phase' = [phase EXCEPT ![t] = "idle"]
  /\ val' = [val EXCEPT ![t] = NoValue]
  /\ UNCHANGED <<items, op>>

Return(t) ==
  /\ phase[t] = "done"
  /\ phase' = [phase EXCEPT ![t] = "idle"]
  /\ val' = [val EXCEPT ![t] = NoValue]
  /\ UNCHANGED <<items, op>>

ANext ==
  \E t \in Threads :
    \/ \E o \in Ops, v \in Values \cup {NoValue} : Invoke(t, o, v)
    \/ Enqueue(t) \/ Dequeue(t) \/ FindEmpty(t) \/ Abort(t) \/ Return(t)

ASpec == AInit /\ [][ANext]_avars
=============================================================================
