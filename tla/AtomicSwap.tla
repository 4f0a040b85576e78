----------------------------- MODULE AtomicSwap -----------------------------
(***************************************************************************)
(* What the friend function swap(X& lhs, X& rhs) promises: the details of  *)
(* the two objects change places in one indivisible step between the call  *)
(* and its return, and nothing happens when both are the same object.      *)
(***************************************************************************)
CONSTANTS
  Threads,
  Objects,      \* the instances of X; a detail is named by its first object
  NoObject      \* an argument of a call that is over

VARIABLES
  some_detail,  \* the detail of each object
  phase,        \* "idle", "pending" (called) or "done" (took effect)
  pair          \* the arguments <<lhs, rhs>> of each thread's last call

avars == <<some_detail, phase, pair>>

AInit ==
  /\ some_detail = [x \in Objects |-> x]
  /\ phase = [t \in Threads |-> "idle"]
  /\ pair = [t \in Threads |-> <<NoObject, NoObject>>]

Invoke(t, p) ==
  /\ phase[t] = "idle"
  /\ phase' = [phase EXCEPT ![t] = "pending"]
  /\ pair' = [pair EXCEPT ![t] = p]
  /\ UNCHANGED some_detail

Exchange(t) ==
  /\ phase[t] = "pending"
  /\ pair[t][1] # pair[t][2]
  /\ phase' = [phase EXCEPT ![t] = "done"]
  /\ some_detail' = [some_detail EXCEPT ![pair[t][1]] = some_detail[pair[t][2]],
                                        ![pair[t][2]] = some_detail[pair[t][1]]]
  /\ UNCHANGED pair

(* From "done", or from "pending" if there is nothing to exchange. *)
Return(t) ==
  /\ phase[t] = "done" \/ (phase[t] = "pending" /\ pair[t][1] = pair[t][2])
  /\ phase' = [phase EXCEPT ![t] = "idle"]
  /\ pair' = [pair EXCEPT ![t] = <<NoObject, NoObject>>]
  /\ UNCHANGED some_detail

ANext == \E t \in Threads :
  \/ \E p \in Objects \X Objects : Invoke(t, p)
  \/ Exchange(t) \/ Return(t)

ASpec == AInit /\ [][ANext]_avars
=============================================================================
