--------------------------- MODULE OrderedLocking ---------------------------
(***************************************************************************)
(* What hierachical_mutex promises: mutexes that exclude each other's      *)
(* holders, that a thread takes only in strictly descending order of their *)
(* hierarchy values and gives back lowest first; a call that would break   *)
(* the order throws and changes nothing.  Each call is one step, and       *)
(* neither the saved values nor the thread-local value appear.             *)
(***************************************************************************)
EXTENDS Integers

CONSTANTS
  Threads,
  Mutexes,
  hierarchy_value   \* [Mutexes -> Nat], fixed by the constructor

VARIABLES
  held,             \* the mutexes each thread holds
  thrown            \* "lock" or "unlock" if the thread's last call threw

ovars == <<held, thrown>>

OInit ==
  /\ held = [t \in Threads |-> {}]
  /\ thrown = [t \in Threads |-> "nothing"]

(* m lies strictly below everything t holds. *)
Below(t, m) == \A k \in held[t] : hierarchy_value[m] < hierarchy_value[k]

(* m is the lowest mutex t holds. *)
Lowest(t, m) == m \in held[t] /\ \A k \in held[t] : hierarchy_value[m] <= hierarchy_value[k]

Outcome(t, what) == thrown' = [thrown EXCEPT ![t] = what]

Acquire(t, m) ==
  /\ Below(t, m)
  /\ \A u \in Threads : m \notin held[u]
  /\ held' = [held EXCEPT ![t] = @ \cup {m}]
  /\ Outcome(t, "nothing")

(* A try_lock that did not get the mutex. *)
Fail(t, m) ==
  /\ Below(t, m)
  /\ Outcome(t, "nothing")
  /\ UNCHANGED held

Release(t, m) ==
  /\ Lowest(t, m)
  /\ held' = [held EXCEPT ![t] = @ \ {m}]
  /\ Outcome(t, "nothing")

RefuseLock(t, m) ==
  /\ ~Below(t, m)
  /\ Outcome(t, "lock")
  /\ UNCHANGED held

RefuseUnlock(t, m) ==
  /\ ~Lowest(t, m)
  /\ Outcome(t, "unlock")
  /\ UNCHANGED held

ONext ==
  \E t \in Threads, m \in Mutexes :
    \/ Acquire(t, m) \/ Fail(t, m) \/ Release(t, m)
    \/ RefuseLock(t, m) \/ RefuseUnlock(t, m)

OSpec == OInit /\ [][ONext]_ovars
=============================================================================
