--------------------------- MODULE RegistryUpdate ---------------------------
(***************************************************************************)
(* The program of 3.2.7_HierarchicalMutex.cpp: each thread runs            *)
(* update_user_balance(user_name, amount) once, which locks                *)
(* high_level_mutex, finds the user in the global registry, locks          *)
(* low_level_mutex, adds the amount and unlocks in reverse.  `balance +=   *)
(* amount` is a read and a write.                                          *)
(*                                                                         *)
(* The names the threads pass are those main has added before it starts    *)
(* them (for another name, find returns nullptr and the function           *)
(* dereferences it); find reads no more than the names and is one step     *)
(* with the call that follows it.                                          *)
(***************************************************************************)
EXTENDS HierarchicalMutex, FiniteSets, Functions

CONSTANTS
  high_level_mutex,
  low_level_mutex,
  Users,            \* the users in the registry
  Amounts,          \* the amounts a thread may be started with
  InitialBalance    \* the balance main gives each user

ASSUME RegistryAssumption ==
  /\ IsFiniteSet(Threads)
  /\ {high_level_mutex, low_level_mutex} \subseteq Mutexes
  /\ high_level_mutex # low_level_mutex
  /\ Amounts \subseteq Int
  /\ InitialBalance \in Int

VARIABLES
  at,         \* the next statement of each thread
  argument,   \* its arguments: the user found by user_name, and the amount
  balance,    \* user->balance
  read        \* what a thread has read of it

rvars == <<at, argument, balance, read>>

RInit ==
  /\ Init
  /\ at = [t \in Threads |-> "lock high"]
  /\ argument \in [Threads -> [user : Users, amount : Amounts]]
  /\ balance = [u \in Users |-> InitialBalance]
  /\ read = [t \in Threads |-> 0]

(* The statement `here` of the program is over, the next one is `there`. *)
Advance(t, here, there) ==
  /\ pc[t] = "idle"
  /\ at[t] = here
  /\ at' = [at EXCEPT ![t] = there]

(* m.lock(): were it refused, the exception would leave the thread. *)
LockOf(t, m, here, there) ==
  /\ \/ CallLock(t, m) /\ pc'[t] = "lock"
     \/ RefuseLock(t, m)
  /\ Advance(t, here, IF Violation(t, m) THEN "terminated" ELSE there)
  /\ UNCHANGED <<argument, balance, read>>

(* m.unlock(), likewise. *)
UnlockOf(t, m, here, there) ==
  /\ CallUnlock(t, m) \/ RefuseUnlock(t, m)
  /\ Advance(t, here, IF thv[t] # hv[m] THEN "terminated" ELSE there)
  /\ UNCHANGED <<argument, balance, read>>

LockHigh(t) == LockOf(t, high_level_mutex, "lock high", "lock low")

LockLow(t) == LockOf(t, low_level_mutex, "lock low", "read")

ReadBalance(t) ==
  /\ Advance(t, "read", "write")
  /\ read' = [read EXCEPT ![t] = balance[argument[t].user]]
  /\ UNCHANGED <<vars, argument, balance>>

WriteBalance(t) ==
  /\ Advance(t, "write", "unlock low")
  /\ balance' = [balance EXCEPT ![argument[t].user] = read[t] + argument[t].amount]
  /\ UNCHANGED <<vars, argument, read>>

UnlockLow(t) == UnlockOf(t, low_level_mutex, "unlock low", "unlock high")

UnlockHigh(t) == UnlockOf(t, high_level_mutex, "unlock high", "returned")

LibraryStep(t) == Step(t) /\ UNCHANGED rvars

ThreadStep(t) ==
  \/ LockHigh(t) \/ LockLow(t) \/ ReadBalance(t) \/ WriteBalance(t)
  \/ UnlockLow(t) \/ UnlockHigh(t) \/ LibraryStep(t)

(* main joins the threads when all have returned. *)
Joined == \A t \in Threads : at[t] = "returned" /\ pc[t] = "idle"

RNext == \/ \E t \in Threads : ThreadStep(t)
         \/ Joined /\ UNCHANGED <<vars, rvars>>

RSpec == RInit /\ [][RNext]_<<vars, rvars>>

(* The threads are scheduled; main joins all of them. *)
RFairSpec == RSpec /\ \A t \in Threads : WF_<<vars, rvars>>(ThreadStep(t))

-----------------------------------------------------------------------------

(* The threads that have updated the balance of u. *)
Updated(u) ==
  {t \in Threads : argument[t].user = u /\ at[t] \in {"unlock low", "unlock high", "returned"}}

(* No update is lost: each balance is the initial one plus the amounts of  *)
(* all threads that have written it.                                       *)
NoLostUpdate ==
  \A u \in Users :
    balance[u] = InitialBalance +
      SumFunctionOnSet([t \in Threads |-> argument[t].amount], Updated(u))

(* No thread is refused a lock or an unlock, so none ends by an exception  *)
(* while it holds a mutex.                                                 *)
NoneTerminated == \A t \in Threads : at[t] # "terminated"

(* main returns from its joins: no thread is refused, and none waits for   *)
(* ever for a mutex.                                                       *)
MainReturns == <>Joined
=============================================================================
