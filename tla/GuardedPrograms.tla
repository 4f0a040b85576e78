-------------------------- MODULE GuardedPrograms ---------------------------
(***************************************************************************)
(* The example programs of Chapter 3 that guard shared data with a mutex,  *)
(* a shared_mutex, a once_flag or nothing.  Each of their functions is a   *)
(* sequence of instructions: locking, access to shared data, and the test  *)
(* that lazy initialisation makes.  A behaviour runs one program, any of   *)
(* whose functions the threads call, in any order and number.              *)
(*                                                                         *)
(* A guard (lock_guard, scoped_lock, unique_lock, shared_lock) is an       *)
(* instruction where it locks and one where it unlocks; an exception       *)
(* unlocks what the call still holds.  The content of the data is the      *)
(* number of times it was written.                                         *)
(***************************************************************************)
EXTENDS Integers, Sequences, Functions

CONSTANTS
  Threads,
  NoThread,     \* a mutex has no exclusive owner, nobody runs an initialiser
  NoCall,       \* what a thread runs between two calls
  Programs,     \* the programs considered
  MaxCalls      \* how often each thread calls a function

-----------------------------------------------------------------------------

Lock(m)         == [op |-> "lock", at |-> m, skip |-> 0]
Unlock(m)       == [op |-> "unlock", at |-> m, skip |-> 0]
LockShared(m)   == [op |-> "lock_shared", at |-> m, skip |-> 0]
UnlockShared(m) == [op |-> "unlock_shared", at |-> m, skip |-> 0]
Read(x)         == [op |-> "read", at |-> x, skip |-> 0]
Write(x)        == [op |-> "write", at |-> x, skip |-> 0]
Copy(x)         == [op |-> "copy", at |-> x, skip |-> 0]     \* a read that may throw
Create(x)       == [op |-> "create", at |-> x, skip |-> 0]   \* a write that may throw
Unless(x, n)    == [op |-> "unless", at |-> x, skip |-> n]   \* if x is null, the next n
Once(f, n)      == [op |-> "once", at |-> f, skip |-> n]     \* call_once: the next n are the call
Done(f)         == [op |-> "done", at |-> f, skip |-> 0]     \* the callable has returned

(* A body with m locked from its beginning to its end. *)
Guarded(m, body) == <<Lock(m)>> \o body \o <<Unlock(m)>>

CallOnce(f, body) == <<Once(f, Len(body) + 1)>> \o body \o <<Done(f)>>

(* 3.1_ProtectingAListWithMutex *)
add_to_list   == Guarded("myMutex", <<Create("myList")>>)
list_contains == Guarded("myMutex", <<Read("myList")>>)

(* 3.2.0_StructuringCodeForProtectSharedData: the reference escapes *)
process_data(func) == Guarded("x.m", func)
evil_function      == <<Write("unprotected")>>
foo == process_data(evil_function) \o process_data(evil_function)
         \o <<Read("unprotected"), Write("x.data")>>

(* 3.2.6_AvoidingDeadlocks: lock and unlock of its mutexes do nothing *)
low_level_func  == <<Write("low_level")>>
high_level_func == low_level_func \o <<Write("high_level")>>
thread_a        == high_level_func
other_stuff     == high_level_func \o <<Write("other")>>
thread_b        == other_stuff

(* Mutant: push forgets its lock_guard. *)
push_unguarded == <<Create("data")>>

(* 3.2.4_ThreadSafeStack: both pops call empty() with m locked *)
push    == Guarded("m", <<Create("data")>>)
empty   == Guarded("m", <<Read("data")>>)
copy    == Guarded("m", <<Copy("data")>>)
pop_ref == Guarded("m", empty \o <<Read("data"), Write("data")>>)
pop_ptr == Guarded("m", empty \o <<Read("data"), Write("data")>>)

(* 3.3.1_TransferingMutexOwnership: the caller gets the lock *)
get_lock       == <<Lock("some_mutex"), Write("prepared")>>

(* Mutant: the caller releases the lock it got, which unlocks nothing. *)
process_released == get_lock \o <<Read("prepared")>>

process_locked == get_lock \o <<Read("prepared"), Unlock("some_mutex")>>

(* Mutant: the lock is not given up before it is taken again. *)
get_and_process_data_locked ==
  <<Lock("the_mutex"), Write("chunks"), Lock("the_mutex"), Write("results"), Unlock("the_mutex")>>

(* 3.3.2_LockAtAppropiateGranularity *)
get_and_process_data == Guarded("the_mutex", <<Write("chunks")>>)
                          \o Guarded("the_mutex", <<Write("results")>>)

(* 3.3.3_LockOnlyAMutexInComparisonOperator *)
get_detail(y)     == Guarded(y, <<Read(y)>>)
equal(lhs, rhs)   == IF lhs = rhs THEN <<>> ELSE get_detail(lhs) \o get_detail(rhs)

(* Mutant: the writer takes a shared_lock, as the reader does. *)
update_shared == <<LockShared("entry_mutex"), Create("entries"), UnlockShared("entry_mutex")>>

(* 3.3.4_ProtectCacheOfDNSQueries *)
find_entry          == <<LockShared("entry_mutex"), Read("entries"), UnlockShared("entry_mutex")>>
update_or_add_entry == Guarded("entry_mutex", <<Create("entries")>>)

(* 3.3.1_ProtectingDataDuringInitializetion: four ways to create a         *)
(* resource the first time it is used.  The shared_ptr that reset makes    *)
(* may fail to allocate as new may, and with the same effect.              *)
reset      == <<Create("resource"), Write("resource_ptr")>>
use        == <<Read("resource_ptr"), Read("resource")>>

(* if (!resource_ptr) resource_ptr.reset(new some_resource); *)
LazyReset == <<Unless("resource_ptr", Len(reset))>> \o reset

lazy_initialization_single_thread == LazyReset \o use

(* Mutant: the test is made before the lock and not again after it. *)
serialized_too_late ==
  <<Unless("resource_ptr", Len(reset) + 2)>> \o Guarded("resource_mutex", reset) \o use

unnecesary_serialized_protection == Guarded("resource_mutex", LazyReset) \o use

(* The first test races with the reset, so that a thread may see the       *)
(* pointer before it sees what it points to: the order of the two writes   *)
(* is either one.                                                          *)
DoubleChecked(body) ==
  <<Unless("resource_ptr", Len(body) + 2)>> \o Guarded("resource_mutex", body) \o use
double_checked_in_order  == DoubleChecked(LazyReset)
double_checked_reordered ==
  DoubleChecked(<<Unless("resource_ptr", 2), Write("resource_ptr"), Write("resource")>>)

well_managed_protected_initialization == CallOnce("resouce_flag", reset) \o use

(* 3.3.2_ThreadSafeLazyInitializationClassMember; the manager may throw *)
open_connection == <<Create("connection")>>
send_data       == CallOnce("connection_init_flag", open_connection) \o <<Read("connection")>>
receive_data    == CallOnce("connection_init_flag", open_connection) \o <<Read("connection")>>

(* 3.3.3_StaticVariableInitialization: the compiler guards the static *)
get_my_class_instance == CallOnce("guard_of_instance", <<Create("instance")>>)
                           \o <<Read("instance")>>

-----------------------------------------------------------------------------

(* The functions of each program that its threads may call. *)
Operations ==
  [list           |-> [add_to_list |-> add_to_list, list_contains |-> list_contains],
   wrapper        |-> [foo |-> foo],
   stack          |-> [push |-> push, empty |-> empty, copy |-> copy,
                       pop_ref |-> pop_ref, pop_ptr |-> pop_ptr],
   layered        |-> [thread_a |-> thread_a, thread_b |-> thread_b],
   ownership      |-> [process_data |-> process_locked],
   granularity    |-> [get_and_process_data |-> get_and_process_data],
   comparison     |-> [a_a |-> equal("a", "a"), a_b |-> equal("a", "b"), b_a |-> equal("b", "a")],
   dns            |-> [find_entry |-> find_entry, update_or_add_entry |-> update_or_add_entry],
   single_thread  |-> [lazy |-> lazy_initialization_single_thread],
   serialized     |-> [lazy |-> unnecesary_serialized_protection],
   double_checked |-> [in_order |-> double_checked_in_order,
                       reordered |-> double_checked_reordered],
   call_once      |-> [lazy |-> well_managed_protected_initialization],
   connection     |-> [send_data |-> send_data, receive_data |-> receive_data],
   static         |-> [get_my_class_instance |-> get_my_class_instance]]

Pops == {"pop_ref", "pop_ptr"}

ASSUME GuardedAssumption ==
  /\ NoThread \notin Threads
  /\ Programs \subseteq DOMAIN Operations
  /\ MaxCalls \in Nat
  /\ \A p \in Programs : NoCall \notin DOMAIN Operations[p]

(* What the instructions ops of all functions are about. *)
Subjects(ops) ==
  UNION {UNION {{i.at : i \in {j \in Range(Operations[p][f]) : j.op \in ops}} :
                  f \in DOMAIN Operations[p]} : p \in Programs}

Reads   == {"read", "copy", "unless"}
Writes  == {"write", "create"}
Mutexes == Subjects({"lock", "lock_shared"})
Flags   == Subjects({"once"})
Data    == Subjects(Reads \cup Writes)

VARIABLES
  program,  \* the program that runs
  fn,       \* the function each thread runs, or NoCall
  ip,       \* the instruction it is about to execute
  calls,    \* how many functions it has called
  owner,    \* the exclusive owner of each mutex, or NoThread
  sharers,  \* the threads that share each mutex
  runner,   \* the thread that runs the initialiser of each once_flag, or NoThread
  done,     \* the flags whose initialiser has returned
  data,     \* how often each datum was written
  seen      \* what each thread has read, and with what result, in a section
            \* (a mutex locked or an initialiser running) that it has not left

vars == <<program, fn, ip, calls, owner, sharers, runner, done, data, seen>>

Init ==
  /\ program \in Programs
  /\ fn = [t \in Threads |-> NoCall]
  /\ ip = [t \in Threads |-> 1]
  /\ calls = [t \in Threads |-> 0]
  /\ owner = [m \in Mutexes |-> NoThread]
  /\ sharers = [m \in Mutexes |-> {}]
  /\ runner = [f \in Flags |-> NoThread]
  /\ done = {}
  /\ data = [x \in Data |-> 0]
  /\ seen = [t \in Threads |-> {}]

(* The instruction a thread is about to execute. *)
Running(t)     == fn[t] # NoCall /\ ip[t] <= Len(Operations[program][fn[t]])
Instruction(t) == Operations[program][fn[t]][ip[t]]
At(t, op)      == Running(t) /\ Instruction(t).op = op
Subject(t)     == Instruction(t).at

Continue(t, n) ==
  /\ ip' = [ip EXCEPT ![t] = @ + n]
  /\ UNCHANGED <<program, fn, calls>>

EndCall(t) ==
  /\ fn' = [fn EXCEPT ![t] = NoCall]
  /\ ip' = [ip EXCEPT ![t] = 1]

InSection(t) ==
  \/ \E m \in Mutexes : owner[m] = t \/ t \in sharers[m]
  \/ \E f \in Flags : runner[f] = t

LeaveSection(t) == seen' = [seen EXCEPT ![t] = {}]

-----------------------------------------------------------------------------

(* A thread calls a function of the program; one of them is written for a  *)
(* program with a single thread.                                           *)
Call(t, f) ==
  /\ fn[t] = NoCall
  /\ calls[t] < MaxCalls
  /\ program = "single_thread" => \A u \in Threads \ {t} : calls[u] = 0
  /\ fn' = [fn EXCEPT ![t] = f]
  /\ calls' = [calls EXCEPT ![t] = @ + 1]
  /\ UNCHANGED <<program, ip, owner, sharers, runner, done, data, seen>>

(* Waits for the owner, itself included, and for all who share. *)
LockExclusive(t) ==
  /\ At(t, "lock")
  /\ owner[Subject(t)] = NoThread
  /\ sharers[Subject(t)] = {}
  /\ owner' = [owner EXCEPT ![Subject(t)] = t]
  /\ Continue(t, 1)
  /\ UNCHANGED <<sharers, runner, done, data, seen>>

UnlockExclusive(t) ==
  /\ At(t, "unlock")
  /\ owner' = [owner EXCEPT ![Subject(t)] = NoThread]
  /\ Continue(t, 1)
  /\ LeaveSection(t)
  /\ UNCHANGED <<sharers, runner, done, data>>

LockForReading(t) ==
  /\ At(t, "lock_shared")
  /\ owner[Subject(t)] = NoThread
  /\ sharers' = [sharers EXCEPT ![Subject(t)] = @ \cup {t}]
  /\ Continue(t, 1)
  /\ UNCHANGED <<owner, runner, done, data, seen>>

UnlockForReading(t) ==
  /\ At(t, "unlock_shared")
  /\ sharers' = [sharers EXCEPT ![Subject(t)] = @ \ {t}]
  /\ Continue(t, 1)
  /\ LeaveSection(t)
  /\ UNCHANGED <<owner, runner, done, data>>

(* What a thread reads in a section counts until it leaves the section. *)
Saw(t, x) ==
  seen' = IF InSection(t) THEN [seen EXCEPT ![t] = @ \cup {<<x, data[x]>>}] ELSE seen

ReadData(t) ==
  /\ At(t, "read") \/ At(t, "copy")
  /\ Saw(t, Subject(t))
  /\ Continue(t, 1)
  /\ UNCHANGED <<owner, sharers, runner, done, data>>

(* if (!ptr) ... *)
TestForNull(t) ==
  /\ At(t, "unless")
  /\ Saw(t, Subject(t))
  /\ Continue(t, IF data[Subject(t)] = 0 THEN 1 ELSE 1 + Instruction(t).skip)
  /\ UNCHANGED <<owner, sharers, runner, done, data>>

(* A write replaces what its own thread has seen of the datum. *)
WriteData(t) ==
  /\ At(t, "write") \/ At(t, "create")
  /\ data' = [data EXCEPT ![Subject(t)] = @ + 1]
  /\ seen' = [seen EXCEPT ![t] = {r \in @ : r[1] # Subject(t)}]
  /\ Continue(t, 1)
  /\ UNCHANGED <<owner, sharers, runner, done>>

(* Mutant: an initialiser that throws has run. *)
ThrowIsDone(t) ==
  /\ At(t, "create") \/ At(t, "copy")
  /\ owner' = [m \in Mutexes |-> IF owner[m] = t THEN NoThread ELSE owner[m]]
  /\ sharers' = [m \in Mutexes |-> sharers[m] \ {t}]
  /\ done' = done \cup {f \in Flags : runner[f] = t}
  /\ runner' = [f \in Flags |-> IF runner[f] = t THEN NoThread ELSE runner[f]]
  /\ EndCall(t)
  /\ LeaveSection(t)
  /\ UNCHANGED <<program, calls, data>>

(* Creating or copying an object, or storing one, throws: the call         *)
(* ends, its guards unlock, and call_once leaves the flag as if it had not *)
(* been called.                                                            *)
Throw(t) ==
  /\ At(t, "create") \/ At(t, "copy")
  /\ owner' = [m \in Mutexes |-> IF owner[m] = t THEN NoThread ELSE owner[m]]
  /\ sharers' = [m \in Mutexes |-> sharers[m] \ {t}]
  /\ runner' = [f \in Flags |-> IF runner[f] = t THEN NoThread ELSE runner[f]]
  /\ EndCall(t)
  /\ LeaveSection(t)
  /\ UNCHANGED <<program, calls, done, data>>

(* call_once: the first thread runs the initialiser, others wait for it;   *)
(* once it has returned nobody runs it again.                              *)
BeginOnce(t) ==
  /\ At(t, "once")
  /\ Subject(t) \notin done
  /\ runner[Subject(t)] = NoThread
  /\ runner' = [runner EXCEPT ![Subject(t)] = t]
  /\ Continue(t, 1)
  /\ UNCHANGED <<owner, sharers, done, data, seen>>

PassOnce(t) ==
  /\ At(t, "once")
  /\ Subject(t) \in done
  /\ Continue(t, 1 + Instruction(t).skip)
  /\ UNCHANGED <<owner, sharers, runner, done, data, seen>>

EndOnce(t) ==
  /\ At(t, "done")
  /\ done' = done \cup {Subject(t)}
  /\ runner' = [runner EXCEPT ![Subject(t)] = NoThread]
  /\ Continue(t, 1)
  /\ LeaveSection(t)
  /\ UNCHANGED <<owner, sharers, data>>

Return(t) ==
  /\ fn[t] # NoCall
  /\ ~Running(t)
  /\ EndCall(t)
  /\ UNCHANGED <<program, calls, owner, sharers, runner, done, data, seen>>

Step(t) ==
  \/ LockExclusive(t) \/ UnlockExclusive(t) \/ LockForReading(t) \/ UnlockForReading(t)
  \/ ReadData(t) \/ TestForNull(t) \/ WriteData(t) \/ Throw(t)
  \/ BeginOnce(t) \/ PassOnce(t) \/ EndOnce(t) \/ Return(t)

Next == \E t \in Threads :
  \/ \E f \in DOMAIN Operations[program] : Call(t, f)
  \/ Step(t)

(* Threads keep running the calls they made; they need not make any. *)
Spec == Init /\ [][Next]_vars /\ \A t \in Threads : WF_vars(Step(t))

-----------------------------------------------------------------------------

(* A thread that has returned, or left a call by an exception, has no      *)
(* mutex, shares none, and is not taken to be running an initialiser: not  *)
(* after get_lock handed it a lock, nor when what it created threw.        *)
LocksGivenBack == \A t \in Threads : fn[t] = NoCall => ~InSection(t)

(* Two threads are about to access the same datum, and one to write it. *)
Racing(t, u) ==
  /\ t # u /\ Running(t) /\ Running(u)
  /\ Instruction(t).op \in Writes
  /\ Instruction(u).op \in Reads \cup Writes
  /\ Subject(t) = Subject(u)

(* t is about to create the resource that resource_ptr points to already.  *)
PointerFirst(t) == At(t, "write") /\ Subject(t) = "resource"

(* Data races happen only in the three programs whose comments say so: foo *)
(* races by the pointer it smuggled out, so with an access outside         *)
(* process_data's lock; double-checked locking by the test outside the     *)
(* lock, or, where the pointer is set first, by the use that follows the   *)
(* test, and never by two writes; and the layered calls everywhere, whose  *)
(* mutex is "just a dumb implementation" that locks nothing.               *)
RacesWhereDocumented ==
  \A t, u \in Threads : Racing(t, u) =>
    \/ program = "wrapper" /\ ~(InSection(t) /\ InSection(u))
    \/ /\ program = "double_checked"
       /\ Instruction(u).op \in Reads
       /\ Subject(t) = "resource_ptr" \/ PointerFirst(t)
    \/ program = "layered"

(* What a call reads while it holds a lock, or runs an initialiser, stays  *)
(* as it is until it lets go: sections with the same mutex are atomic.     *)
SectionsAreAtomic ==
  \A t \in Threads : \A r \in seen[t] : data[r[1]] = r[2]

(* However many threads find no resource, and whichever of them fail, one  *)
(* resource is created, even by double-checked locking.                    *)
Created == {"resource", "connection", "instance"}
CreatedOnce == \A x \in Created \cap Data : data[x] <= 1

(* do_something, send_data and receive_data run on a resource that has     *)
(* been created.  After a test outside the lock, "The call to do_something *)
(* can operate on incorrect values": that is so only while another thread  *)
(* has set the pointer first and not yet created what it points to.        *)
UsesCreated ==
  \A t \in Threads :
    At(t, "read") /\ Subject(t) \in Created =>
      \/ data[Subject(t)] = 1
      \/ program = "double_checked" /\ \E u \in Threads : PointerFirst(u)

(* Every call ends, by a return or an exception, unless a pop of the       *)
(* thread-safe stack is under way.                                         *)
CallReturns ==
  \A t \in Threads :
    fn[t] # NoCall ~> fn[t] = NoCall \/ \E u \in Threads : fn[u] \in Pops

(* "The pop function will throw an empty_stack exception if the stack is   *)
(* empty", and return a value otherwise: it does not wait for ever.        *)
PopReturns ==
  \A t \in Threads : fn[t] \in Pops ~> fn[t] = NoCall
=============================================================================
