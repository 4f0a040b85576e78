# Cpp-Concurrency-In-Action: specifications, checks and proofs

The repository holds the programs its author wrote while working through a book
on concurrency in C++: some are complete programs, some classes meant to be
shared by threads, some sketches. None has a test. This directory specifies
them in TLA+, model-checks the specifications with TLC and proves theorems
about them with TLAPS: about the queue and the pipeline on it, the hierarchical
mutex and the registry under it, the swap, the programs of Chapter 3, and the
threads, guards and memory of the programs of Chapters 1, 2 and 5.

All line numbers below are those of the file named beside them. The short
names are: `queue` for `Chapter-4 .../threadSafeQueue.cpp`, `hierarchy` for
`Chapter-3 .../3.2.7_HierarchicalMutex.cpp`, `3.2.5` for
`Chapter-3 .../3.2.5_Deadlock.cpp` and so on by the number of the file.

Contents

1. The system: components, state, operations, interactions
2. The modules and how they correspond to the code
3. The runs: what each one shows, with which bounds
4. Fairness
5. The proofs
6. Findings
7. Decisions of the models
8. What is only model-checked, and what is not modelled
9. Plan

## 1. The system

There is no single program. Components interact within a file: threads share
an object of a class, through its member functions, and a class uses
`std::mutex`, `std::shared_mutex`, `std::condition_variable`, `std::once_flag`
and `std::lock` of the library. No component persists anything, none sends
messages, and nothing has a time limit, so crashes, lost messages and timeouts
do not occur. What is hard is interleaving: of threads inside a class, of
exceptions with locks and notifications, and of nested locks with each other.

| component | state | operations | hard behaviour | what makes it correct |
|---|---|---|---|---|
| Thread-safe queue (`queue`, class) | `data_queue`, `mut`, `data_cond` | `push`, `try_pop` (2), `wait_and_pop` (2) | notification before unlock; spurious wakeups; another thread overtakes the woken one; a copy or allocation throws | linearizable first-in first-out queue; every access under `mut`; no lost wakeup; calls return |
| Chunk pipeline (`queue`, functions) | the queue, the locals of its threads | `data_preparation_thread`, `data_processing_thread` | many producers and consumers on one queue | each chunk processed exactly once, in order, in the end |
| Hierarchical mutex (`hierarchy`, class) | `internal_mutex`, `previous_hierarchy_value`, `hierarchy_value`; `this_thread_hierarchy_value` per thread | `lock`, `try_lock`, `unlock` | a saved value per mutex, a current one per thread; refused calls; unlocks in a wrong order | throws exactly when the order is broken; only owners unlock; no circular wait |
| Registry (`hierarchy`, functions) | the users and their balances, two hierarchical mutexes | `update_user_balance`, `thread_func`, `correct_locking`, `main` | read-modify-write of a balance under nested locks | no lost update; `main` joins all threads |
| Swap (`3.2.5`, `3.3_UniqueLock`) | per object `some_detail`, `m` | `swap(X&, X&)`, three versions | opposite lock orders; adopted and deferred guards; an exchange in three assignments | atomic exchange; both mutexes held for it, none after it; no deadlock |
| Layered calls (`3.2.6`) | three placeholder mutexes | `thread_a`, `thread_b` | calls against the hierarchy | the announced failure |
| Thread-safe stack (`3.2.4`, declared in `3.2.3`) | `data`, `m` | `push`, `pop` (2), `empty`, copy constructor | a member function calls another with `m` locked | no race, calls return |
| Stack interface (`3.2.1`, `3.2.2`) | a stack | `empty`, `top`, `pop` | the calls of two threads in between | a value is read and removed once |
| List (`3.1`) | `myList`, `myMutex` | `add_to_list`, `list_contains` | insertion throws | no race |
| Data wrapper (`3.2.0`) | `x.data`, `x.m`, `unprotected` | `process_data`, `evil_function`, `foo` | a reference leaves the locked section | the documented race and no other |
| Transfer of ownership (`3.3.1`) | `some_mutex` | `get_lock`, `process_data` | the lock outlives the function that took it | no race, given back by whoever got it |
| Granularity (`3.3.2`) | `the_mutex` | `get_and_process_data` | unlock and lock again in one scope | no self-deadlock, no race |
| Comparison (`3.3.3`) | per object `some_detail`, `m` | `operator==`, `get_detail` | two objects in opposite orders | never two locks at once |
| Lazy initialisation (`3.3.1_Protecting...`, `3.3.2_ThreadSafe...`, `3.3.3_Static...`) | the resource, its pointer, a mutex or a flag | four ways to create it, `send_data`, `receive_data`, a function's static | two threads find none; creation throws; a test outside the lock | created once, used only when created |
| DNS cache (`3.3.4`) | `entries`, `entry_mutex` | `find_entry`, `update_or_add_entry` | readers in parallel, one writer | readers exclude writers |
| Thread handles (`2.1`, `2.1.2`, `2.1.3` (2)) | a `std::thread` or a reference to one | construct, move, assign, swap, join, detach, destroy | an exception between start and join; a detached thread outlives a local | every thread joined or detached once; no use of a dead local |
| Background threads (`2.1.4`, `2.1.6`, HelloWorld) | a vector of threads | start, join, detach | recursion over detached threads; stubs that throw | all joined or detached |
| Parallel accumulate (`2.1.7`) | `results`, `threads` | `parallel_accumulate` | the partition; 0 cores; a thread that cannot start | the same sum as `std::accumulate` |
| Spinlock (`1-AtomicFlag`) | `flag` | `lock`, `unlock` | test-and-set by many threads | a mutex |
| Compare and exchange (`compare_exchange`) | `value`, `counter` | `compare_exchange_weak`, the loop | spurious failure | no lost increment |
| Release sequence (`release_sequence_example`) | `atomic_var`, `data` | `producer`, `consumer` | which store a load reads, and what it makes visible | `data == 42` |
| Pointer arithmetic (`3_PointerArithmetic`) | an atomic pointer | `fetch_add`, `+=`, `-=` | old and new values | its assertions |
| Condition variable notes (`Waiting_For_An_Event.md`) | as the pipeline | the pipeline with an end | notify after unlock; the last chunk ends one consumer | consumers end |
| Chapter notes | none | none | none | none |

`PROJECT.json` lists the same components with their files and status, and all
hazards with the line where each one bites.

## 2. The modules

Each component has a module; what the component promises is a module of its
own where it can be said without its locks; `MC...` modules give constants their
values; `...Proofs` modules hold theorems.

    AtomicQueue <--implements-- ThreadSafeQueue <--extends-- ChunkPipeline
                                ^                            ^
                                ThreadSafeQueueProofs <----- ChunkPipelineProofs

    OrderedLocking <--implements-- HierarchicalMutex <--extends-- RegistryUpdate
                                                                  ^
                                   SumTheorems <----------------- HierarchicalMutexProofs

    AtomicSwap <--implements-- SwapLocks <-- SwapLocksProofs
    GuardedPrograms <-- GuardedProgramsProofs
    CppMemory <--uses-- ThreadPrograms <-- ThreadProgramsProofs --> SumTheorems
                                           ^
                                           ThreadMemoryProofs

### ThreadSafeQueue, AtomicQueue

`mut` is the owner of the mutex, `data_queue` a sequence, `data_cond` the set
of threads at label `"waiting"`. A thread goes through labels that stand for
the places of the code between two actions on shared state:

| label | action | code in `queue` |
|---|---|---|
| `idle` | `Call` | the call of `push` (50), `try_pop` (78, 90), `wait_and_pop` (58, 67) |
| `lock`, `relock` | `Lock` | the constructor of the guard (51, 59, 68, 79, 91), the end of `wait` |
| `push` | `Push`, `PushThrows` | `data_queue.push(new_value)` (52) |
| `notify` | `NotifyOne` | `data_cond.notify_one()` (53), with `mut` held |
| `test` | `FindValue`, `FindEmpty`, `Wait` | the predicate of `wait` (60, 69), the `if` of `try_pop` (80, 92) |
| `waiting` | `WakeSpuriously`, or a `NotifyOne` of another thread | inside `wait` |
| `front` | `CopyFront`, `CopyThrows` | `value = data_queue.front()` (61, 83), `make_shared` (71, 95) |
| `pop` | `Pop` | `data_queue.pop()` (62, 72, 84, 96) |
| `unlock`, `unwind` | `Unlock` | the destructor of the guard |

`AtomicQueue` has no mutex: each call takes effect in one step (`Enqueue`,
`Dequeue`, `FindEmpty`) between `Invoke` and `Return`, or has no effect
(`Abort`). The refinement mapping makes `Push`, `Pop` and `FindEmpty` the steps
that take effect, and hides a copied front until it is popped.

The two overloads of a pop take the same steps and are one operation. The copy
and move constructors and `empty()` are ill-formed for every `T` a queue can
hold (35 names a member `mutex` that does not exist, 43 initialises the queue
with a lambda that is never called, 103 makes a `lock_guard<T>` of the mutex),
so no program can call them; the status is "partly" for that reason.

### ChunkPipeline

Extends the queue: `Preparers` call only `push`, each with a chunk that is new
(`Prepare`), `Processors` only `wait_and_pop` (`Await`), then receive
(`Receive`: the `Unlock` of the queue, together with the assignment to the
local) and `Process`. All other steps are those of the queue (`QueueStep`),
except two: a `data_chunk` is an empty class, whose copy does not throw, and the
`std::bad_alloc` of `push` (52), which would leave `data_preparation_thread`
(119) and end the program, is left out.

### HierarchicalMutex, OrderedLocking

`internal_mutex`, `previous_hierarchy_value` and `hierarchy_value` are
functions of the mutex, `this_thread_hierarchy_value` of the thread
(`thread_local`). A check reads the thread's own value and a constant, so it is
one step with the call: `CallLock`/`RefuseLock` (lines 37 and 52, with 21-25),
`CallUnlock`/`RefuseUnlock` (44-47). Then `LockInternal` (38, 53),
`TryLockFails` (53-54), `UpdateHierarchyValue` (27-31) and `UnlockInternal`
(48). Any thread may call any function of any mutex at any time, also wrongly.

`OrderedLocking` is what the class promises: `held` sets of mutexes, `Acquire`
of a mutex strictly below everything held, `Release` of the lowest one, and
refusals otherwise. There is no saved value in it, so that it says what
`previous_hierarchy_value` is for.

### RegistryUpdate

Extends the hierarchical mutex with the program: `update_user_balance` locks
`high_level_mutex`, finds the user, locks `low_level_mutex`, reads and writes
the balance, unlocks both. A refused lock would let the exception out of the
thread (`"terminated"`), and `Joined` would never come true. The threads are
there from the beginning: their starts (146-147) are not steps, and cannot fail.

### SwapLocks, AtomicSwap

`version` is chosen once: the two guards that both adopt `lhs.m` (3.2.5:36-41),
`scoped_lock` (3.2.5, second class) or two deferred `unique_lock`s
(3.3_UniqueLock). `std::lock` is external and modelled by the algorithm of the
libraries: lock one, try the other, back off (`LockFirst`, `TrySecond`,
`BackOff`). The exchange is the three assignments of the inner `swap` (3.2.5:18-22),
the unlocks go in the order in which the guards are destroyed (`Guarded`). In
3.3_UniqueLock the inner `swap` (13) is a stub with an empty body; the version
with `unique_lock`s is given the assignments of 3.2.5, which is what the locks
around the call are for.
`AtomicSwap` exchanges two details in one step. The mapping reads the details
as they were until the last assignment, which is the step that takes effect.

### GuardedPrograms

The remaining fourteen programs of Chapter 3 differ in what they lock around
which access. Each function is written as its sequence of instructions (lock,
unlock, the shared forms, read, copy, write, create, the test for null,
`call_once`), one TLA+ definition per C++ function and under its name, and one
set of actions executes instructions: `LockExclusive` waits for owner and
sharers, `Throw` unwinds a call and unlocks what it holds, `BeginOnce`,
`PassOnce`, `EndOnce` are `std::call_once`. `Operations` says which functions
the threads of each program may call; `Init` chooses the program. In `reset` the
`shared_ptr` may fail to allocate after `new` has succeeded; this throw and that
of `new` are the one throw of `Create`, since nothing is left by either.

A datum is the number of times it was written: enough to tell whether what a
section has read is still so (`SectionsAreAtomic`), and whether a resource was
created once (`CreatedOnce`) and before its use (`UsesCreated`).

### ThreadPrograms, CppMemory

The programs of Chapters 1, 2 and 5, in the same manner: one definition per C++
function and under its name, as a sequence of instructions. `code[t]` is what
thread t has left to execute. There is no stack of handlers: an instruction
that may throw carries the code that unwinding runs instead of the rest, and
three combinators build it as the braces of the source do. `Catch` is a `try`
with its handler, `Within` a scope with its destructors (run at its end, or by
unwinding, and terminating the program if they throw), `Thread` a local
`std::thread` with its scope. So `muchBetterOops` reads

    WithLocalState(Thread(1, Funct, ThreadGuard(1, <<Risk>>)))

which is the order in which its locals are declared, and `betterOops` has a
`Catch` in place of the guard.

| variable | code |
|---|---|
| `handle` | what each `std::thread` object holds, 0 for none; vector elements are 1, 2, 3 |
| `started`, `released` | the threads that exist, and those joined or detached |
| `code`, `reg` | the rest of each thread's function, and its locals |
| `memory`, `view` | the history of each shared object, and how much of it each thread knows |
| `dead` | locals whose lifetime has ended |
| `faults`, `ended` | what threw or failed, and how the program ended |

`StartThread`, `JoinThread`, `DetachThread`, `MoveThread`, `SwapThreads` and
`TerminateProgram` are `std::thread`; `CallAutoJoining` lets a client call any
function of two `AutoJoiningThread`s for as long as it likes, and use the
`std::thread&` of `as_thread()` (71-77): what that allows beside `join`, `detach`
and `swap` is to assign a new thread to it (`AssignAsThread`, which terminates
the program if the object is joinable) and to move it away, as into the
parameter of `operator=` (`AssignMoved`). `EditDocument` is the recursion of
2.1.4; `getUserInput`, `getFilenameFromUser` and `processUserInput` (31-35) are only
declared and may throw, out of the function of a thread. So may the growth of
the vector in 2.1.6 (`emplace_back`). `worspace1` (2.1:5-27) and
`operator=(std::thread)` (2.1.3_AutoJoiningThreadClass:43-48) flow off their ends
without the value they are to return (`FlowOffTheEnd`). `AccessData` is an access to a plain object, the others
are operations on atomics: `AwaitValue` is the loop of `consumer`, `SpinOnFlag`
that of `lock`, `ExchangeInLoop` that of `increment_with_loop`, each with the
step that repeats and the one that leaves.

`CppMemory` has the part of the C++ memory model that these need. A location is
the sequence of messages written to it; a thread's view says which is the
newest one it knows, older ones it cannot read. A release puts the view of its
thread into the message as a head of a release sequence; read-modify-writes
carry the heads on, stores only those of their own thread, and none since C++20;
an acquire joins what the heads know. An access to a plain object by a thread
that does not know the newest access is a race.

## 3. The runs

| run | constants | states | question |
|---|---|---|---|
| `queue` | 3 threads, 2 values, 2 calls each, 1 spurious wakeup | 584 thousand | Is the queue touched only under `mut`, is it the linearizable queue, do `push` and `try_pop` return, and is a thread beside a value stranded only after a throw? |
| `queue_stranded` | 3 threads, 1 value, 1 call | violation | Does `wait_and_pop` wait only until there is a value? |
| `pipeline` | 2 preparers, 2 processors, 3 chunks, 4 calls, 1 spurious wakeup | 130 thousand | Is every chunk processed once, in order and in the end? |
| `hierarchy` | 3 threads, 3 mutexes of different values; symmetry | 238 thousand | Do calls succeed and throw as ordered locking says? Is there a circular wait? |
| `hierarchy_top` | 1 thread, a mutex of value `ULONG_MAX` | violation | Can the first mutex always be locked? |
| `registry` | 3 threads, 2 users, 2 amounts | 36 thousand | Is an update lost? Does an exception leave a thread? Does `main` return? |
| `swap` | 3 threads, 3 objects, the two correct versions; symmetry | 128 thousand | Is the exchange atomic, is every mutex given back, and does nobody wait for a second mutex with the first one held? |
| `swap_adopted_twice` | 2 threads, 3 objects, the first version | violation | Are both mutexes unlocked? |
| `guarded` | 3 threads, 2 calls each, 14 programs | 189 thousand | Races, locks given back, atomic sections, creation, termination |
| `stack_pop` | 2 threads, 1 call each | violation | Does `pop` end? |
| `threads` | up to 3 threads, 17 programs; ranges of 0 to 10 elements, 2 per thread at least; 0 to 3 cores; C++17 and C++20 | 40 thousand | Owners of threads, lifetimes, races under the memory model, exclusion, sums, counts, termination |
| `compare_exchange_weak` | 1 program | violation | Does the single weak exchange succeed? |

Why the bounds are enough. The queue needs a push, a thread asleep and one that
overtakes it, which is three threads; two calls let a thread come back after a
throw or a wakeup; two values tell first from second. The counters `calls` and
`spurious` are bounded in guards and nowhere else; the theorems hold for every
bound. The hierarchical mutex has no bound at all: its state is finite, and
three mutexes give a chain with a middle, three threads a cycle longer than
two. Three objects allow swaps that overlap in one. In `pipeline` one preparer
may prepare all three chunks or share them with the other, and the loops are
cut at four calls, more than there are chunks. In `guarded` two calls suffice
for a creation that fails and is tried again, three threads for a second waiter
behind a lock. In `threads` a program starts at most three threads, which is
what each of them needs: `main` of 2.1.6 starts thirty equal ones. The source
has 25 elements per thread at least; with 2, a range of 10 gives every number
of blocks from none to what three cores allow, with and without remainder.
Three threads that each increment once or twice give every interleaving of two
increments with a third. `Funct` counts to two for a million.

`CHECK_DEADLOCK FALSE` is given where a behaviour really stops: the queue and
its pipeline when all calls are made or all threads sleep, and the programs of
`GuardedPrograms` and `ThreadPrograms` when they have ended (and when a pop has
stopped its stack), and the swap whose guards leave a mutex locked. The hierarchical mutex,
the registry and the correct swaps are checked for deadlock. Symmetry is used
in runs without liveness properties only, and only over threads, which no
definition tells apart.

What each property says that a look at the code does not:

- `QueueGuarded` relates the labels of all threads to the one owner, over every
  path that leads through `wait`. It breaks when one lock does not exclude.
- `NoLostWakeup` counts: while a thread sleeps there are at least as many
  threads about to serve as values in the queue, except for throws. It breaks
  if `push` notifies only when the queue was empty, a usual "optimisation".
- `ImplementsAtomicQueue` is linearizability; it breaks if a value is popped
  before its copy succeeded.
- `CallReturns`, `StrandedOnlyByThrow` are its liveness.
- `ChunkInOnePlace` counts the places of a chunk over four threads, the queue
  and what was processed; `ProcessedInOrder` relates the order of preparation
  to that of processing; `ChunkProcessed` is the end of every chunk.
- `TypeOK` of the hierarchical mutex confines a thread's value to `ULONG_MAX` and
  the values of the mutexes: the 0 that a mutex holds until it is first locked
  (16), with which a thread could lock nothing again, never becomes one. It
  breaks if the value to restore is not saved.
- `OwnerUnlocks` holds although `unlock` compares two numbers only.
- `NoCircularWait` is over all sets of threads, the sets of one included.
- `ImplementsOrderedLocking` says that the one number per thread and the one
  per mutex are enough; it breaks if the value is saved after the update.
- `FirstLockAllowed` needs every balanced use, with refusals and failures in
  it, to end where it began.
- `NoLostUpdate`, `NoneTerminated` and `MainReturns` are about the program
  around it: each balance is, at any time, the initial one plus the amounts of
  exactly the threads that have written it.
- `HoldersNeverWait` is the rule of 3.2.5:76, "dont wait for another thread if
  there is a chance that it is waiting for you", which rules out deadlock
  whatever the orders of the arguments: who owns a mutex has a step to take,
  whatever the others do. It breaks if `std::lock` keeps the first mutex while it
  waits for the second. `NothingKept` is the other half: who waits for a first
  mutex, or has left, owns none. `BothLocked` is about the exchange and
  `ImplementsAtomicSwap` about swaps that overlap.
- `LocksGivenBack` is about every way out of a function: `get_lock` returns with
  `some_mutex` locked and hands the lock to its caller, creations throw under
  locks, shared locks and in initialisers; who is in no function has nothing.
  It breaks if `process_data` of 3.3.1 releases the lock it was handed.
- `RacesWhereDocumented` looks for two threads about to access the same datum,
  one of them to write, in all fourteen programs. The exceptions are those
  that the comments of the source announce, and no more than these: in `foo` one
  of the two must be outside the lock; in double-checked locking one must be a
  reader, and the other write the pointer, or the resource after the pointer;
  in the layered calls anything races, as their mutex locks nothing.
- `UsesCreated` allows double-checked locking to use what is not yet created
  only while another thread has set the pointer first and has yet to create
  what it points to, which is the failure its comment describes.
- `OneOwner` counts the objects that hold a thread after any sequence of calls
  on two `AutoJoiningThread`s, `as_thread()` included; it breaks if a swap has no
  temporary.
- `GuardsNeverTerminate` and `LocalsOutliveUse` are about paths with
  exceptions: without the `catch` of `betterOops` the first fails, with a guard
  that detaches the second. `oops` is the exception its comment describes. An
  `AutoJoiningThread` terminates the program in one way only, when a client
  assigns to what `as_thread()` hands out while it is joinable; programs without a
  guard terminate only when a start has failed or a stub has thrown.
- `SpinlockExcludes` is the mutual exclusion of a lock made of one flag, under a
  memory in which loads may be stale; it breaks if `lock` tests once and goes on.
- `NoDataRace` is the happens-before relation, by start, join, spinlock and
  release sequence; it breaks if `unlock` is relaxed, which no test on a usual
  machine would show.
- `AssertionsHold` says when the assertions of Chapter 5 can fail at all.
- `SumIsComplete` compares the blocks with the range by a sum of powers of two,
  which no other choice of elements has; `NoLostIncrement` counts.
- `MainReturns` is the end of every wait: for a join, a flag, a value.

Every property of a passing run has a mutant in `PROJECT.json`: a definition
replaced by another one that a plausible mistake would produce, with which TLC
finds the property violated. The replacements stand in the modules, marked
"Mutant:", each just before the definition it would replace.

## 4. Fairness

All fairness is weak and over the steps of one thread inside a call: the
operating system runs a thread that can run. Nobody has to call anything, no
preparer has to have more data, no spurious wakeup has to occur, and no lock is
assumed to be fair: a waiting thread gets a mutex if it is free and the thread
is scheduled then, which weak fairness gives only if the mutex stays free. The
liveness properties hold nevertheless because the calls are bounded: a thread
can be overtaken at a mutex only as often as the others call. With unbounded
calls `std::mutex` promises nothing about starvation and neither does this.

| specification | fairness | justified by |
|---|---|---|
| `FairSpec` (queue) | WF of `Step(t)` | scheduling |
| `PFairSpec` | WF of each thread's queue steps and of each processor's loop | scheduling; `while (true)` at 124 of `queue` |
| `RFairSpec` | WF of `ThreadStep(t)` | scheduling; `main` starts and joins |
| `Spec` of `GuardedPrograms` | WF of `Step(t)` | scheduling |
| `Spec` of `ThreadPrograms` | WF of `Step(t)` | scheduling |

In `ThreadPrograms` weak fairness also says that a thread that waits for a value
reads a newer message in the end, and that a weak exchange in a loop does not
fail spuriously for ever: repeating either changes nothing in the state, so the
step that is fair is the one that gets on. The standard asks for both
(atomic stores become visible in finite time; spurious failure is for single
attempts).

## 5. The proofs

TLAPS checks all of them for every value of the constants. Each inductive
invariant was first checked by TLC on the instance of its run, then proved:
`Init` implies it, every step keeps it, it implies the property. Where a type
invariant is not a property of a run (`GuardedPrograms`, `ThreadPrograms`), it is
defined in the module of the proofs, which need it.

### ThreadSafeQueueProofs

Assumption: `QueueAssumption` (a finite set of threads, markers that are no
threads or values, natural bounds). Finiteness is needed to count.

`QueueGuarded` is not inductive: that a thread at `"test"` goes on as a pop
needs its operation, that a popped value is the copied one needs that nobody
else changed the queue meanwhile. The invariant is

    QInv == TypeOK /\ QueueGuarded /\ OpAtLabel /\ ValAtLabel /\ FrontStays

where `FrontStays` says that from the test to the pop the queue is not empty,
and from the copy to the pop the copied value is its head. `QueueInvariance` is
`Spec => []QInv`, one lemma per group of actions. From it:

- `TypeCorrect`, `QueueGuardedTheorem`;
- `NoLostWakeupTheorem`: the inequality is inductive given `QInv`. Each action
  changes the set `Serving` by one thread at most, or by the notifier and the
  woken one together, and `ServingCounts` says what that does to its
  cardinality;
- `ImplementsAtomicQueueTheorem`: initial states map to initial states;
  `Push`, `Pop`, `FindEmpty`, `Call` and `Unlock` map to the step of the same
  meaning, all others to a stutter (`InvisibleRefines`).

### HierarchicalMutexProofs: the mutex

Assumption: `MutexAssumption` (the first part of the module cites nothing of
`RegistryUpdate`, which the module extends for its second part); conditions of the theorems, which the
constructor does not enforce: `BelowMax`, no mutex has the value `ULONG_MAX`
(without it `hierarchy_top` is the counterexample), and `DistinctValues` (with
two mutexes of one value, a thread that holds one could unlock the other).

The invariant must say what the numbers mean. `Chain(t)` are the mutexes that
the thread's value accounts for: those it owns but is not just locking or
unlocking.

    IInv == Typing /\ Owns /\ TargetBelow /\ ThreadLeast /\ SavedLeast

`ThreadLeast`: the thread's value is the least of its chain, or `ULONG_MAX`.
`SavedLeast`: each mutex of the chain saved the least value above its own.
Together they make the chain a stack although no stack is stored.
`Invariance`, `TypeCorrect` (the least of a chain is the value of a mutex),
`OwnerUnlocksTheorem`, `FirstLockAllowedTheorem` and `ImplementsOrderedLockingTheorem` follow from
`IInv` (the last by `CheckIsExact`: the comparison of the numbers agrees with
`Below` and `Lowest`). `NoCircularWaitTheorem` takes a thread of the set with
the least target value (`LeastNatural`, by well-foundedness of the natural
numbers): whoever owns its target has a thread value no greater, hence waits
for something lower still.

### ChunkPipelineProofs

Assumptions: those of the queue, and `PipelineAssumption`. The module extends
`ThreadSafeQueueProofs`: every step of the pipeline is a step of the queue or
leaves the queue alone, so `QInv` is there to use. On top of it

    PInv == PTypeOK /\ Roles /\ Flow
    Flow == PreparedOnce /\ Apart /\ NoneLost /\ InOrder

`Roles` says that preparers only push and processors only wait and pop. `Flow`
follows a chunk: those prepared were prepared once (`PreparedOnce`), the places
where a chunk can be (a preparer that has not pushed it yet, a position of the
queue, a processor that has popped it, what was processed) exclude each other
(`Apart`), a prepared chunk is in one of them (`NoneLost`), and along the queue,
and from what a processor has processed through what it holds to the queue, the
chunks of one preparer ascend (`InOrder`). Each of the four is disturbed by
`Push` and by `Pop`, where `FrontStays` of the queue says that what is removed
is what was copied. `ChunkInOnePlaceTheorem` and `ProcessedInOrderTheorem`
follow.

### HierarchicalMutexProofs: update_user_balance; SumTheorems

Assumptions: `RegistryAssumption` (finitely many threads; two different
mutexes). The balance is a sum over a set of threads, and the prover cannot do
induction over data. `SumTheorems` shows what is needed without it: if the sum
over `S` without `x` were not what it should be, there would be a least size at
which it is not, and the step from the size before contradicts it. This is
first-order; `SumRemove` says that the sum over a finite set is that over the
set without an element, plus the element's, and `SumUnion` that the sums over
two disjoint sets add up.

    RInv == RTypeOK /\ CallAtPlace /\ OwnsLow /\ ValueAtPlace /\ ReadIsCurrent

`CallAtPlace` ties the place in `update_user_balance` to the call of a mutex
that is under way, `OwnsLow` the places between the second lock and its unlock
to the owner of `low_level_mutex`, `ValueAtPlace` says what the thread's
hierarchy value is at each place (with the condition below), and
`ReadIsCurrent` that what was read before the write is still the balance.
`NoLostUpdateTheorem` has no condition on the values of the mutexes: if they
were in the wrong order the second lock would be refused, which loses no
update. `NoneTerminatedTheorem` has the condition of the source's constants,
`low_level_mutex` below `high_level_mutex` below `ULONG_MAX`.

### GuardedProgramsProofs

Assumption: `GuardedAssumption`; any threads, any number of calls, any
selection of the programs. There is no loop in any function, so that what holds
at a place of a function can be found once, without looking at states.

The first part is about the text of the functions alone. `Locked`, `Shared` and
`Initialising` are the mutexes, exclusive and shared, and the flags that the
instructions before a place have taken and not given back; `Stuck` is a place
behind a second lock of the same mutex, which is never reached (the pop of the
stack). Going through the instructions of each function shows that it is
`Disciplined` (it unlocks what it has locked) and, for each datum outside the
documented programs, that it writes under the datum's mutex (`WritesLocked`) and
reads under it or where nobody writes (`ReadsLocked`, `ReadsLockedOrFree`). For
the lazily created data, `Made` and `Begun` say what a function has written at
each place, and `Creator` is the form of a function that creates: each thing is
written once, the one that may throw first, behind a test or a `call_once` that
leads past the last write, and read only after all the writes. The functions of
the creating programs have that form; all others write none of these data.

The second part is about behaviours.

    PlaceInv == TypeOK /\ \A t \in Threads : OnItsWay(t) /\ OwnsAtPlace(t)

A thread owns exactly what its place says. With `Exclusion` (an owner excludes
sharers, a flag that is done has nobody initialising) this gives
`SectionsAreAtomicTheorem`: another thread's write needs the mutex under which
the value was seen (`SectionInv`). At the end of every function nothing is open,
and a throw gives back what is: `LocksGivenBackTheorem`.

The third part is the creation. A test for null, or the flag, is only a hint
until the test was made under the lock; past it a thread `Knows`.
`CreationInv` says that what a thread knows is true: of a creator on its way,
that precisely what its place says has been written, once, and nothing else;
and while nobody is writing, either everything has been created once or
nothing, in accordance with the flag. `OneWriter` and `OnlyWriterKnows` are
where the mutexes, or the flag, are used. `CreatedOnceTheorem` holds for double-checked locking too (its
second test is under the lock). In `UsesCreatedTheorem` the order of its two
writes counts: a reader past the test may find nothing created only if the
writer has the resource still before it. For `RacesWhereDocumentedTheorem` two accesses at the same time, one of
them a write, are excluded by the common mutex, or, for a reader without a
lock, because it knows that all is created and so nobody writes.

### SwapLocksProofs

Assumption: `SwapAssumption`; condition `NoDoubleAdoption`, that the version
with two guards on `lhs.m` is not among those considered
(`swap_adopted_twice` is the counterexample).

    SInv == TypeOK /\ version # "lock_guard" /\ OwnsAtLabel /\ PairAtLabel /\ TmpAtLabel

`OwnsAtLabel` gives, for each label, exactly which mutexes the thread owns, as
an equivalence: that nothing is kept and that movers exclude each other both
follow. `TmpAtLabel` says what the temporary holds between the assignments. The
theorems are `SwapInvariance`, `TypeCorrect`, `NothingKeptTheorem`,
`BothLockedTheorem` and `ImplementsAtomicSwapTheorem`; for the last one,
`Hidden` shows that the `CHOOSE` in the refinement mapping is over at most one
thread, as only the owner of an object's mutex can be in the middle of
assigning it.

### ThreadProgramsProofs

Assumption: `ThreadProgramsAssumption`; any number of threads from 3 on
(`MaxThreads`, with as many names in `results`), any length of the range, any number of
cores from 0 to `MaxThreads`, any selection of the 17 programs. Since `MaxThreads`
may be any number, what is proved holds for any number of cores: a machine with
c of them is covered by every instance with `MaxThreads` at least c and 3.

What a thread does next is the head of a sequence of instructions that was put
together by `Catch`, `Within` and `Thread`, so a proof by places, as in
`GuardedProgramsProofs`, would need one place for every instruction and every
exception that may arrive there. The module builds a logic of pre- and
postconditions instead. A status says what is known of each `std::thread`
object (`"empty"`, `"held"`, `"any"`) and of the locals of `main`; `After` is what one
instruction does to it, `Fine` what the instruction needs (a move goes to an
empty object, a destructor meets an empty one, `join` finds a thread or a test
for it, nothing uses a dead local). `Quiet(s, ...)` says that s runs from one
status to another without an exception; `Runs` also has the status that an
exception which leaves s leads to: whatever the instruction that throws carries
for unwinding must itself be `Quiet` from there. The rules (`RunsConcat`,
`RunsCatch`, `WithinRuns`, `ThreadRuns`) correspond to the combinators, and with
them each program and each function of a thread is shown to be safe
(`ProgramsSafe`). So that `betterOops` joins on both paths, and
`ScopedThreadGuard` on every one, is a derivation in this logic.

    ThreadInv == /\ Typing /\ Owned /\ Unstarted /\ Joined /\ Outlived
                 /\ GuardsNeverTerminate
                 /\ \A t \in Threads : CodeFine(t)

`CodeFine(t)` says that what t has left to execute runs safely from a status
that agrees with the state. It is what makes the rest inductive: that a thread
is in one object only is lost by a move onto a joinable one, and `Outlived` by
the end of `main` before a join, and only the code that is left rules these out.
`Owned` is `OneOwner`; `Unstarted` says that threads not yet started have no
code; `Joined` that what was joined has ended; `Outlived` that no thread has anything
left to execute once a local has died. That an assignment through `as_thread()`
may terminate the program follows and is not assumed: `Fine` asks nothing of the
object assigned to, and the status after it is that of the step that goes on. TLC has
evaluated all conjuncts but `CodeFine` on the instance of `threads`, whose
quantifiers over statuses and annotations it cannot enumerate. A step of one
thread keeps the status of every other, because objects are local to a thread
(`HandlesOf`). `ThreadInvariant` gives `OneOwnerTheorem`,
`GuardsNeverTerminateTheorem` and `LocalsOutliveUseTheorem`.

The last part is about memory. `MemoryTyping` says that what a thread knows,
and what every head of a release sequence in every message knows, lies within
the histories. The heads are needed because a thread that acquires joins them
into its view (`ReadView`), and `Known` must survive messages that are appended
(`WriteTyping`) or copied with their heads by a read-modify-write
(`ModifyTyping`). With `ThreadInvariant` it gives `TypeCorrect`.

Within `ProgramsSafe`, the threads of `parallel_accumulate` need that there are as
many blocks as threads and objects. `BlocksPartition` says more, for a range that
is not empty and any natural number of cores, 0 included: the blocks of lines 39 to 49 of 2.1.7 lie in the range, and
every element is in the block of exactly one thread. The run `threads` checks
this by a sum on ranges of at most 10 elements and 3 cores; the theorem says it
of every length, number of cores and `min_per_thread`. The argument: there are
at least one and at most `length` threads (`MaxThreadsInRange`,
`NumThreadsInRange`), so that no block is empty and the blocks fit into the
range (`BlockSizeFits`); a later block begins where an earlier one has ended;
and element `e` is in block `e \div block_size`, or in the last one, which takes
what is left over. What the threads do with the blocks is
the subject of the next module.

### ThreadMemoryProofs

Assumption: `ThreadProgramsAssumption`, as before. What the programs compute.

This module follows threads place by place, which the logic above avoids. It
can, for the programs of `Placed`: the ones of Chapter 5 and
`parallel_accumulate` start all their threads first (`AllStartFirst`), and only
the start of a thread throws. So what a thread has left is an end of its code,
and how many threads have started follows from how much `main` has left
(`OnItsWay`); when `main` has returned, every thread has ended (`AllEnded`).
`Tidy` and `Alike` say that the scopes around this code add nothing but
destructors.

    CountingInv == CountInv /\ LockInv

`CountInv` says that the newest message of the counter is its initial value plus
the number of increments that the threads are past (`CountOf`, from the length
of what each has left). For `compare_exchange_weak` this is inductive with
`OnItsWay` alone: an exchange that succeeds reads the newest message, whatever
older one the load before it had returned. For the spinlock it is not, because
the increment is a plain access, which may read any message that the thread
does not know to be overwritten. `LockInv` adds that one thread at most is between the end of
its loop and `unlock`, that this thread has seen the whole history of the
counter, and that when the flag is clear its last message has a head that has
seen it too; `ReadView` takes this over to the next owner. With `relaxed` in
`unlock` the last conjunct fails. `CountingTheorem` is this invariant, and
`NoLostIncrementTheorem` follows with `AllEnded`. TLC has evaluated `CountInv` and
`LockInv` on the instance of `threads`. `SpinlockExcludesTheorem` is the first clause of
`LockInv`, for the places where a thread accesses the counter or clears the flag.

The release sequence has an invariant of its own. `ReleaseSequenceInv` says,
before C++20, that every message of `atomic_var` but the first carries a head
from the producer whose view has the 42 (`Announces`), although only one of the
three was stored with `release`: the `fetch_add` keeps the heads of what it
reads, the relaxed store those of its own thread. It also says what each of the
two threads knows at each place, and that the consumer has got past its loop
only after the first store. `ReleaseTheorem` is this invariant. Since C++20 the
last store is in no release sequence and the invariant is false, which is why
`NoDataRace` and `AssertionsHold` name that case.

Programs that are not followed place by place need less. `Only(s, O)` says that
s, what it throws into and what it starts executes only operations of O; it is
closed under the combinators, so that `CalmInv` (no operation on memory) and
`LocalInv` (one thread uses the local of `main`, and `main` does not) are
derived from the text of the programs.

`PlaceInv` gives, for each place of the programs with one thread, the values
that the code finds there, among them those that the comments of
`3_PointerArithmetic` announce; for compare and exchange, only without a
spurious failure. `AssertionsHoldTheorem` follows from `PlaceInv`,
`ReleaseSequenceInv` and the fact that no other program asserts.

`AccumulateInv` is about the results of `parallel_accumulate`. `Slot` says of
each one that it is 0 until its thread has added its block (`Added`), and the
sum of the block afterwards; that the thread then knows its newest message; and
that `main` knows it too, once `main` is past the join. `OwnSlot` says the same
of the last block, which `main` adds itself, and that the sum of `main` is `init`
and the results it has collected. The clauses on joins need that the i-th object
holds the i-th thread, up to the join, and the clauses on starts end with a
thread that cannot be started: `main` then only unwinds (`AccumulateFails`).
`AccumulateTheorem` is this invariant, by one lemma for each range of places.

`NoDataRaceTheorem` puts the pieces together (`NoRace`): who accesses a plain
object next has seen its newest message, by `LockInv` for the counter, by `Slot`
and `OwnSlot` for the results, by `ReleaseSequenceInv` for `data`, by `LocalInv`
for `someLocalState`; the other programs access none. `SumIsCompleteTheorem`
follows from `AccumulateInv` at the end of `main`: the blocks it has added up
are the range, by `BlocksPartition` and `SumUnion`, and `init` is one element more
(`SumOfBlocks`, `SumOfRange`). For an empty range nothing runs (`EmptyRange`).

TLC has evaluated `ReleaseSequenceInv`, `PlaceInv`, `AccumulateInv` and
`EmptyRange` on the instance of `threads`; `CalmInv` and `LocalInv`, which
quantify over all sets of instructions, it cannot.

## 6. Findings

Five runs show the program doing something other than its text says.

1. `queue_stranded` (ThreadSafeQueue.md:43, "waits until there is a value to
   retrieve"). The thread a push has woken may throw while it copies the front.
   The value stays in the queue, as it should, but nobody notifies again, and
   another thread in `wait_and_pop` sleeps on beside it. `NoLostWakeup` and
   `StrandedOnlyByThrow` show that this is the only way.
2. `hierarchy_top` (3.2.7:63, "biggest value so that the first time the mutex
   can be locked"). The check is `<=`, so a mutex constructed with `ULONG_MAX`
   cannot be locked.
3. `swap_adopted_twice` (3.2.5:47, "both lock_guard are released and the mutex
   unlocke[d]"). `lock_b` adopts `lhs.m` (41): `rhs.m` stays locked.
4. `stack_pop` (3.2.3:73, "will throw an empty_stack exception"). Both pops
   call `empty()` with `m` locked (3.2.4:46 and 56) and `empty()` locks `m`
   (66): the pop neither throws nor returns.

5. `compare_exchange_weak` (compare_exchange:20, "value should be equal to
   desired", asserted at 21). A single `compare_exchange_weak` may fail
   spuriously, as line 17 says itself.

Two more disagreements are exceptions named in the properties. Since C++20 the
relaxed store of release_sequence_example:14 is in no release sequence: a
consumer that reads it races at 25, where a comment says "it's safe to read
'data'" (`NoDataRace`, `AssertionsHold`; both hold for C++17). In 3.2.6 the
comment at 74 says that `thread_b` fails at run time; the placeholder mutex
checks and locks nothing, and both functions race (`RacesWhereDocumented`).

## 7. Decisions of the models

- A step is what one thread does between two accesses of shared state; inside
  a locked section writes and reads are still steps of their own, so that the
  exclusion is a result and not an assumption.
- Undefined behaviour. A `std::mutex` locked again by its owner waits for
  itself, and one unlocked by another thread becomes free: what the
  implementations do. Double-checked locking races, and its two writes (the
  resource, the pointer) may be seen in either order: both orders are
  functions of the program `double_checked`, and `UsesCreated` allows the order
  with the pointer first to fail as the comment in the source says it does.
- In Chapters 3 and 4 memory is otherwise sequentially consistent: apart from
  the documented races the programs are free of races
  (`RacesWhereDocumented`), for which the C++ memory model promises this.
- In Chapter 5 it is not: see `CppMemory`. Writes go to the end of the
  modification order, which only matters to programs with stores of two threads
  to one atomic object, and there is none apart from the spinlock. A read of a
  plain object counts as an access like a write: no program has two readers
  that are not ordered.
- `AutoJoiningThread::operator=(std::thread)` (43-48) and `worspace1` (2.1:5-27)
  have no return statement: the call returns or the program ends as
  `"undefined"`.
- An atomic that is not initialised contains anything of `Garbage` (the
  standard before C++20); `multithread_compare_exchange_weak` only adds to it.
- In `ThreadPrograms` a `std::thread` may fail to start at any time; in the
  registry and the pipeline the threads are there from the beginning. An exception that leaves the
  outermost function of a program ends its main thread's work; what is
  terminated is a joinable `std::thread` destroyed on the way, or an exception
  that leaves a destructor, a `noexcept` function or the function of a thread.
- Exceptions are steps (`PushThrows`, `CopyThrows`, `RefuseLock`,
  `RefuseUnlock`, `Throw`). In `GuardedPrograms` "create" may throw wherever
  the creation is a stub without a body; this allows more than some callers do.
- Functions that are only declared (`prepare_data`, `get_next_data_chunck`,
  `do_something`, `manager::open`) become one access to one datum, or none.
- `Y` of 3.3.3 has no function that changes `some_detail`; that its comparison
  reads two values at two moments, which the comment discusses, has no
  behaviour in this program to show it.
- The names given to `update_user_balance` are those `main` registers;
  `find` returns `nullptr` for others and the program never passes one.
- `try_lock` of a free `std::mutex` may fail, as the standard allows.

## 8. What is only model-checked, and what is not modelled

Only model-checked:

- all liveness properties (`CallReturns`, `StrandedOnlyByThrow`,
  `ChunkProcessed`, `MainReturns`) and `HoldersNeverWait`, since the prover does
  not reason about fairness and `ENABLED`;
- the disagreements of section 6: each is a behaviour that TLC exhibits.

Every other invariant that a passing run checks, and every refinement, is a
theorem.

Not modelled:

- the stack interface of 3.2.1 and 3.2.2. The class of 3.2.1 is declared and
  not defined, so its `main` does not link (it also tests `empty()` the wrong
  way round, 75); 3.2.2 is a function of one thread on a local `std::stack`. The
  race that both are about is repaired in the class of 3.2.4, which is modelled;
- the variant of the pipeline in `Waiting_For_An_Event.md`, a fragment in a note;
- output, and the text of the notes;
- the copy and move constructors and `empty()` of the queue, which do not
  compile when used, and for the same reason the two constructors of
  `AutoJoiningThread` from a `std::thread` (22 and 27 are ambiguous for an
  rvalue, an lvalue cannot be copied);
- allocation failure of the vectors of 2.1.7 and compare_exchange, before
  any thread has started (that of 2.1.6 comes between starts and is modelled);
- the `std::bad_alloc` of `push` in the pipeline, and the starts of the
  registry's threads (section 2);
- more ways to use `as_thread()` than the ones named in section 2.

## 9. Plan

Done: the queue, its users, the two locking classes, the small programs of
Chapter 3, Chapters 1, 2 and 5.

The safety properties of the passing runs are proved, except `HoldersNeverWait`. What
is left are the properties the prover does not reason about, and shorter proofs:
`ThreadProgramsProofs` and `ThreadMemoryProofs` take the prover several minutes each.

## Running it

    tlc -config queue.cfg MCThreadSafeQueue
    tlapm ThreadSafeQueueProofs.tla

and likewise for the others; `PROJECT.json` gives the module of each
configuration. The longest run takes about two minutes and a half.
