--------------------------- MODULE ThreadPrograms ---------------------------
(***************************************************************************)
(* The example programs of Chapters 1, 2 and 5: threads that are started,  *)
(* joined and detached through std::thread objects, alone or inside        *)
(* guards, and threads that communicate through atomic objects.            *)
(*                                                                         *)
(* Each function is the sequence of instructions that it executes, where   *)
(* an instruction that may throw carries what unwinding runs instead of    *)
(* the rest.  A behaviour runs one program on one input.                   *)
(***************************************************************************)
EXTENDS CppMemory, Functions

CONSTANTS
  MaxThreads,    \* how many threads a program can start
  results,       \* the elements of the vector results of parallel_accumulate
  Programs,      \* the programs considered
  MinPerThread,  \* min_per_thread of parallel_accumulate
  MaxLength,     \* the longest range it is given
  Garbage        \* what an atomic that is not initialised may contain

ASSUME ThreadProgramsAssumption ==
  /\ MaxThreads >= 3 /\ MaxThreads \in Nat
  /\ MinPerThread \in Nat \ {0}
  /\ MaxLength \in Nat
  /\ Garbage \in SUBSET Int /\ 0 \in Garbage
  /\ DOMAIN results = 1 .. MaxThreads /\ IsInjective(results)
  /\ Range(results) \cap {"someLocalState", "atomic_var", "data", "flag", "counter"} = {}
  /\ Programs \subseteq
       {"hello_world", "worspace1", "oops", "better_oops", "much_better_oops", "scoped",
        "scoped_empty", "auto_joining", "edit_document", "containers", "parallel_accumulate",
        "atomic_flag", "spinlock_mutex", "simple_compare_exchange_weak",
        "multithread_compare_exchange_weak", "release_sequence", "pointer_arithmetic"}

main      == 0                   \* the thread that runs the program
Workers   == 1 .. MaxThreads     \* threads, in the order of their start
Threads   == {main} \cup Workers
Empty     == 0                   \* what a std::thread without thread holds
Handles   == 0 .. MaxThreads     \* std::thread objects
Locations == {"someLocalState", "atomic_var", "data", "flag", "counter"} \cup Range(results)

-----------------------------------------------------------------------------
(* Instructions *)

Work               == [op |-> "work"]                     \* a stub, or output
Risk               == [op |-> "risk", unwind |-> <<>>]    \* a stub that may throw
Start(h, f)        == [op |-> "start", handle |-> h, body |-> f, unwind |-> <<>>]
Join(h)            == [op |-> "join", handle |-> h, unwind |-> <<>>]
JoinIfJoinable(h)  == [op |-> "join_if_joinable", handle |-> h]
Detach(h)          == [op |-> "detach", handle |-> h, unwind |-> <<>>]
ThrowIfEmpty(h)    == [op |-> "throw_if_empty", handle |-> h, unwind |-> <<>>]
Destroy(h)         == [op |-> "destroy", handle |-> h]
Move(h, g)         == [op |-> "move", handle |-> h, from |-> g]
Assign(h, g)       == [op |-> "assign", handle |-> h, from |-> g]
Swap(h, g)         == [op |-> "swap", handle |-> h, from |-> g]
Undefined          == [op |-> "undefined"]
Terminate          == [op |-> "terminate"]
EndLifetime(x)     == [op |-> "end_lifetime", at |-> x]
Access(x, how, n)  == [op |-> "access", at |-> x, how |-> how, arg |-> n]
Store(x, v, order) == [op |-> "store", at |-> x, arg |-> v, order |-> order]
Load(x)            == [op |-> "load", at |-> x]
Await(x, n)        == [op |-> "await", at |-> x, arg |-> n]
RMW(x, how, n, order) ==
  [op |-> "read_modify_write", at |-> x, how |-> how, arg |-> n, order |-> order]
Spin(x, order)     == [op |-> "spin", at |-> x, order |-> order]
Exchange(x, e, d)  == [op |-> "exchange", at |-> x, expected |-> e, arg |-> d]
ExchangeLoop(x)    == [op |-> "exchange_loop", at |-> x]
Assert(r, v)       == [op |-> "assert", reg |-> r, arg |-> v]

(* Runs body, and if it throws, the handler before the exception goes on.  *)
Catch(body, handler) ==
  [i \in DOMAIN body |->
     IF "unwind" \in DOMAIN body[i] THEN [body[i] EXCEPT !.unwind = @ \o handler] ELSE body[i]]

(* An exception that leaves a destructor or a noexcept function. *)
NoExcept(body) == Catch(body, <<Terminate>>)

(* Runs body in a scope that ends with these destructors. *)
Within(body, destructors) ==
  Catch(body, NoExcept(destructors)) \o NoExcept(destructors)

(* A local std::thread h that runs f, and what its scope does with it. *)
Thread(h, f, rest) == <<Start(h, f)>> \o Within(rest, <<Destroy(h)>>)

(* A vector of n threads, and what is done before and after they are joined. *)
ThreadVector(n, f(_), before, after) ==
  Within([i \in 1 .. n |-> Start(i, f(i))] \o before \o [i \in 1 .. n |-> Join(i)] \o after,
         [i \in 1 .. n |-> Destroy(i)])

-----------------------------------------------------------------------------
(* Chapter 1, HelloWorld *)
hello_world ==
  Thread(1, <<Work>>, Thread(2, <<Work>>, Thread(3, <<Work>>, <<Join(1), Join(2), Join(3)>>)))

(* 2.1_BasicThreadManagement: my_thread and myThread are 1 and 2; an int   *)
(* is to be returned and is not.                                           *)
worspace1 == Thread(1, <<Work>>, Thread(2, <<Work>>, <<Join(1), Detach(2)>>)) \o <<Undefined>>

(* The loop counts to a million: two increments show what any number does. *)
Funct == <<Access("someLocalState", "add", 1), Access("someLocalState", "add", 1)>>

WithLocalState(body) == Within(body, <<EndLifetime("someLocalState")>>)

oops == WithLocalState(Thread(1, Funct, <<Detach(1)>>))

(* Mutant: only the normal path joins. *)
better_oops_without_catch == WithLocalState(Thread(1, Funct, <<Risk, Join(1)>>))

better_oops == WithLocalState(Thread(1, Funct, Catch(<<Risk>>, <<Join(1)>>) \o <<Join(1)>>))

(* Mutant: the destructor detaches. *)
DetachingGuard(h, rest) == Within(rest, <<Detach(h)>>)

(* The destructor joins a thread that was not joined. *)
ThreadGuard(h, rest) == Within(rest, <<JoinIfJoinable(h)>>)

much_better_oops == WithLocalState(Thread(1, Funct, ThreadGuard(1, <<Risk>>)))

(* 2.1.3_ThreadGuardMoved: target is 1, t is 2.  The guard is constructed  *)
(* from a thread or from an empty one; target outlives the constructor.    *)
ScopedThreadGuard(rest) ==
  <<Move(2, 1)>> \o Within(<<ThrowIfEmpty(2)>> \o Within(rest, <<Join(2)>>), <<Destroy(2)>>)

scoped       == WithLocalState(<<Start(1, Funct)>>
                  \o Within(ScopedThreadGuard(<<Risk>>), <<Destroy(1)>>))
scoped_empty == WithLocalState(ScopedThreadGuard(<<Risk>>))

(* 2.1.3_AutoJoiningThreadClass: what a client may call on the objects h   *)
(* and g.  An object that is not there yet is an empty one; the parameter  *)
(* of operator=(std::thread) is 3, and so is what a client assigns to the  *)
(* std::thread that as_thread() hands out, or takes out of it.             *)
FromCallable(h)       == <<Start(h, <<Work>>)>>
MoveConstruct(h, g)   == <<Move(h, g)>>
MoveAssign(h, g)      == NoExcept(<<JoinIfJoinable(h), Move(h, g)>>)
AssignParameter(h)    == Within(<<JoinIfJoinable(h), Move(h, 3), Undefined>>, <<Destroy(3)>>)
AssignThread(h)       == <<Start(3, <<Work>>)>> \o AssignParameter(h)
AssignMoved(h, g)     == <<Move(3, g)>> \o AssignParameter(h)
AssignAsThread(h)     == <<Start(3, <<Work>>)>> \o Within(<<Assign(h, 3)>>, <<Destroy(3)>>)
AutoJoiningDestroy(h) == <<JoinIfJoinable(h), Destroy(h)>>

Constructors(h, g) == {FromCallable(h), MoveConstruct(h, g)}
Members(h, g) ==
  {MoveAssign(h, g), MoveAssign(h, h), AssignThread(h), AssignParameter(h),
   AssignMoved(h, g), AssignMoved(h, h), AssignAsThread(h), <<Swap(h, g)>>,
   <<Join(h)>>, <<Detach(h)>>, AutoJoiningDestroy(h)}

(* 2.1.4_BackgroundThreads: the local t of each editor is named after its  *)
(* thread.  getUserInput comes first, then getFilenameFromUser or          *)
(* processUserInput; what they throw leaves the function of a thread.      *)
Edit == [op |-> "edit"]
open_new_document(t)  == NoExcept(<<Risk, Risk>> \o Thread(t, <<Edit>>, <<Detach(t)>>))
process_other_command == NoExcept(<<Risk, Risk>>)

(* 2.1.6_ContainarisedThreads: three threads for the thirty; the vector    *)
(* has no room reserved, and allocates before it constructs the thread.    *)
function        == <<Work, Work>>
emplace_back(i) == <<Risk, Start(i, function)>>
containers ==
  Within(emplace_back(1) \o emplace_back(2) \o emplace_back(3) \o <<Join(1), Join(2), Join(3)>>,
         <<Destroy(1), Destroy(2), Destroy(3)>>)

-----------------------------------------------------------------------------
(* 2.1.7_NaiveParallelAccumulate: element i of the range is 2^i, so that   *)
(* a sum tells which elements were added, and how often.                   *)

max_threads(in) == (in.length + MinPerThread - 1) \div MinPerThread
num_threads(in) == Min({IF in.cores # 0 THEN in.cores ELSE 2, max_threads(in)})
block_size(in)  == in.length \div num_threads(in)

SumOf(S) == SumFunctionOnSet([i \in S |-> 2 ^ i], S)

(* Mutant: every block has the same size. *)
equal_block(in, i) == i * block_size(in) .. (i + 1) * block_size(in) - 1

block(in, i) ==
  i * block_size(in) ..
    (IF i = num_threads(in) - 1 THEN in.length ELSE (i + 1) * block_size(in)) - 1

(* result = accumulate(first, last, result), where result is 0 before *)
accumulate_block(in, i) == <<Access(results[i + 1], "add", SumOf(block(in, i)))>>

parallel_accumulate(in) ==
  IF in.length = 0 THEN <<>>
  ELSE LET n == num_threads(in)
           Results(f(_)) == [i \in 1 .. n |-> f(results[i])]
       IN  Within(ThreadVector(n - 1, LAMBDA i : accumulate_block(in, i - 1),
                               accumulate_block(in, n - 1),
                               Results(LAMBDA x : Access(x, "collect", 0))),
                  Results(EndLifetime))

-----------------------------------------------------------------------------
(* 1-AtomicFlag *)
atomic_flag == <<Store("flag", 0, "release"), RMW("flag", "set", 1, "seq_cst"), Assert("val", 0)>>

lock == <<Spin("flag", "acquire")>>

(* Mutant: the order of the store is relaxed. *)
relaxed_unlock == <<Store("flag", 0, "relaxed")>>

(* Mutant: nothing clears the flag. *)
no_unlock == <<>>

unlock == <<Store("flag", 0, "release")>>

(* The class has no client in its file: threads that count under it. *)
Counting == lock \o <<Access("counter", "add", 1)>> \o unlock
spinlock_mutex(in) == ThreadVector(in.cores, LAMBDA i : Counting \o Counting, <<>>, <<>>)

(* compare_exchange.  value.load() != desired (28) follows from == 33. *)
simple_compare_exchange_weak ==
  <<Exchange("counter", 0, 33), Load("counter"), Assert("val", 33), Assert("ok", 1),
    Exchange("counter", 22, 44), Load("counter"), Assert("val", 33), Assert("ok", 0),
    Assert("expected", 33)>>

increment_with_loop == <<Load("counter"), ExchangeLoop("counter")>>

multithread_compare_exchange_weak(in) ==
  ThreadVector(in.cores, LAMBDA i : increment_with_loop, <<>>, <<>>)

(* Mutant: the data is written after it was announced. *)
late_producer ==
  <<Store("atomic_var", 1, "release"), Access("data", "write", 42)>>

(* release_sequence_example *)
producer ==
  <<Access("data", "write", 42), Store("atomic_var", 1, "release"),
    RMW("atomic_var", "fetch_add", 1, "relaxed"), Store("atomic_var", 2, "relaxed")>>
consumer == <<Await("atomic_var", 1), Access("data", "read", 0), Assert("val", 42)>>
release_sequence == Thread(1, producer, Thread(2, consumer, <<Join(1), Join(2)>>))

(* 3_PointerArithmetic: a pointer is the index of the element it points    *)
(* to.  The assertions on x are the comments beside its output.            *)
FetchAdd(x, n, order) == RMW(x, "fetch_add", n, order)   \* returns the old value
AddFetch(x, n)        == RMW(x, "+=", n, "seq_cst")      \* returns the new one
pointer_arithmetic ==
  <<AddFetch("atomic_var", 3), Load("atomic_var"), Assert("val", 3),
    FetchAdd("atomic_var", 3, "seq_cst"), Assert("val", 3),
    FetchAdd("atomic_var", -2, "seq_cst"), Assert("val", 6), Load("atomic_var"), Assert("val", 4),
    FetchAdd("counter", 2, "seq_cst"), Assert("val", 0), Load("counter"), Assert("val", 2),
    AddFetch("counter", -1), Assert("val", 1), Load("counter"), Assert("val", 1),
    FetchAdd("counter", 3, "release")>>

-----------------------------------------------------------------------------

NoInput == [length |-> 0, cores |-> 0, standard |-> 20, initial |-> 0]

(* What a program depends on: the range, hardware_concurrency() (which     *)
(* may be 0), the version of C++, and what an uninitialised atomic holds.  *)
Inputs(p) ==
  CASE p = "parallel_accumulate" ->
         {[NoInput EXCEPT !.length = n, !.cores = c, !.initial = 2 ^ n] :
            n \in 0 .. MaxLength, c \in 0 .. MaxThreads}
    [] p = "spinlock_mutex" -> {[NoInput EXCEPT !.cores = c] : c \in 2 .. MaxThreads}
    [] p = "multithread_compare_exchange_weak" ->
         {[NoInput EXCEPT !.cores = c, !.initial = g] : c \in 0 .. MaxThreads, g \in Garbage}
    [] p = "release_sequence" -> {[NoInput EXCEPT !.standard = s] : s \in {17, 20}}
    [] OTHER -> {NoInput}

Code(p, in) ==
  CASE p = "hello_world" -> hello_world
    [] p = "worspace1" -> worspace1
    [] p = "oops" -> oops
    [] p = "better_oops" -> better_oops
    [] p = "much_better_oops" -> much_better_oops
    [] p = "scoped" -> scoped
    [] p = "scoped_empty" -> scoped_empty
    [] p = "auto_joining" -> <<>>
    [] p = "edit_document" -> <<Edit>>
    [] p = "containers" -> containers
    [] p = "parallel_accumulate" -> parallel_accumulate(in)
    [] p = "atomic_flag" -> atomic_flag
    [] p = "spinlock_mutex" -> spinlock_mutex(in)
    [] p = "simple_compare_exchange_weak" -> simple_compare_exchange_weak
    [] p = "multithread_compare_exchange_weak" -> multithread_compare_exchange_weak(in)
    [] p = "release_sequence" -> release_sequence
    [] p = "pointer_arithmetic" -> pointer_arithmetic

-----------------------------------------------------------------------------

VARIABLES
  program,   \* the program that runs
  input,     \* what it depends on
  started,   \* how many threads were started
  released,  \* the threads that were joined or detached
  handle,    \* the thread that each std::thread object holds, or Empty
  code,      \* what each thread has left to execute
  reg,       \* the local variables of each thread
  memory,    \* the history of each location
  view,      \* the view of each thread
  dead,      \* the local variables whose lifetime has ended
  faults,    \* what has failed so far
  ended      \* how the whole program ended, or "no"

objects == <<started, released, handle>>
atomics == <<memory, view, reg>>
vars == <<program, input, objects, code, atomics, dead, faults, ended>>

Init ==
  /\ program \in Programs
  /\ input \in Inputs(program)
  /\ started = 0
  /\ released = {}
  /\ handle = [h \in Handles |-> Empty]
  /\ code = [t \in Threads |-> IF t = main THEN Code(program, input) ELSE <<>>]
  /\ reg = [t \in Threads |->
              [val |-> IF program = "parallel_accumulate" THEN input.initial ELSE 0,
               ok |-> 0, expected |-> 0]]
  /\ memory = [x \in Locations |->
                 <<Message(IF x = "counter" THEN input.initial ELSE 0, {})>>]
  /\ view = [t \in Threads |-> [x \in Locations |-> 1]]
  /\ dead = {}
  /\ faults = {}
  /\ ended = "no"

At(t, op) == ended = "no" /\ code[t] # <<>> /\ Head(code[t]).op = op
Instr(t)  == Head(code[t])
Held(t)   == handle[Instr(t).handle]
Rest(t)   == Tail(code[t])

Become(t, instrs) == code' = [code EXCEPT ![t] = instrs]
Continue(t)       == Become(t, Rest(t))
OnlyCode          == UNCHANGED <<program, input, objects, atomics, dead, faults, ended>>

(* The exception runs what unwinding runs, and nothing else. *)
Raise(t, what) ==
  /\ Become(t, Instr(t).unwind)
  /\ faults' = faults \cup {what}
  /\ UNCHANGED <<program, input, objects, atomics, dead, ended>>

End(how) ==
  /\ ended' = how
  /\ UNCHANGED <<program, input, objects, code, atomics, dead, faults>>

-----------------------------------------------------------------------------
(* std::thread *)

(* What the parent did happens before what its child does. *)
StartThread(t) ==
  /\ At(t, "start")
  /\ started < MaxThreads
  /\ started' = started + 1
  /\ handle' = [handle EXCEPT ![Instr(t).handle] = started + 1]
  /\ code' = [code EXCEPT ![t] = Rest(t), ![started + 1] = Instr(t).body]
  /\ view' = [view EXCEPT ![started + 1] = view[t]]
  /\ UNCHANGED <<program, input, released, reg, memory, dead, faults, ended>>

(* The constructor may throw system_error at any time. *)
StartThrows(t) == At(t, "start") /\ Raise(t, "start")

(* join waits for the thread; what it did happens before what follows. *)
JoinThread(t) ==
  /\ At(t, "join") \/ At(t, "join_if_joinable")
  /\ Held(t) # Empty
  /\ code[Held(t)] = <<>>
  /\ released' = released \cup {Held(t)}
  /\ handle' = [handle EXCEPT ![Instr(t).handle] = Empty]
  /\ view' = [view EXCEPT ![t] = JoinViews(@, {view[Held(t)]})]
  /\ Continue(t)
  /\ UNCHANGED <<program, input, started, reg, memory, dead, faults, ended>>

DetachThread(t) ==
  /\ At(t, "detach")
  /\ Held(t) # Empty
  /\ released' = released \cup {Held(t)}
  /\ handle' = [handle EXCEPT ![Instr(t).handle] = Empty]
  /\ Continue(t)
  /\ UNCHANGED <<program, input, started, atomics, dead, faults, ended>>

(* join and detach of what is not joinable throw, and so does the          *)
(* constructor of ScopedThreadGuard.                                       *)
NotJoinableThrows(t) ==
  /\ At(t, "join") \/ At(t, "detach") \/ At(t, "throw_if_empty")
  /\ Held(t) = Empty
  /\ Raise(t, "not_joinable")

MoveThread(t) ==
  /\ At(t, "move") \/ At(t, "assign")
  /\ Held(t) = Empty
  /\ handle' = [handle EXCEPT ![Instr(t).handle] = handle[Instr(t).from],
                              ![Instr(t).from] = Empty]
  /\ Continue(t)
  /\ UNCHANGED <<program, input, started, released, atomics, dead, faults, ended>>

(* What does nothing but pass: a stub, the destructor of a std::thread     *)
(* without thread, and the tests of the guards that find what they want.   *)
Pass(t) ==
  /\ \/ At(t, "work") \/ At(t, "risk")
     \/ (At(t, "join_if_joinable") \/ At(t, "destroy")) /\ Held(t) = Empty
     \/ At(t, "throw_if_empty") /\ Held(t) # Empty
  /\ Continue(t)
  /\ OnlyCode

(* Destroying or overwriting a joinable std::thread, and an exception that *)
(* may not be thrown.                                                      *)
TerminateProgram(t) ==
  /\ \/ (At(t, "destroy") \/ At(t, "move") \/ At(t, "assign")) /\ Held(t) # Empty
     \/ At(t, "terminate")
  /\ End("terminate")

(* Mutant: the first object is overwritten before it is read. *)
SwapWithoutTemporary(t) ==
  /\ At(t, "swap")
  /\ handle' = [handle EXCEPT ![Instr(t).handle] = handle[Instr(t).from]]
  /\ Continue(t)
  /\ UNCHANGED <<program, input, started, released, atomics, dead, faults, ended>>

SwapThreads(t) ==
  /\ At(t, "swap")
  /\ handle' = [handle EXCEPT ![Instr(t).handle] = handle[Instr(t).from],
                              ![Instr(t).from] = Held(t)]
  /\ Continue(t)
  /\ UNCHANGED <<program, input, started, released, atomics, dead, faults, ended>>

(* A client of AutoJoiningThread calls any function of its two objects. *)
CallAutoJoining(h, g) ==
  /\ program = "auto_joining" /\ ended = "no" /\ code[main] = <<>>
  /\ \E body \in Members(h, g) \cup (IF handle[h] = Empty THEN Constructors(h, g) ELSE {}) :
       Become(main, body)
  /\ OnlyCode

(* The user of an editor opens a document, or does something else. *)
EditDocument(t) ==
  /\ At(t, "edit")
  /\ \E body \in {open_new_document(t), process_other_command} : Become(t, body \o code[t])
  /\ OnlyCode

-----------------------------------------------------------------------------
(* Stubs, lifetimes, assertions *)

WorkThrows(t) == At(t, "risk") /\ Raise(t, "work")

(* operator=(std::thread) and worspace1 have no return statement: the call *)
(* returns, or anything else happens.                                      *)
FlowOffTheEnd(t) ==
  /\ At(t, "undefined")
  /\ \/ End("undefined")
     \/ /\ Continue(t)
        /\ OnlyCode

Leave(t) ==
  /\ At(t, "end_lifetime")
  /\ dead' = dead \cup {Instr(t).at}
  /\ Continue(t)
  /\ UNCHANGED <<program, input, objects, atomics, faults, ended>>

AssertionHolds(t) == reg[t][Instr(t).reg] = Instr(t).arg

CheckAssertion(t) ==
  /\ At(t, "assert")
  /\ IF AssertionHolds(t)
     THEN /\ Continue(t)
          /\ OnlyCode
     ELSE End("assertion_failed")

-----------------------------------------------------------------------------
(* Memory *)

Loc(t)    == Instr(t).at
Newest(t) == Len(memory[Loc(t)])
Last(t)   == memory[Loc(t)][Newest(t)]

MemoryStep(t) == UNCHANGED <<program, input, objects, dead, faults, ended>>

Write(t, m)      == memory' = [memory EXCEPT ![Loc(t)] = Append(@, m)]
Know(t, v)       == view' = [view EXCEPT ![t] = v]
Set(t, field, v) == reg' = [reg EXCEPT ![t][field] = v]

(* An access to an object that is not atomic.  Every access, also a read,  *)
(* is a message, so that a thread that lacks the newest one races.  A race *)
(* is undefined behaviour: the thread may see any value it does not know   *)
(* to be overwritten.                                                      *)
AccessData(t) ==
  /\ At(t, "access")
  /\ \E i \in view[t][Loc(t)] .. Newest(t) :
       LET v == memory[Loc(t)][i].val
           n == Instr(t).arg
       IN  CASE Instr(t).how = "add"     -> Write(t, Message(v + n, {})) /\ UNCHANGED reg
             [] Instr(t).how = "write"   -> Write(t, Message(n, {})) /\ UNCHANGED reg
             [] Instr(t).how = "read"    -> Write(t, Last(t)) /\ Set(t, "val", v)
             [] Instr(t).how = "collect" -> Write(t, Last(t)) /\ Set(t, "val", reg[t].val + v)
  /\ Know(t, [view[t] EXCEPT ![Loc(t)] = Newest(t) + 1])
  /\ Continue(t)
  /\ MemoryStep(t)

StoreAtomic(t) ==
  /\ At(t, "store")
  /\ LET w == [view[t] EXCEPT ![Loc(t)] = Newest(t) + 1]
     IN  /\ Write(t, Stored(t, w, Instr(t).arg, Last(t), Instr(t).order, input.standard))
         /\ Know(t, w)
  /\ Continue(t)
  /\ UNCHANGED reg
  /\ MemoryStep(t)

(* t reads the newest message and adds one with value v. *)
Modify(t, v, order) ==
  LET w == [AfterRead(view[t], Loc(t), Newest(t), Last(t), order) EXCEPT ![Loc(t)] = Newest(t) + 1]
  IN  /\ Write(t, Modified(t, w, v, Last(t), order))
      /\ Know(t, w)

(* t reads the newest message only. *)
Observe(t, order) ==
  /\ Know(t, AfterRead(view[t], Loc(t), Newest(t), Last(t), order))
  /\ UNCHANGED memory

(* A sequentially consistent load of an object that only such operations   *)
(* change.                                                                 *)
LoadAtomic(t) ==
  /\ At(t, "load")
  /\ Observe(t, "seq_cst")
  /\ reg' = [reg EXCEPT ![t].val = Last(t).val, ![t].expected =
               IF program = "multithread_compare_exchange_weak" THEN Last(t).val ELSE @]
  /\ Continue(t)
  /\ MemoryStep(t)

(* while (load(acquire) < n); any message that is not too old may be read. *)
AwaitValue(t) ==
  /\ At(t, "await")
  /\ \E i \in view[t][Loc(t)] .. Newest(t) :
       /\ Know(t, AfterRead(view[t], Loc(t), i, memory[Loc(t)][i], "acquire"))
       /\ IF memory[Loc(t)][i].val >= Instr(t).arg THEN Continue(t) ELSE UNCHANGED code
  /\ UNCHANGED <<memory, reg>>
  /\ MemoryStep(t)

ReadModifyWrite(t) ==
  /\ At(t, "read_modify_write")
  /\ LET old == Last(t).val
         new == IF Instr(t).how = "set" THEN 1 ELSE old + Instr(t).arg
     IN  /\ Modify(t, new, Instr(t).order)
         /\ Set(t, "val", IF Instr(t).how = "+=" THEN new ELSE old)
  /\ Continue(t)
  /\ MemoryStep(t)

(* Mutant: the flag is tested once, if instead of while. *)
SpinOnce(t) ==
  /\ At(t, "spin")
  /\ IF Last(t).val = 0 THEN Modify(t, 1, Instr(t).order) ELSE Observe(t, Instr(t).order)
  /\ Continue(t)
  /\ UNCHANGED reg
  /\ MemoryStep(t)

(* while (flag.test_and_set(order)); setting a flag that is set adds no    *)
(* message, as no reader could tell it from the one before.                *)
SpinOnFlag(t) ==
  /\ At(t, "spin")
  /\ IF Last(t).val = 0
     THEN Modify(t, 1, Instr(t).order) /\ Continue(t)
     ELSE Observe(t, Instr(t).order) /\ UNCHANGED code
  /\ UNCHANGED reg
  /\ MemoryStep(t)

(* compare_exchange_weak may fail although the value is the expected one. *)
CompareExchange(t) ==
  /\ At(t, "exchange")
  /\ \/ /\ Last(t).val = Instr(t).expected
        /\ Modify(t, Instr(t).arg, "seq_cst")
        /\ Set(t, "ok", 1)
        /\ UNCHANGED faults
     \/ /\ Observe(t, "seq_cst")
        /\ reg' = [reg EXCEPT ![t].ok = 0, ![t].expected = Last(t).val]
        /\ faults' = IF Last(t).val = Instr(t).expected THEN faults \cup {"spurious"} ELSE faults
  /\ Continue(t)
  /\ UNCHANGED <<program, input, objects, dead, ended>>

(* Mutant: the value is not compared. *)
ExchangeAnyway(t) ==
  /\ At(t, "exchange_loop")
  /\ Modify(t, reg[t].expected + 1, "seq_cst")
  /\ Continue(t)
  /\ UNCHANGED reg
  /\ MemoryStep(t)

(* The loop ends when the exchange succeeds; desired is expected + 1, also *)
(* after a failure.                                                        *)
ExchangeInLoop(t) ==
  /\ At(t, "exchange_loop")
  /\ \/ /\ Last(t).val = reg[t].expected
        /\ Modify(t, reg[t].expected + 1, "seq_cst")
        /\ Continue(t)
        /\ UNCHANGED reg
     \/ /\ Observe(t, "seq_cst")
        /\ Set(t, "expected", Last(t).val)
        /\ UNCHANGED code
  /\ MemoryStep(t)

-----------------------------------------------------------------------------

Step(t) ==
  \/ StartThread(t) \/ StartThrows(t) \/ JoinThread(t) \/ DetachThread(t)
  \/ NotJoinableThrows(t) \/ MoveThread(t) \/ SwapThreads(t) \/ TerminateProgram(t)
  \/ EditDocument(t) \/ Pass(t) \/ WorkThrows(t) \/ FlowOffTheEnd(t) \/ Leave(t) \/ CheckAssertion(t)
  \/ AccessData(t) \/ StoreAtomic(t) \/ LoadAtomic(t) \/ AwaitValue(t)
  \/ ReadModifyWrite(t) \/ SpinOnFlag(t) \/ CompareExchange(t) \/ ExchangeInLoop(t)

Next ==
  \/ \E t \in Threads : Step(t)
  \/ \E h, g \in {1, 2} : h # g /\ CallAutoJoining(h, g)

(* The scheduler runs every thread; a client of AutoJoiningThread may stop. *)
Spec == Init /\ [][Next]_vars /\ \A t \in Threads : WF_vars(Step(t))

-----------------------------------------------------------------------------

(* Through every sequence of moves, assignments, swaps, joins, detaches    *)
(* and exceptions, a thread belongs to exactly one std::thread object      *)
(* until it is joined or detached, and to none afterwards.                 *)
OneOwner ==
  \A n \in 1 .. started :
    Cardinality({h \in Handles : handle[h] = n}) = IF n \in released THEN 0 ELSE 1

Guarded == {"oops", "better_oops", "much_better_oops", "scoped", "scoped_empty", "auto_joining"}

(* The guards and the catch clause leave no path, exceptions included, on  *)
(* which a joinable std::thread is destroyed or overwritten, unless a      *)
(* client assigns to what as_thread() hands out; the other programs are    *)
(* terminated only if a thread could not be started, or a stub threw.      *)
GuardsNeverTerminate ==
  ended = "terminate" =>
    \/ program \notin Guarded /\ faults \cap {"start", "work"} # {}
    \/ program = "auto_joining" /\ Instr(main).op = "assign"

(* No thread uses a local variable whose lifetime has ended, except the    *)
(* one that oops detaches: "the thread is detached doing something and     *)
(* oops will quickly finish".                                              *)
LocalsOutliveUse ==
  \A t \in Threads :
    At(t, "access") /\ Instr(t).at \in dead => program = "oops"

(* A thread that accesses an object that is not atomic has seen all that   *)
(* others did with it before, by a start, a join, the spinlock or a        *)
(* release sequence.  Since C++20 the last store of producer ("End release *)
(* sequence") is in no release sequence, and the consumer may read it.     *)
NoDataRace ==
  \A t \in Threads :
    At(t, "access") /\ view[t][Instr(t).at] # Len(memory[Instr(t).at]) =>
      program = "release_sequence" /\ input.standard >= 20

(* An assertion fails only after an exchange that "can however fail        *)
(* spuriously", and, since C++20, for the consumer that races.             *)
AssertionsHold ==
  ended = "assertion_failed" =>
    \/ program = "simple_compare_exchange_weak" /\ "spurious" \in faults
    \/ program = "release_sequence" /\ input.standard >= 20

Returned(p) == program = p /\ ended = "no" /\ code[main] = <<>> /\ "start" \notin faults

(* Between lock and unlock of spinlock_mutex: at the counter, or about to  *)
(* clear the flag.                                                         *)
InSection(t) == program = "spinlock_mutex" /\ (At(t, "access") \/ At(t, "store"))

(* The spinlock excludes: no two threads are between lock and unlock,      *)
(* although test_and_set and clear are ordered by acquire and release only.*)
SpinlockExcludes == \A t, u \in Threads : InSection(t) /\ InSection(u) => t = u

(* Whatever the length of the range and the number of cores, 0 included,   *)
(* parallel_accumulate adds init and every element once.                   *)
SumIsComplete ==
  Returned("parallel_accumulate") => reg[main].val = SumOf(0 .. input.length)

(* No increment is lost: neither under the spinlock nor by the loop.       *)
NoLostIncrement ==
  LET count == memory["counter"][Len(memory["counter"])].val - input.initial
  IN  /\ Returned("multithread_compare_exchange_weak") => count = input.cores
      /\ Returned("spinlock_mutex") => count = 2 * input.cores

(* What main calls returns, or the program ends: join waits for no thread  *)
(* for ever, nor does a spinning or waiting thread; an editor is never     *)
(* done, as doneEditing() says.                                            *)
MainReturns ==
  []<>(code[main] = <<>> \/ ended # "no" \/ program = "edit_document")

(* compare_exchange.cpp: "So, after this operation, value should be equal  *)
(* to desired", and the assertion that follows.                            *)
ExchangeSucceeds == ended # "assertion_failed"
=============================================================================
