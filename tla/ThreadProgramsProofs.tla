------------------------ MODULE ThreadProgramsProofs ------------------------
(***************************************************************************)
(* Proofs about the programs of ThreadPrograms, for any number of threads, *)
(* any range and any order of steps and exceptions.                        *)
(*                                                                         *)
(* A logic of pre- and postconditions for instruction sequences comes      *)
(* first.  A condition, called a status, says of each std::thread object   *)
(* whether it is empty or holds a thread, as far as that is known, and     *)
(* whether the locals of main are still there.  Runs says that a sequence  *)
(* goes from one status to another, never uses an object in a way its      *)
(* status forbids, and reaches a third status when an exception leaves it. *)
(* The rules for Catch, Within and Thread follow; with them every program  *)
(* is shown to be safe, the blocks of parallel_accumulate being a matter   *)
(* of arithmetic.  Then what every thread has left to execute is shown to  *)
(* stay safe, whatever the other threads do, and the properties of         *)
(* std::thread are derived from that.  The last part is about the memory:  *)
(* no thread, and no message, knows of a write that was not made.          *)
(***************************************************************************)
EXTENDS ThreadPrograms, SumTheorems, SequenceTheorems, TLAPS

Fields == {"val", "ok", "expected"}

(* The type of every variable. *)
TypeOK ==
  /\ program \in Programs
  /\ input \in Inputs(program)
  /\ started \in 0 .. MaxThreads
  /\ released \subseteq 1 .. started
  /\ handle \in [Handles -> 0 .. started]
  /\ DOMAIN code = Threads
  /\ reg \in [Threads -> [Fields -> Int]]
  /\ \A l \in Locations : Len(memory[l]) >= 1
  /\ \A t \in Threads : \A l \in Locations : view[t][l] \in 1 .. Len(memory[l])
  /\ dead \subseteq Locations
  /\ faults \subseteq {"start", "not_joinable", "work", "spurious"}
  /\ ended \in {"no", "terminate", "undefined", "assertion_failed"}

-----------------------------------------------------------------------------
(* Sequences whose elements have no common type *)

(* Instructions are records of different shapes: s is a sequence, of       *)
(* whatever elements.                                                      *)
IsSequence(s) == Len(s) \in Nat /\ s = [i \in 1 .. Len(s) |-> s[i]]

(* A sequence is one over the set of its elements. *)
LEMMA SequenceElements ==
  ASSUME NEW s
  PROVE  IsSequence(s) <=> s \in Seq({s[i] : i \in 1 .. Len(s)})
<1>1. ASSUME IsSequence(s) PROVE s \in Seq({s[i] : i \in 1 .. Len(s)})
  <2>1. s \in [1 .. Len(s) -> {s[i] : i \in 1 .. Len(s)}]
    BY <1>1 DEF IsSequence
  <2> QED BY <2>1, <1>1, SeqDef DEF IsSequence
<1>2. ASSUME s \in Seq({s[i] : i \in 1 .. Len(s)}) PROVE IsSequence(s)
  BY <1>2 DEF IsSequence
<1> QED BY <1>1, <1>2

(* What is in Seq(S) is a sequence. *)
LEMMA SequenceType ==
  ASSUME NEW S, NEW s \in Seq(S)
  PROVE  IsSequence(s)
BY DEF IsSequence

(* The elements of a concatenation, in their places. *)
LEMMA Concatenation ==
  ASSUME NEW s, NEW r, IsSequence(s), IsSequence(r)
  PROVE  /\ IsSequence(s \o r)
         /\ Len(s \o r) = Len(s) + Len(r)
         /\ \A i \in 1 .. Len(s) : (s \o r)[i] = s[i]
         /\ \A i \in 1 .. Len(r) : (s \o r)[Len(s) + i] = r[i]
<1> DEFINE S == {s[i] : i \in 1 .. Len(s)} \cup {r[i] : i \in 1 .. Len(r)}
<1>1. s \in Seq(S) /\ r \in Seq(S)
  <2>1. s \in [1 .. Len(s) -> S] /\ r \in [1 .. Len(r) -> S]
    BY DEF IsSequence
  <2> QED BY <2>1, SeqDef DEF IsSequence
<1> HIDE DEF S
<1>2. s \o r \in Seq(S)
  BY <1>1
<1>3. IsSequence(s \o r)
  BY <1>2, SequenceType
<1>4. /\ Len(s \o r) = Len(s) + Len(r)
      /\ \A i \in 1 .. Len(s) : (s \o r)[i] = s[i]
      /\ \A i \in 1 .. Len(r) : (s \o r)[Len(s) + i] = r[i]
  BY <1>1
<1> QED BY <1>3, <1>4

(* The empty sequence is one. *)
LEMMA EmptySequence == IsSequence(<<>>) /\ Len(<<>>) = 0
BY DEF IsSequence

(* A single instruction as a sequence. *)
LEMMA OneElement == \A c : IsSequence(<<c>>) /\ Len(<<c>>) = 1 /\ <<c>>[1] = c
BY DEF IsSequence

(* The empty sequence is neutral. *)
LEMMA EmptyConcatenation ==
  ASSUME NEW s, IsSequence(s)
  PROVE  s \o <<>> = s /\ <<>> \o s = s
<1> QED BY SequenceElements

(* The first element and the others. *)
LEMMA TailSequence ==
  ASSUME NEW s, IsSequence(s), s # <<>>
  PROVE  /\ Len(s) >= 1
         /\ IsSequence(Tail(s)) /\ Len(Tail(s)) = Len(s) - 1
         /\ Head(s) = s[1]
         /\ \A i \in 1 .. Len(s) - 1 : Tail(s)[i] = s[i + 1]
<1>1. s \in Seq({s[i] : i \in 1 .. Len(s)})
  BY SequenceElements
<1>2. Len(s) # 0
  BY DEF IsSequence
<1> HIDE DEF IsSequence
<1> DEFINE S == {s[i] : i \in 1 .. Len(s)}
<1> HIDE DEF S
<1>3. s \in Seq(S)
  BY <1>1 DEF S
<1>4. Tail(s) \in Seq(S)
  BY <1>3, <1>2
<1>5. IsSequence(Tail(s))
  BY <1>4, SequenceType
<1>6. /\ Len(s) >= 1 /\ Len(Tail(s)) = Len(s) - 1 /\ Head(s) = s[1]
      /\ \A i \in 1 .. Len(s) - 1 : Tail(s)[i] = s[i + 1]
  BY <1>2, <1>3
<1> QED BY <1>5, <1>6

(* Sequences with the same elements are the same. *)
LEMMA SameSequence ==
  ASSUME NEW s, NEW r, IsSequence(s), IsSequence(r), Len(s) = Len(r),
         \A i \in 1 .. Len(s) : s[i] = r[i]
  PROVE  s = r
BY DEF IsSequence

(* Sequences written out as concatenations. *)
LEMMA ShortSequences ==
  \A a, b, c : <<a>> \o <<b>> = <<a, b>> /\ <<a>> \o <<b>> \o <<c>> = <<a, b, c>>
<1> SUFFICES ASSUME NEW a, NEW b, NEW c
             PROVE  <<a>> \o <<b>> = <<a, b>> /\ <<a, b>> \o <<c>> = <<a, b, c>>
  OBVIOUS
<1>1. /\ IsSequence(<<a, b>>) /\ Len(<<a, b>>) = 2 /\ <<a, b>>[1] = a /\ <<a, b>>[2] = b
      /\ IsSequence(<<a, b, c>>) /\ Len(<<a, b, c>>) = 3
      /\ <<a, b, c>>[1] = a /\ <<a, b, c>>[2] = b /\ <<a, b, c>>[3] = c
  BY DEF IsSequence
<1>2. ASSUME NEW s, IsSequence(s)
      PROVE  LET r == s \o <<c>>
             IN  /\ IsSequence(r) /\ Len(r) = Len(s) + 1
                 /\ \A i \in 1 .. Len(s) : r[i] = s[i]
                 /\ r[Len(s) + 1] = c
  BY <1>2, Concatenation, OneElement
<1>3. <<a>> \o <<b>> = <<a, b>>
  <2> DEFINE s == <<a>> \o <<b>>
  <2>1. IsSequence(s) /\ Len(s) = 2 /\ s[1] = a /\ s[2] = b
    <3>1. IsSequence(<<a>>) /\ Len(<<a>>) = 1 /\ <<a>>[1] = a
      BY OneElement
    <3>2. IsSequence(<<b>>) /\ Len(<<b>>) = 1 /\ <<b>>[1] = b
      BY OneElement
    <3>3. /\ \A i \in 1 .. 1 : s[i] = <<a>>[i]
          /\ \A i \in 1 .. 1 : s[1 + i] = <<b>>[i]
          /\ IsSequence(s) /\ Len(s) = 1 + 1
      BY <3>1, <3>2, Concatenation
    <3> HIDE DEF s
    <3> QED BY <3>1, <3>2, <3>3
  <2> HIDE DEF s
  <2>2. \A i \in 1 .. 2 : s[i] = <<a, b>>[i]
    BY <2>1, <1>1
  <2> QED BY <1>1, <2>1, <2>2, SameSequence DEF s
<1>4. <<a, b>> \o <<c>> = <<a, b, c>>
  <2> DEFINE s == <<a, b>> \o <<c>>
  <2>1. IsSequence(s) /\ Len(s) = 3 /\ s[1] = a /\ s[2] = b /\ s[3] = c
    BY <1>1, <1>2
  <2> HIDE DEF s
  <2>2. \A i \in 1 .. 3 : s[i] = <<a, b, c>>[i]
    BY <2>1, <1>1
  <2> QED BY <1>1, <2>1, <2>2, SameSequence DEF s
<1> QED BY <1>3, <1>4

-----------------------------------------------------------------------------
(* Statuses, and what runs from one to another *)

(* The place of a status that is about the locals of main. *)
Locals   == -1
Objects  == {Locals} \cup Handles
(* What is known of each std::thread object at a place of the code (that   *)
(* it is empty, that it holds a thread, or nothing), and whether the       *)
(* locals of main are still there.                                         *)
Statuses == [Objects -> {"empty", "held", "any"}]

(* x says no more than st. *)
Covers(x, st) == \A o \in Objects : x[o] \in {"any", st[o]}

AllEmpty == [o \in Objects |-> "empty"]

Throwing  == {"risk", "start", "join", "detach", "throw_if_empty"}
HandleOps == {"start", "join", "join_if_joinable", "detach", "throw_if_empty", "destroy",
              "move", "assign", "swap"}

(* What is known after c, when st was known before. *)
After(c, st) ==
  CASE c.op \in {"start", "throw_if_empty"} -> [st EXCEPT ![c.handle] = "held"]
    [] c.op \in {"join", "join_if_joinable", "detach", "destroy"} ->
         [st EXCEPT ![c.handle] = "empty"]
    [] c.op \in {"move", "assign"} -> [st EXCEPT ![c.handle] = st[c.from], ![c.from] = "empty"]
    [] c.op = "swap" -> [st EXCEPT ![c.handle] = st[c.from], ![c.from] = st[c.handle]]
    [] c.op = "end_lifetime" -> [st EXCEPT ![Locals] = "empty"]
    [] c.op = "terminate" -> AllEmpty
    [] OTHER -> st

(* What is known when c throws. *)
Unwound(c, st) ==
  IF c.op \in {"join", "detach", "throw_if_empty"}
  THEN [st EXCEPT ![c.handle] = "empty"] ELSE st

(* c has the fields that its operation uses. *)
Formed(c) ==
  /\ "op" \in DOMAIN c
  /\ "unwind" \in DOMAIN c <=> c.op \in Throwing
  /\ c.op \in Throwing => IsSequence(c.unwind)
  /\ c.op \in Throwing \cap HandleOps => "handle" \in DOMAIN c
  /\ c.op = "start" => "body" \in DOMAIN c

(* The fields of c that are about memory have values of the right type. *)
Typed(c) ==
  /\ c.op \in {"access", "store", "load", "await", "read_modify_write", "spin", "exchange",
               "exchange_loop", "end_lifetime"} => c.at \in Locations
  /\ c.op \in {"access", "store", "await", "read_modify_write", "exchange"} => c.arg \in Int
  /\ c.op = "exchange" => c.expected \in Int
  /\ c.op = "access" => c.how \in {"add", "write", "read", "collect"}
  /\ c.op = "assert" => c.reg \in Fields

PlainOps == {"work", "access", "store", "load", "await", "read_modify_write", "spin",
             "exchange", "exchange_loop", "assert"}

(* b uses no std::thread object. *)
Plain(p, b) ==
  /\ IsSequence(b)
  /\ \A i \in 1 .. Len(b) :
       /\ Formed(b[i]) /\ Typed(b[i])
       /\ b[i].op \in PlainOps \/ (p = "edit_document" /\ b[i].op = "edit")

(* The std::thread objects that are local to t. *)
HandlesOf(p, t) ==
  IF p = "edit_document" THEN {t} ELSE IF t = main THEN Handles ELSE {}

(* Programs with threads that are detached, or whose objects main never    *)
(* leaves.                                                                 *)
Detaching == {"worspace1", "auto_joining", "edit_document"}

(* Thread t of program p may execute c when st is known. When strict       *)
(* holds, a joinable object is never destroyed.                            *)
Fine(p, t, c, st, strict) ==
  /\ Formed(c) /\ Typed(c)
  /\ c.op \in HandleOps => c.handle \in HandlesOf(p, t)
  /\ c.op \in {"move", "assign", "swap"} => c.from \in HandlesOf(p, t)
  /\ c.op \in {"start", "move"} => st[c.handle] = "empty"
  /\ c.op = "assign" => p = "auto_joining" /\ t = main
  /\ c.op = "start" => Plain(p, c.body)
  /\ c.op \in {"start", "access", "edit"} /\ t = main => st[Locals] = "held"
  /\ c.op = "destroy" /\ strict => st[c.handle] = "empty"
  /\ c.op = "terminate" => ~strict
  /\ c.op = "detach" => p \in Detaching \cup {"oops"}
  /\ c.op = "edit" => p = "edit_document" /\ st[t] = "empty"
  /\ c.op = "end_lifetime" =>
       /\ t = main /\ p \notin Detaching
       /\ \A h \in Handles : st[h] = "empty"

(* An instruction that does not throw, or does not throw here. *)
Steady(c, st) ==
  /\ c.op \notin {"risk", "start"}
  /\ c.op \in {"join", "detach", "throw_if_empty"} => st[c.handle] = "held"

(* a says what is known before each instruction of s, from st at its start *)
(* to st2 at its end.                                                      *)
Annotates(p, t, a, s, st, st2, strict) ==
  /\ a \in [1 .. Len(s) + 1 -> Statuses]
  /\ Covers(a[1], st) /\ Covers(st2, a[Len(s) + 1])
  /\ \A i \in 1 .. Len(s) :
       Fine(p, t, s[i], a[i], strict) /\ Covers(a[i + 1], After(s[i], a[i]))

(* s runs from st to st2 and does not throw. *)
Quiet(p, t, u, st, st2, strict) ==
  /\ IsSequence(u)
  /\ \E a : /\ Annotates(p, t, a, u, st, st2, strict)
            /\ \A i \in 1 .. Len(u) : Steady(u[i], a[i])

(* What unwinding runs when c throws leads to exc, without exceptions.     *)
(* Outside the guarded programs only the start of a thread throws, and the *)
(* stubs and allocations of two programs.                                  *)
Throws(p, t, c, st, exc) ==
  /\ p \in Guarded \/ c.op = "start" \/ (c.op = "risk" /\ p \in {"edit_document", "containers"})
  /\ Quiet(p, t, c.unwind, Unwound(c, st), exc, p \in Guarded)

(* s runs from st to st2, and an exception that leaves it leads to exc. *)
Runs(p, t, s, st, st2, exc, strict) ==
  /\ IsSequence(s)
  /\ \E a : /\ Annotates(p, t, a, s, st, st2, strict)
            /\ \A i \in 1 .. Len(s) :
                 Steady(s[i], a[i]) \/ (s[i].op \in Throwing /\ Throws(p, t, s[i], a[i], exc))

(* Every status covers itself. *)
LEMMA CoversSelf == \A st : Covers(st, st)
BY DEF Covers

(* Covering is transitive. *)
LEMMA CoversTrans ==
  ASSUME NEW x, NEW y, NEW z, Covers(x, y), Covers(y, z)
  PROVE  Covers(x, z)
BY DEF Covers

(* The objects of a thread are std::thread objects, the locals of main are *)
(* none.                                                                   *)
LEMMA HandlesAreObjects ==
  \A p : \A t \in Threads : HandlesOf(p, t) \subseteq Handles /\ Locals \notin Handles
BY ThreadProgramsAssumption DEF HandlesOf, Handles, Threads, Workers, main, Locals

(* An instruction that may be executed names std::thread objects. *)
LEMMA FieldsOfFine ==
  ASSUME NEW p, NEW t \in Threads, NEW c, NEW st, NEW strict, Fine(p, t, c, st, strict)
  PROVE  /\ c.op \in HandleOps => c.handle \in Handles
         /\ c.op \in {"move", "assign", "swap"} => c.from \in Handles
BY HandlesAreObjects DEF Fine

(* What is known after an instruction, or after its exception, is a        *)
(* status.                                                                 *)
LEMMA AfterType ==
  ASSUME NEW p, NEW t \in Threads, NEW c, NEW st \in Statuses, NEW strict,
         Fine(p, t, c, st, strict)
  PROVE  After(c, st) \in Statuses /\ Unwound(c, st) \in Statuses
<1>1. /\ c.op \in HandleOps => c.handle \in Objects
      /\ c.op \in {"move", "assign", "swap"} => c.from \in Objects
      /\ Locals \in Objects
  BY FieldsOfFine DEF Objects
<1>2. Unwound(c, st) \in Statuses
  BY <1>1 DEF Unwound, Statuses, HandleOps
<1>3. CASE c.op \in {"start", "throw_if_empty"}
  BY <1>1, <1>2, <1>3 DEF After, Statuses, HandleOps
<1>4. CASE c.op \in {"join", "join_if_joinable", "detach", "destroy"}
  BY <1>1, <1>2, <1>4 DEF After, Statuses, HandleOps
<1>5. CASE c.op \in {"move", "assign"}
  BY <1>1, <1>2, <1>5 DEF After, Statuses, HandleOps
<1>6. CASE c.op = "swap"
  BY <1>1, <1>2, <1>6 DEF After, Statuses, HandleOps
<1>7. CASE c.op \notin HandleOps
  BY <1>1, <1>2, <1>7 DEF After, Statuses, HandleOps, AllEmpty
<1> QED BY <1>3, <1>4, <1>5, <1>6, <1>7 DEF HandleOps

(* Two annotated sequences, the second of which starts where the first     *)
(* ends, are one.                                                          *)
LEMMA AnnotatesConcat ==
  ASSUME NEW p, NEW t, NEW s, NEW r, NEW a, NEW b, NEW st, NEW st1, NEW st2, NEW strict,
         IsSequence(s), IsSequence(r),
         Annotates(p, t, a, s, st, st1, strict), Annotates(p, t, b, r, st1, st2, strict)
  PROVE  LET n == Len(s)
             c == [i \in 1 .. Len(s \o r) + 1 |-> IF i <= n THEN a[i] ELSE b[i - n]]
         IN  Annotates(p, t, c, s \o r, st, st2, strict)
<1> DEFINE n == Len(s)
           m == Len(r)
           c == [i \in 1 .. Len(s \o r) + 1 |-> IF i <= n THEN a[i] ELSE b[i - n]]
<1>1. /\ n \in Nat /\ m \in Nat /\ Len(s \o r) = n + m
      /\ \A i \in 1 .. n : (s \o r)[i] = s[i]
      /\ \A i \in 1 .. m : (s \o r)[n + i] = r[i]
  BY Concatenation DEF IsSequence
<1>2. /\ a \in [1 .. n + 1 -> Statuses] /\ Covers(a[1], st) /\ Covers(st1, a[n + 1])
      /\ \A i \in 1 .. n : Fine(p, t, s[i], a[i], strict) /\ Covers(a[i + 1], After(s[i], a[i]))
  BY DEF Annotates
<1>3. /\ b \in [1 .. m + 1 -> Statuses] /\ Covers(b[1], st1) /\ Covers(st2, b[m + 1])
      /\ \A i \in 1 .. m : Fine(p, t, r[i], b[i], strict) /\ Covers(b[i + 1], After(r[i], b[i]))
  BY DEF Annotates
<1> HIDE DEF n, m
<1>4. /\ c \in [1 .. Len(s \o r) + 1 -> Statuses]
      /\ \A i \in 1 .. n : c[i] = a[i]
      /\ \A i \in 1 .. m + 1 : c[n + i] = b[i]
  BY <1>1, <1>2, <1>3
<1> HIDE DEF c
<1>5. Covers(b[1], a[n + 1])
  BY <1>2, <1>3, CoversTrans
<1>6. Covers(c[1], st)
  <2>1. CASE n = 0
    <3>1. c[1] = b[1] /\ Covers(b[1], a[1])
      BY <2>1, <1>1, <1>4, <1>5
    <3> QED BY <3>1, <1>2, CoversTrans
  <2>2. CASE n > 0
    BY <2>2, <1>1, <1>2, <1>4
  <2> QED BY <1>1, <2>1, <2>2
<1>7. Covers(st2, c[Len(s \o r) + 1])
  BY <1>1, <1>3, <1>4
<1>8. ASSUME NEW i \in 1 .. Len(s \o r)
      PROVE  /\ Fine(p, t, (s \o r)[i], c[i], strict)
             /\ Covers(c[i + 1], After((s \o r)[i], c[i]))
  <2>1. CASE i < n
    <3>1. i \in 1 .. n /\ i + 1 \in 1 .. n
      BY <2>1, <1>1
    <3> QED BY <3>1, <1>1, <1>2, <1>4
  <2>2. CASE i = n
    <3>1. i \in 1 .. n /\ c[i + 1] = b[1]
      BY <2>2, <1>1, <1>4
    <3>2. Covers(a[i + 1], After(s[i], a[i]))
      BY <3>1, <1>2
    <3>3. Covers(b[1], After(s[i], a[i]))
      BY <3>2, <2>2, <1>5, CoversTrans
    <3> QED BY <3>1, <3>3, <1>1, <1>2, <1>4
  <2>3. CASE i > n
    <3>1. PICK j \in 1 .. m : i = n + j
      <4>1. i - n \in 1 .. m /\ i = n + (i - n)
        BY <2>3, <1>1
      <4> QED BY <4>1
    <3>2. j + 1 \in 1 .. m + 1 /\ i + 1 = n + (j + 1)
      BY <3>1, <1>1
    <3>3. c[i] = b[j] /\ c[i + 1] = b[j + 1] /\ (s \o r)[i] = r[j]
      BY <3>1, <3>2, <1>1, <1>4
    <3> QED BY <3>3, <1>3
  <2> QED BY <1>1, <2>1, <2>2, <2>3
<1>9. Annotates(p, t, c, s \o r, st, st2, strict)
  BY <1>4, <1>6, <1>7, <1>8 DEF Annotates
<1> QED BY <1>9 DEF c, n

(* Quiet sequences can be composed. *)
LEMMA QuietConcat ==
  ASSUME NEW p, NEW t, NEW s, NEW r, NEW st, NEW st1, NEW st2, NEW strict,
         Quiet(p, t, s, st, st1, strict), Quiet(p, t, r, st1, st2, strict)
  PROVE  Quiet(p, t, s \o r, st, st2, strict)
<1>1. PICK a : /\ Annotates(p, t, a, s, st, st1, strict)
               /\ \A i \in 1 .. Len(s) : Steady(s[i], a[i])
  BY DEF Quiet
<1>2. PICK b : /\ Annotates(p, t, b, r, st1, st2, strict)
               /\ \A i \in 1 .. Len(r) : Steady(r[i], b[i])
  BY DEF Quiet
<1> DEFINE n == Len(s)
           c == [i \in 1 .. Len(s \o r) + 1 |-> IF i <= n THEN a[i] ELSE b[i - n]]
<1>3. IsSequence(s) /\ IsSequence(r)
  BY DEF Quiet
<1>4. /\ IsSequence(s \o r)
      /\ n \in Nat /\ Len(r) \in Nat /\ Len(s \o r) = n + Len(r)
      /\ \A i \in 1 .. n : (s \o r)[i] = s[i]
      /\ \A i \in 1 .. Len(r) : (s \o r)[n + i] = r[i]
  BY <1>3, Concatenation DEF IsSequence
<1>5. Annotates(p, t, c, s \o r, st, st2, strict)
  BY <1>1, <1>2, <1>3, AnnotatesConcat
<1> HIDE DEF n
<1>6. ASSUME NEW i \in 1 .. Len(s \o r) PROVE Steady((s \o r)[i], c[i])
  <2>1. CASE i <= n
    <3>1. i \in 1 .. n /\ c[i] = a[i]
      BY <2>1, <1>4
    <3> QED BY <3>1, <1>1, <1>4 DEF n
  <2>2. CASE i > n
    <3>1. PICK j \in 1 .. Len(r) : i = n + j
      <4>1. i - n \in 1 .. Len(r) /\ i = n + (i - n)
        BY <2>2, <1>4
      <4> QED BY <4>1
    <3>2. c[i] = b[j]
      BY <3>1, <1>4, <2>2
    <3> QED BY <3>1, <3>2, <1>2, <1>4
  <2> QED BY <1>4, <2>1, <2>2
<1> QED BY <1>4, <1>5, <1>6 DEF Quiet

(* Sequences that throw into the same status can be composed. *)
LEMMA RunsConcat ==
  ASSUME NEW p, NEW t, NEW s, NEW r, NEW st, NEW st1, NEW st2, NEW exc, NEW strict,
         Runs(p, t, s, st, st1, exc, strict), Runs(p, t, r, st1, st2, exc, strict)
  PROVE  Runs(p, t, s \o r, st, st2, exc, strict)
<1> DEFINE Exit(d, x) == Steady(d, x) \/ (d.op \in Throwing /\ Throws(p, t, d, x, exc))
<1>1. PICK a : /\ Annotates(p, t, a, s, st, st1, strict)
               /\ \A i \in 1 .. Len(s) : Exit(s[i], a[i])
  BY DEF Runs
<1>2. PICK b : /\ Annotates(p, t, b, r, st1, st2, strict)
               /\ \A i \in 1 .. Len(r) : Exit(r[i], b[i])
  BY DEF Runs
<1> DEFINE n == Len(s)
           c == [i \in 1 .. Len(s \o r) + 1 |-> IF i <= n THEN a[i] ELSE b[i - n]]
<1>3. IsSequence(s) /\ IsSequence(r)
  BY DEF Runs
<1>4. /\ IsSequence(s \o r)
      /\ n \in Nat /\ Len(r) \in Nat /\ Len(s \o r) = n + Len(r)
      /\ \A i \in 1 .. n : (s \o r)[i] = s[i]
      /\ \A i \in 1 .. Len(r) : (s \o r)[n + i] = r[i]
  BY <1>3, Concatenation DEF IsSequence
<1>5. Annotates(p, t, c, s \o r, st, st2, strict)
  BY <1>1, <1>2, <1>3, AnnotatesConcat
<1> HIDE DEF n, Exit
<1>6. ASSUME NEW i \in 1 .. Len(s \o r) PROVE Exit((s \o r)[i], c[i])
  <2>1. CASE i <= n
    <3>1. i \in 1 .. n /\ c[i] = a[i]
      BY <2>1, <1>4
    <3> QED BY <3>1, <1>1, <1>4 DEF n
  <2>2. CASE i > n
    <3>1. PICK j \in 1 .. Len(r) : i = n + j
      <4>1. i - n \in 1 .. Len(r) /\ i = n + (i - n)
        BY <2>2, <1>4
      <4> QED BY <4>1
    <3>2. c[i] = b[j]
      BY <3>1, <1>4, <2>2
    <3> QED BY <3>1, <3>2, <1>2, <1>4
  <2> QED BY <1>4, <2>1, <2>2
<1> QED BY <1>4, <1>5, <1>6 DEF Runs, Exit

(* The annotation of one instruction. *)
LEMMA AnnotatesOne ==
  ASSUME NEW p, NEW t \in Threads, NEW c, NEW st \in Statuses, NEW st2, NEW strict,
         Fine(p, t, c, st, strict), Covers(st2, After(c, st))
  PROVE  Annotates(p, t, [i \in 1 .. 2 |-> IF i = 1 THEN st ELSE After(c, st)], <<c>>,
                   st, st2, strict)
<1>1. Len(<<c>>) = 1 /\ <<c>>[1] = c
  OBVIOUS
<1>2. After(c, st) \in Statuses
  BY AfterType
<1> QED BY <1>1, <1>2, CoversSelf DEF Annotates

(* One instruction that does not throw. *)
LEMMA QuietOne ==
  ASSUME NEW p, NEW t \in Threads, NEW c, NEW st \in Statuses, NEW st2, NEW strict,
         Fine(p, t, c, st, strict), Covers(st2, After(c, st)), Steady(c, st)
  PROVE  Quiet(p, t, <<c>>, st, st2, strict)
<1> DEFINE a == [i \in 1 .. 2 |-> IF i = 1 THEN st ELSE After(c, st)]
<1>1. Annotates(p, t, a, <<c>>, st, st2, strict)
  BY AnnotatesOne
<1>2. \A i \in 1 .. Len(<<c>>) : Steady(<<c>>[i], a[i])
  OBVIOUS
<1> HIDE DEF a
<1> QED BY <1>1, <1>2, OneElement DEF Quiet

(* One instruction, which may throw. *)
LEMMA RunsOne ==
  ASSUME NEW p, NEW t \in Threads, NEW c, NEW st \in Statuses, NEW st2, NEW exc, NEW strict,
         Fine(p, t, c, st, strict), Covers(st2, After(c, st)),
         Steady(c, st) \/ (c.op \in Throwing /\ Throws(p, t, c, st, exc))
  PROVE  Runs(p, t, <<c>>, st, st2, exc, strict)
<1> DEFINE a == [i \in 1 .. 2 |-> IF i = 1 THEN st ELSE After(c, st)]
           Exit(d, x) == Steady(d, x) \/ (d.op \in Throwing /\ Throws(p, t, d, x, exc))
<1>1. Annotates(p, t, a, <<c>>, st, st2, strict)
  BY AnnotatesOne
<1>2. Exit(c, st)
  OBVIOUS
<1> HIDE DEF Exit
<1>3. \A i \in 1 .. Len(<<c>>) : Exit(<<c>>[i], a[i])
  BY <1>2
<1> HIDE DEF a
<1> QED BY <1>1, <1>3, OneElement DEF Runs, Exit

(* The annotation of no instruction. *)
LEMMA AnnotatesNone ==
  ASSUME NEW p, NEW t, NEW st \in Statuses, NEW st2, NEW strict, Covers(st2, st)
  PROVE  Annotates(p, t, [i \in 1 .. 1 |-> st], <<>>, st, st2, strict)
<1>1. Len(<<>>) = 0
  OBVIOUS
<1> QED BY <1>1, CoversSelf DEF Annotates

(* No instruction runs, and does not throw. *)
LEMMA QuietNone ==
  ASSUME NEW p, NEW t, NEW st \in Statuses, NEW st2, NEW strict, Covers(st2, st)
  PROVE  Quiet(p, t, <<>>, st, st2, strict)
<1>1. \A i \in 1 .. Len(<<>>) : FALSE
  OBVIOUS
<1> QED BY <1>1, AnnotatesNone, EmptySequence DEF Quiet

(* No instruction runs. *)
LEMMA RunsNone ==
  ASSUME NEW p, NEW t, NEW st \in Statuses, NEW st2, NEW exc, NEW strict, Covers(st2, st)
  PROVE  Runs(p, t, <<>>, st, st2, exc, strict)
<1>1. \A i \in 1 .. Len(<<>>) : FALSE
  OBVIOUS
<1> QED BY <1>1, AnnotatesNone, EmptySequence DEF Runs

(* What does not throw leads to any status when it throws. *)
LEMMA QuietRuns ==
  ASSUME NEW p, NEW t, NEW s, NEW st, NEW st2, NEW exc, NEW strict,
         Quiet(p, t, s, st, st2, strict)
  PROVE  Runs(p, t, s, st, st2, exc, strict)
BY DEF Quiet, Runs

(* An instruction in the scope of a handler. *)
Caught(c, u) == IF "unwind" \in DOMAIN c THEN [c EXCEPT !.unwind = @ \o u] ELSE c

(* A handler changes only what unwinding runs. *)
LEMMA CaughtKeeps ==
  ASSUME NEW c, NEW u, Formed(c), IsSequence(u)
  PROVE  LET d == Caught(c, u)
         IN  /\ Formed(d)
             /\ d.op = c.op
             /\ c.op \notin Throwing => d = c
             /\ c.op \in HandleOps => d.handle = c.handle
             /\ c.op = "start" => d.body = c.body
             /\ c.op \in Throwing => d.unwind = c.unwind \o u
<1> DEFINE d == Caught(c, u)
<1>1. CASE c.op \notin Throwing
  BY <1>1 DEF Formed, Caught, Throwing
<1>2. CASE c.op \in Throwing
  <2> DEFINE v == c.unwind \o u
  <2>1. /\ d = [c EXCEPT !.unwind = v] /\ "op" \in DOMAIN c
        /\ c.op \in HandleOps => "handle" \in DOMAIN c
        /\ c.op = "start" => "body" \in DOMAIN c
        /\ "unwind" \in DOMAIN c
    BY <1>2 DEF Formed, Caught, HandleOps
  <2>2. /\ d.op = c.op /\ d.unwind = c.unwind \o u /\ DOMAIN d = DOMAIN c
        /\ c.op \in HandleOps => d.handle = c.handle
        /\ c.op = "start" => d.body = c.body
    <3> HIDE DEF d, v
    <3>2. d.op = c.op /\ d.unwind = v /\ DOMAIN d = DOMAIN c
      BY <2>1
    <3>3. c.op \in HandleOps => d.handle = c.handle
      BY <2>1
    <3>4. c.op = "start" => d.body = c.body
      BY <2>1
    <3> QED BY <3>2, <3>3, <3>4 DEF v
  <2>3. IsSequence(c.unwind \o u)
    BY <1>2, Concatenation DEF Formed
  <2> HIDE DEF d
  <2>4. Formed(d)
    BY <1>2, <2>2, <2>3 DEF Formed
  <2> QED BY <1>2, <2>2, <2>4 DEF d
<1> QED BY <1>1, <1>2

(* An instruction may be executed in the scope of a handler if it may      *)
(* outside.                                                                *)
LEMMA CaughtFine ==
  ASSUME NEW p, NEW t, NEW c, NEW u, NEW st, NEW strict, Fine(p, t, c, st, strict), IsSequence(u)
  PROVE  LET d == Caught(c, u)
         IN  /\ Fine(p, t, d, st, strict)
             /\ After(d, st) = After(c, st)
             /\ Unwound(d, st) = Unwound(c, st)
             /\ Steady(c, st) => Steady(d, st)
<1> DEFINE d == Caught(c, u)
<1>1. /\ Formed(d) /\ d.op = c.op
      /\ c.op \notin Throwing => d = c
      /\ c.op \in HandleOps => d.handle = c.handle
      /\ c.op = "start" => d.body = c.body
  BY CaughtKeeps DEF Fine
<1> HIDE DEF d
<1>2. CASE c.op \notin Throwing
  <2>1. Caught(c, u) = c
    BY <1>1, <1>2 DEF d
  <2> QED BY <2>1
<1>3. CASE c.op = "risk"
  <2>1. d.op = c.op /\ Formed(d)
    BY <1>1
  <2>2. /\ After(d, st) = After(c, st)
        /\ Unwound(d, st) = Unwound(c, st)
        /\ Steady(c, st) => Steady(d, st)
    BY <1>3, <2>1 DEF After, Unwound, Steady
  <2>3. Fine(p, t, d, st, strict)
    BY <1>3, <2>1 DEF Fine, Typed, HandleOps
  <2> QED BY <2>2, <2>3 DEF d
<1>4. CASE c.op \in Throwing \ {"risk"}
  <2>1. d.op = c.op /\ d.handle = c.handle /\ Formed(d) /\ (c.op = "start" => d.body = c.body)
    BY <1>1, <1>4 DEF Throwing, HandleOps
  <2>2. /\ After(d, st) = After(c, st)
        /\ Unwound(d, st) = Unwound(c, st)
        /\ Steady(c, st) => Steady(d, st)
    BY <1>4, <2>1 DEF After, Unwound, Steady, Throwing
  <2>3. Fine(p, t, d, st, strict)
    BY <1>4, <2>1 DEF Fine, Typed, Throwing
  <2> QED BY <2>2, <2>3 DEF d
<1> QED BY <1>2, <1>3, <1>4

(* Catch extends what unwinding runs, and nothing else. *)
LEMMA CatchElements ==
  ASSUME NEW s, NEW u, IsSequence(s)
  PROVE  /\ IsSequence(Catch(s, u)) /\ Len(Catch(s, u)) = Len(s)
         /\ \A i \in 1 .. Len(s) : Catch(s, u)[i] = Caught(s[i], u)
<1>1. /\ DOMAIN s = 1 .. Len(s) /\ Len(s) \in Nat
  BY DEF IsSequence
<1>2. Catch(s, u) = [i \in 1 .. Len(s) |-> Caught(s[i], u)]
  BY <1>1 DEF Catch, Caught
<1> DEFINE r == [i \in 1 .. Len(s) |-> Caught(s[i], u)]
           S == {Caught(s[i], u) : i \in 1 .. Len(s)}
<1>3. r \in [1 .. Len(s) -> S] /\ \A i \in 1 .. Len(s) : r[i] = Caught(s[i], u)
  OBVIOUS
<1> HIDE DEF r, S
<1>4. r \in Seq(S) /\ Len(r) = Len(s)
  BY <1>1, <1>3, SeqDef
<1> QED BY <1>2, <1>3, <1>4, SequenceType DEF r

(* A handler does not change what is known. *)
LEMMA AnnotatesCatch ==
  ASSUME NEW p, NEW t, NEW a, NEW s, NEW u, NEW st, NEW st2, NEW strict,
         IsSequence(s), IsSequence(u), Annotates(p, t, a, s, st, st2, strict)
  PROVE  Annotates(p, t, a, Catch(s, u), st, st2, strict)
<1>1. /\ Len(Catch(s, u)) = Len(s)
      /\ \A i \in 1 .. Len(s) : Catch(s, u)[i] = Caught(s[i], u)
  BY CatchElements
<1>2. \A i \in 1 .. Len(s) :
        Fine(p, t, Caught(s[i], u), a[i], strict) /\ After(Caught(s[i], u), a[i]) = After(s[i], a[i])
  BY CaughtFine DEF Annotates
<1> QED BY <1>1, <1>2 DEF Annotates

(* What does not throw does not notice the handler. *)
LEMMA QuietCatch ==
  ASSUME NEW p, NEW t, NEW s, NEW u, NEW st, NEW st2, NEW strict, IsSequence(u),
         Quiet(p, t, s, st, st2, strict)
  PROVE  Quiet(p, t, Catch(s, u), st, st2, strict)
<1>1. IsSequence(s)
  BY DEF Quiet
<1>2. /\ IsSequence(Catch(s, u)) /\ Len(Catch(s, u)) = Len(s)
      /\ \A i \in 1 .. Len(s) : Catch(s, u)[i] = Caught(s[i], u)
  BY <1>1, CatchElements
<1>3. PICK a : /\ Annotates(p, t, a, s, st, st2, strict)
               /\ \A i \in 1 .. Len(s) : Steady(s[i], a[i])
  BY DEF Quiet
<1>4. Annotates(p, t, a, Catch(s, u), st, st2, strict)
  BY <1>1, <1>3, AnnotatesCatch
<1>5. ASSUME NEW i \in 1 .. Len(s) PROVE Steady(Catch(s, u)[i], a[i])
  <2>1. Fine(p, t, s[i], a[i], strict) /\ Steady(s[i], a[i])
    BY <1>3 DEF Annotates
  <2> QED BY <2>1, <1>2, CaughtFine
<1> QED BY <1>2, <1>4, <1>5 DEF Quiet

(* After the handler the exception goes on. *)
LEMMA RunsCatch ==
  ASSUME NEW p, NEW t, NEW s, NEW u, NEW st, NEW st2, NEW exc, NEW exc2, NEW strict,
         Runs(p, t, s, st, st2, exc, strict), Quiet(p, t, u, exc, exc2, p \in Guarded)
  PROVE  Runs(p, t, Catch(s, u), st, st2, exc2, strict)
<1>1. IsSequence(s) /\ IsSequence(u)
  BY DEF Quiet, Runs
<1>2. /\ IsSequence(Catch(s, u)) /\ Len(Catch(s, u)) = Len(s)
      /\ \A i \in 1 .. Len(s) : Catch(s, u)[i] = Caught(s[i], u)
  BY <1>1, CatchElements
<1>3. PICK a : /\ Annotates(p, t, a, s, st, st2, strict)
               /\ \A i \in 1 .. Len(s) :
                    Steady(s[i], a[i]) \/ (s[i].op \in Throwing /\ Throws(p, t, s[i], a[i], exc))
  BY DEF Runs
<1>4. Annotates(p, t, a, Catch(s, u), st, st2, strict)
  BY <1>1, <1>3, AnnotatesCatch
<1>5. ASSUME NEW i \in 1 .. Len(s)
      PROVE  LET d == Catch(s, u)[i]
             IN  Steady(d, a[i]) \/ (d.op \in Throwing /\ Throws(p, t, d, a[i], exc2))
  <2> DEFINE d == Caught(s[i], u)
  <2>1. Fine(p, t, s[i], a[i], strict)
    BY <1>3 DEF Annotates
  <2>2. CASE Steady(s[i], a[i])
    BY <2>1, <2>2, <1>1, <1>2, CaughtFine
  <2>3. CASE s[i].op \in Throwing /\ Throws(p, t, s[i], a[i], exc)
    <3>1. /\ d.op = s[i].op /\ d.unwind = s[i].unwind \o u
          /\ Unwound(d, a[i]) = Unwound(s[i], a[i])
      <4>1. Formed(s[i])
        BY <2>1 DEF Fine
      <4>2. Unwound(d, a[i]) = Unwound(s[i], a[i])
        BY <2>1, <1>1, CaughtFine
      <4> QED BY <4>1, <4>2, <2>3, <1>1, CaughtKeeps
    <3>2. Quiet(p, t, s[i].unwind, Unwound(s[i], a[i]), exc, p \in Guarded)
      BY <2>3 DEF Throws
    <3>3. Quiet(p, t, s[i].unwind \o u, Unwound(s[i], a[i]), exc2, p \in Guarded)
      BY <3>2, QuietConcat
    <3> HIDE DEF d
    <3>4. Throws(p, t, d, a[i], exc2)
      BY <2>3, <3>1, <3>3 DEF Throws
    <3> QED BY <2>3, <3>1, <3>4, <1>2 DEF d
  <2> QED BY <1>3, <2>2, <2>3
<1> QED BY <1>2, <1>4, <1>5 DEF Runs

(* A noexcept body is a sequence. *)
LEMMA NoExceptSequence ==
  \A u : IsSequence(<<Terminate>>) /\ (IsSequence(u) => IsSequence(NoExcept(u)))
BY OneElement, CatchElements DEF NoExcept

(* A scope with destructors, which run on both paths. *)
LEMMA WithinRuns ==
  ASSUME NEW p, NEW t, NEW body, NEW u, NEW st, NEW st1, NEW st2, NEW exc, NEW exc2, NEW strict,
         Runs(p, t, body, st, st1, exc, strict),
         Quiet(p, t, u, st1, st2, strict),
         Quiet(p, t, u, exc, exc2, p \in Guarded)
  PROVE  Runs(p, t, Within(body, u), st, st2, exc2, strict)
<1>1. IsSequence(<<Terminate>>)
  BY NoExceptSequence
<1>2. /\ Quiet(p, t, NoExcept(u), st1, st2, strict)
      /\ Quiet(p, t, NoExcept(u), exc, exc2, p \in Guarded)
  BY <1>1, QuietCatch DEF NoExcept
<1>3. Runs(p, t, Catch(body, NoExcept(u)), st, st1, exc2, strict)
  BY <1>2, RunsCatch
<1>4. Runs(p, t, NoExcept(u), st1, st2, exc2, strict)
  BY <1>2, QuietRuns
<1> QED BY <1>3, <1>4, RunsConcat DEF Within

-----------------------------------------------------------------------------
(* Instructions *)

(* The instructions that use no std::thread object. *)
LEMMA PlainInstructions ==
  /\ Formed(Work) /\ Typed(Work) /\ Work.op = "work"
  /\ Formed(Edit) /\ Typed(Edit) /\ Edit.op = "edit"
  /\ \A x \in Locations, n \in Int, how \in {"add", "write", "read", "collect"} :
       LET c == Access(x, how, n)
       IN  Formed(c) /\ Typed(c) /\ c.op = "access" /\ c.at = x
  /\ \A x \in Locations, n \in Int : \A order :
       LET c == Store(x, n, order) IN Formed(c) /\ Typed(c) /\ c.op = "store"
  /\ \A x \in Locations : LET c == Load(x) IN Formed(c) /\ Typed(c) /\ c.op = "load"
  /\ \A x \in Locations, n \in Int :
       LET c == Await(x, n) IN Formed(c) /\ Typed(c) /\ c.op = "await"
  /\ \A x \in Locations, n \in Int : \A how, order :
       LET c == RMW(x, how, n, order) IN Formed(c) /\ Typed(c) /\ c.op = "read_modify_write"
  /\ \A x \in Locations : \A order :
       LET c == Spin(x, order) IN Formed(c) /\ Typed(c) /\ c.op = "spin"
  /\ \A x \in Locations, e \in Int, n \in Int :
       LET c == Exchange(x, e, n) IN Formed(c) /\ Typed(c) /\ c.op = "exchange"
  /\ \A x \in Locations :
       LET c == ExchangeLoop(x) IN Formed(c) /\ Typed(c) /\ c.op = "exchange_loop"
  /\ \A r \in Fields : \A v :
       LET c == Assert(r, v) IN Formed(c) /\ Typed(c) /\ c.op = "assert"
<1> USE DEF Formed, Typed, Throwing, HandleOps
<1>1. /\ Formed(Work) /\ Typed(Work) /\ Work.op = "work"
      /\ Formed(Edit) /\ Typed(Edit) /\ Edit.op = "edit"
  BY DEF Work, Edit
<1>2. \A x \in Locations, n \in Int, how \in {"add", "write", "read", "collect"} :
        LET c == Access(x, how, n)
        IN  Formed(c) /\ Typed(c) /\ c.op = "access" /\ c.at = x
  BY DEF Access
<1>3. \A x \in Locations, n \in Int : \A order :
        LET c == Store(x, n, order) IN Formed(c) /\ Typed(c) /\ c.op = "store"
  BY DEF Store
<1>4. \A x \in Locations : LET c == Load(x) IN Formed(c) /\ Typed(c) /\ c.op = "load"
  BY DEF Load
<1>5. \A x \in Locations, n \in Int :
        LET c == Await(x, n) IN Formed(c) /\ Typed(c) /\ c.op = "await"
  BY DEF Await
<1>6. \A x \in Locations, n \in Int : \A how, order :
        LET c == RMW(x, how, n, order) IN Formed(c) /\ Typed(c) /\ c.op = "read_modify_write"
  BY DEF RMW
<1>7. \A x \in Locations : \A order :
        LET c == Spin(x, order) IN Formed(c) /\ Typed(c) /\ c.op = "spin"
  BY DEF Spin
<1>8. \A x \in Locations, e \in Int, n \in Int :
        LET c == Exchange(x, e, n) IN Formed(c) /\ Typed(c) /\ c.op = "exchange"
  BY DEF Exchange
<1>9. \A x \in Locations :
        LET c == ExchangeLoop(x) IN Formed(c) /\ Typed(c) /\ c.op = "exchange_loop"
  BY DEF ExchangeLoop
<1>10. \A r \in Fields : \A v :
         LET c == Assert(r, v) IN Formed(c) /\ Typed(c) /\ c.op = "assert"
  BY DEF Assert
<1> QED BY <1>1, <1>2, <1>3, <1>4, <1>5, <1>6, <1>7, <1>8, <1>9, <1>10

(* The instructions of std::thread, and of the scopes they are used in. *)
LEMMA GuardInstructions ==
  /\ Formed(Risk) /\ Typed(Risk) /\ Risk.op = "risk" /\ Risk.unwind = <<>>
  /\ Formed(Undefined) /\ Typed(Undefined) /\ Undefined.op = "undefined"
  /\ Formed(Terminate) /\ Typed(Terminate) /\ Terminate.op = "terminate"
  /\ \A h, f : LET c == Start(h, f)
               IN  /\ Formed(c) /\ Typed(c) /\ c.op = "start"
                   /\ c.handle = h /\ c.body = f /\ c.unwind = <<>>
  /\ \A h : LET c == Join(h)
            IN  Formed(c) /\ Typed(c) /\ c.op = "join" /\ c.handle = h /\ c.unwind = <<>>
  /\ \A h : LET c == Detach(h)
            IN  Formed(c) /\ Typed(c) /\ c.op = "detach" /\ c.handle = h /\ c.unwind = <<>>
  /\ \A h : LET c == ThrowIfEmpty(h)
            IN  /\ Formed(c) /\ Typed(c) /\ c.op = "throw_if_empty"
                /\ c.handle = h /\ c.unwind = <<>>
  /\ \A h : LET c == JoinIfJoinable(h)
            IN  Formed(c) /\ Typed(c) /\ c.op = "join_if_joinable" /\ c.handle = h
  /\ \A h : LET c == Destroy(h)
            IN  Formed(c) /\ Typed(c) /\ c.op = "destroy" /\ c.handle = h
  /\ \A h, g : LET c == Move(h, g)
               IN  Formed(c) /\ Typed(c) /\ c.op = "move" /\ c.handle = h /\ c.from = g
  /\ \A h, g : LET c == Assign(h, g)
               IN  Formed(c) /\ Typed(c) /\ c.op = "assign" /\ c.handle = h /\ c.from = g
  /\ \A h, g : LET c == Swap(h, g)
               IN  Formed(c) /\ Typed(c) /\ c.op = "swap" /\ c.handle = h /\ c.from = g
  /\ \A x \in Locations : LET c == EndLifetime(x)
                          IN  Formed(c) /\ Typed(c) /\ c.op = "end_lifetime" /\ c.at = x
<1> USE EmptySequence DEF Formed, Typed, Throwing, HandleOps
<1>1. /\ Formed(Risk) /\ Typed(Risk) /\ Risk.op = "risk" /\ Risk.unwind = <<>>
      /\ Formed(Undefined) /\ Typed(Undefined) /\ Undefined.op = "undefined"
      /\ Formed(Terminate) /\ Typed(Terminate) /\ Terminate.op = "terminate"
  BY DEF Risk, Undefined, Terminate
<1>2. \A h, f : LET c == Start(h, f)
                IN  /\ Formed(c) /\ Typed(c) /\ c.op = "start"
                    /\ c.handle = h /\ c.body = f /\ c.unwind = <<>>
  BY DEF Start
<1>3. \A h : LET c == Join(h)
             IN  Formed(c) /\ Typed(c) /\ c.op = "join" /\ c.handle = h /\ c.unwind = <<>>
  BY DEF Join
<1>4. \A h : LET c == Detach(h)
             IN  Formed(c) /\ Typed(c) /\ c.op = "detach" /\ c.handle = h /\ c.unwind = <<>>
  BY DEF Detach
<1>5. \A h : LET c == ThrowIfEmpty(h)
             IN  /\ Formed(c) /\ Typed(c) /\ c.op = "throw_if_empty"
                 /\ c.handle = h /\ c.unwind = <<>>
  BY DEF ThrowIfEmpty
<1>6. \A h : LET c == JoinIfJoinable(h)
             IN  Formed(c) /\ Typed(c) /\ c.op = "join_if_joinable" /\ c.handle = h
  BY DEF JoinIfJoinable
<1>7. \A h : LET c == Destroy(h)
             IN  Formed(c) /\ Typed(c) /\ c.op = "destroy" /\ c.handle = h
  BY DEF Destroy
<1>8. \A h, g : LET c == Move(h, g)
                IN  Formed(c) /\ Typed(c) /\ c.op = "move" /\ c.handle = h /\ c.from = g
  BY DEF Move
<1>11. \A h, g : LET c == Assign(h, g)
                 IN  Formed(c) /\ Typed(c) /\ c.op = "assign" /\ c.handle = h /\ c.from = g
  BY DEF Assign
<1>9. \A h, g : LET c == Swap(h, g)
                IN  Formed(c) /\ Typed(c) /\ c.op = "swap" /\ c.handle = h /\ c.from = g
  BY DEF Swap
<1>10. \A x \in Locations : LET c == EndLifetime(x)
                            IN  Formed(c) /\ Typed(c) /\ c.op = "end_lifetime" /\ c.at = x
  BY DEF EndLifetime
<1> QED BY <1>1, <1>2, <1>3, <1>4, <1>5, <1>6, <1>7, <1>8, <1>9, <1>10, <1>11

(* Code without std::thread objects runs whatever these hold. *)
LEMMA PlainQuiet ==
  ASSUME NEW p, NEW t \in Threads, NEW b, NEW st \in Statuses, NEW strict, Plain(p, b),
         t = main => st[Locals] = "held",
         p = "edit_document" => st[t] = "empty"
  PROVE  Quiet(p, t, b, st, st, strict)
<1> DEFINE a == [i \in 1 .. Len(b) + 1 |-> st]
<1>1. IsSequence(b) /\ Len(b) \in Nat
  BY DEF Plain, IsSequence
<1>2. a \in [1 .. Len(b) + 1 -> Statuses] /\ \A i \in 1 .. Len(b) + 1 : a[i] = st
  OBVIOUS
<1> HIDE DEF a
<1>3. ASSUME NEW i \in 1 .. Len(b)
      PROVE  Fine(p, t, b[i], st, strict) /\ After(b[i], st) = st /\ Steady(b[i], st)
  <2>1. /\ Formed(b[i]) /\ Typed(b[i])
        /\ b[i].op \in PlainOps \/ (p = "edit_document" /\ b[i].op = "edit")
    BY DEF Plain
  <2>2. b[i].op \notin HandleOps \cup {"move", "swap", "terminate", "end_lifetime", "risk"}
    BY <2>1 DEF PlainOps, HandleOps
  <2>3. b[i].op = "edit" => p = "edit_document"
    BY <2>1 DEF PlainOps
  <2>4. Fine(p, t, b[i], st, strict)
    BY <2>1, <2>2, <2>3 DEF Fine, HandleOps
  <2>5. After(b[i], st) = st /\ Steady(b[i], st)
    BY <2>2 DEF After, Steady, HandleOps
  <2> QED BY <2>4, <2>5
<1>4. Annotates(p, t, a, b, st, st, strict)
  BY <1>1, <1>2, <1>3, CoversSelf DEF Annotates
<1> QED BY <1>1, <1>2, <1>3, <1>4 DEF Quiet

(* The objects in A hold a thread, or are there; the others are empty. *)
Holds(A)   == [o \in Objects |-> IF o \in A THEN "held" ELSE "empty"]
(* The same, as far as is known: each object in A may be empty as well. *)
Perhaps(A) == [o \in Objects |-> IF o \in A THEN "any" ELSE "empty"]

(* Both are statuses. *)
LEMMA HoldsTypes == \A A : Holds(A) \in Statuses /\ Perhaps(A) \in Statuses
BY DEF Holds, Perhaps, Statuses

(* One more object holds a thread, or one less. *)
LEMMA HoldsChange ==
  ASSUME NEW A, NEW h \in Objects
  PROVE  /\ [Holds(A) EXCEPT ![h] = "held"] = Holds(A \cup {h})
         /\ [Holds(A) EXCEPT ![h] = "empty"] = Holds(A \ {h})
         /\ [Perhaps(A) EXCEPT ![h] = "empty"] = Perhaps(A \ {h})
         /\ Holds(A)[h] = IF h \in A THEN "held" ELSE "empty"
         /\ Perhaps(A)[h] = IF h \in A THEN "any" ELSE "empty"
BY DEF Holds, Perhaps

(* Less is known when more objects may hold a thread. *)
LEMMA HoldsCovers ==
  ASSUME NEW A, NEW B
  PROVE  /\ A \subseteq B => Covers(Perhaps(B), Perhaps(A)) /\ Covers(Perhaps(B), Holds(A))
BY DEF Holds, Perhaps, Covers

(* join of an object that holds a thread. *)
LEMMA JoinQuiet ==
  ASSUME NEW p, NEW t \in Threads, NEW h \in HandlesOf(p, t), NEW st \in Statuses, NEW strict,
         st[h] = "held"
  PROVE  Quiet(p, t, <<Join(h)>>, st, [st EXCEPT ![h] = "empty"], strict)
<1> DEFINE c == Join(h)
<1>1. Formed(c) /\ Typed(c) /\ c.op = "join" /\ c.handle = h
  BY GuardInstructions
<1> HIDE DEF c
<1>2. Fine(p, t, c, st, strict) /\ Steady(c, st) /\ After(c, st) = [st EXCEPT ![h] = "empty"]
  BY <1>1 DEF Fine, Steady, After
<1>3. Quiet(p, t, <<c>>, st, [st EXCEPT ![h] = "empty"], strict)
  BY <1>2, QuietOne, CoversSelf
<1> QED BY <1>3 DEF c

(* detach of an object that holds a thread. *)
LEMMA DetachQuiet ==
  ASSUME NEW p, NEW t \in Threads, NEW h \in HandlesOf(p, t), NEW st \in Statuses, NEW strict,
         st[h] = "held", p \in Detaching \cup {"oops"}
  PROVE  Quiet(p, t, <<Detach(h)>>, st, [st EXCEPT ![h] = "empty"], strict)
<1> DEFINE c == Detach(h)
<1>1. Formed(c) /\ Typed(c) /\ c.op = "detach" /\ c.handle = h
  BY GuardInstructions
<1> HIDE DEF c
<1>2. Fine(p, t, c, st, strict) /\ Steady(c, st) /\ After(c, st) = [st EXCEPT ![h] = "empty"]
  BY <1>1 DEF Fine, Steady, After
<1>3. Quiet(p, t, <<c>>, st, [st EXCEPT ![h] = "empty"], strict)
  BY <1>2, QuietOne, CoversSelf
<1> QED BY <1>3 DEF c

(* The destructor of ThreadGuard: whatever the object holds. *)
LEMMA JoinIfJoinableQuiet ==
  ASSUME NEW p, NEW t \in Threads, NEW h \in HandlesOf(p, t), NEW st \in Statuses, NEW strict
  PROVE  Quiet(p, t, <<JoinIfJoinable(h)>>, st, [st EXCEPT ![h] = "empty"], strict)
<1> DEFINE c == JoinIfJoinable(h)
<1>1. Formed(c) /\ Typed(c) /\ c.op = "join_if_joinable" /\ c.handle = h
  BY GuardInstructions
<1> HIDE DEF c
<1>2. Fine(p, t, c, st, strict) /\ Steady(c, st) /\ After(c, st) = [st EXCEPT ![h] = "empty"]
  BY <1>1 DEF Fine, Steady, After
<1>3. Quiet(p, t, <<c>>, st, [st EXCEPT ![h] = "empty"], strict)
  BY <1>2, QuietOne, CoversSelf
<1> QED BY <1>3 DEF c

(* The destructor of an object that is empty, or may terminate the         *)
(* program.                                                                *)
LEMMA DestroyQuiet ==
  ASSUME NEW p, NEW t \in Threads, NEW h \in HandlesOf(p, t), NEW st \in Statuses, NEW strict,
         strict => st[h] = "empty"
  PROVE  Quiet(p, t, <<Destroy(h)>>, st, [st EXCEPT ![h] = "empty"], strict)
<1> DEFINE c == Destroy(h)
<1>1. Formed(c) /\ Typed(c) /\ c.op = "destroy" /\ c.handle = h
  BY GuardInstructions
<1> HIDE DEF c
<1>2. Fine(p, t, c, st, strict) /\ Steady(c, st) /\ After(c, st) = [st EXCEPT ![h] = "empty"]
  BY <1>1 DEF Fine, Steady, After
<1>3. Quiet(p, t, <<c>>, st, [st EXCEPT ![h] = "empty"], strict)
  BY <1>2, QuietOne, CoversSelf
<1> QED BY <1>3 DEF c

(* A move into an empty object. *)
LEMMA MoveQuiet ==
  ASSUME NEW p, NEW t \in Threads, NEW h \in HandlesOf(p, t), NEW g \in HandlesOf(p, t),
         NEW st \in Statuses, NEW strict, st[h] = "empty"
  PROVE  Quiet(p, t, <<Move(h, g)>>, st,
               [st EXCEPT ![h] = st[g], ![g] = "empty"], strict)
<1> DEFINE c == Move(h, g)
           st2 == [st EXCEPT ![h] = st[g], ![g] = "empty"]
<1>1. Formed(c) /\ Typed(c) /\ c.op = "move" /\ c.handle = h /\ c.from = g
  BY GuardInstructions
<1> HIDE DEF c
<1>2. Fine(p, t, c, st, strict) /\ Steady(c, st) /\ After(c, st) = st2
  BY <1>1 DEF Fine, Steady, After
<1>3. Quiet(p, t, <<c>>, st, st2, strict)
  BY <1>2, QuietOne, CoversSelf
<1> QED BY <1>3 DEF c

(* A client assigns to the std::thread of an AutoJoiningThread, which ends *)
(* the program unless it is empty.                                         *)
LEMMA AssignQuiet ==
  ASSUME NEW h \in Handles, NEW g \in Handles, NEW st \in Statuses, NEW strict
  PROVE  Quiet("auto_joining", main, <<Assign(h, g)>>, st,
               [st EXCEPT ![h] = st[g], ![g] = "empty"], strict)
<1> DEFINE p == "auto_joining"
           c == Assign(h, g)
           st2 == [st EXCEPT ![h] = st[g], ![g] = "empty"]
<1>1. Formed(c) /\ Typed(c) /\ c.op = "assign" /\ c.handle = h /\ c.from = g
  BY GuardInstructions
<1>2. HandlesOf(p, main) = Handles /\ main \in Threads
  BY DEF HandlesOf, Threads
<1> HIDE DEF c
<1>3. Fine(p, main, c, st, strict) /\ Steady(c, st) /\ After(c, st) = st2
  BY <1>1, <1>2 DEF Fine, Steady, After
<1>4. Quiet(p, main, <<c>>, st, st2, strict)
  BY <1>2, <1>3, QuietOne, CoversSelf
<1> QED BY <1>4 DEF c

(* A function that flows off its end, if it returns, changes no object. *)
LEMMA UndefinedQuiet ==
  ASSUME NEW p, NEW t \in Threads, NEW st \in Statuses, NEW strict
  PROVE  Quiet(p, t, <<Undefined>>, st, st, strict)
<1> DEFINE c == Undefined
<1>1. Formed(c) /\ Typed(c) /\ c.op = "undefined"
  BY GuardInstructions
<1> HIDE DEF c
<1>2. Fine(p, t, c, st, strict) /\ Steady(c, st) /\ After(c, st) = st
  BY <1>1 DEF Fine, Steady, After, HandleOps
<1>3. Quiet(p, t, <<c>>, st, st, strict)
  BY <1>2, QuietOne, CoversSelf
<1> QED BY <1>3 DEF c

(* A local of main dies when main holds no thread. *)
LEMMA EndLifetimeQuiet ==
  ASSUME NEW p, p \notin Detaching, NEW x \in Locations, NEW st \in Statuses, NEW strict,
         \A h \in Handles : st[h] = "empty"
  PROVE  Quiet(p, main, <<EndLifetime(x)>>, st, [st EXCEPT ![Locals] = "empty"], strict)
<1> DEFINE c == EndLifetime(x)
<1>1. Formed(c) /\ Typed(c) /\ c.op = "end_lifetime"
  BY GuardInstructions
<1> HIDE DEF c
<1>2. Fine(p, main, c, st, strict) /\ Steady(c, st)
      /\ After(c, st) = [st EXCEPT ![Locals] = "empty"]
  BY <1>1 DEF Fine, Steady, After, HandleOps
<1>3. Quiet(p, main, <<c>>, st, [st EXCEPT ![Locals] = "empty"], strict)
  BY <1>2, QuietOne, CoversSelf DEF Threads
<1> QED BY <1>3 DEF c

(* The constructor that starts a thread, or throws. *)
LEMMA StartRuns ==
  ASSUME NEW p, NEW t \in Threads, NEW h \in HandlesOf(p, t), NEW f,
         NEW st \in Statuses, NEW exc, NEW strict,
         st[h] = "empty", t = main => st[Locals] = "held", Plain(p, f), Covers(exc, st)
  PROVE  Runs(p, t, <<Start(h, f)>>, st, [st EXCEPT ![h] = "held"], exc, strict)
<1> DEFINE c == Start(h, f)
           st2 == [st EXCEPT ![h] = "held"]
<1>1. /\ Formed(c) /\ Typed(c) /\ c.op = "start"
      /\ c.handle = h /\ c.body = f /\ c.unwind = <<>>
  BY GuardInstructions
<1> HIDE DEF c
<1>2. Fine(p, t, c, st, strict)
  BY <1>1 DEF Fine
<1>3. After(c, st) = st2 /\ Unwound(c, st) = st
  BY <1>1 DEF After, Unwound
<1>4. Quiet(p, t, <<>>, st, exc, p \in Guarded)
  BY QuietNone
<1>5. Throws(p, t, c, st, exc)
  BY <1>1, <1>3, <1>4 DEF Throws
<1>6. c.op \in Throwing
  BY <1>1 DEF Throwing
<1> HIDE DEF st2
<1>7. Runs(p, t, <<c>>, st, st2, exc, strict)
  BY <1>2, <1>3, <1>5, <1>6, RunsOne, CoversSelf
<1> QED BY <1>7 DEF c, st2

(* A stub or an allocation that may throw changes no object. *)
LEMMA RiskRuns ==
  ASSUME NEW p, p \in Guarded \cup {"edit_document", "containers"}, NEW t \in Threads,
         NEW st \in Statuses, NEW exc, Covers(exc, st), NEW strict
  PROVE  Runs(p, t, <<Risk>>, st, st, exc, strict)
<1> DEFINE c == Risk
<1>1. Formed(c) /\ Typed(c) /\ c.op = "risk" /\ c.unwind = <<>>
  BY GuardInstructions
<1> HIDE DEF c
<1>2. Fine(p, t, c, st, strict) /\ After(c, st) = st /\ Unwound(c, st) = st /\ c.op \in Throwing
  BY <1>1 DEF Fine, After, Unwound, HandleOps, Throwing
<1>3. Quiet(p, t, <<>>, st, exc, p \in Guarded)
  BY QuietNone
<1>4. Throws(p, t, c, st, exc)
  BY <1>1, <1>2, <1>3 DEF Throws
<1>5. Runs(p, t, <<c>>, st, st, exc, strict)
  BY <1>2, <1>4, RunsOne, CoversSelf
<1> QED BY <1>5 DEF c

(* Less is known afterwards. *)
LEMMA QuietWeaker ==
  ASSUME NEW p, NEW t, NEW s, NEW st, NEW st1, NEW st2, NEW strict,
         Quiet(p, t, s, st, st1, strict), Covers(st2, st1)
  PROVE  Quiet(p, t, s, st, st2, strict)
BY CoversTrans DEF Quiet, Annotates

(* Less is known afterwards, on both paths. *)
LEMMA RunsWeaker ==
  ASSUME NEW p, NEW t, NEW s, NEW st, NEW st1, NEW st2, NEW exc, NEW exc2, NEW strict,
         Runs(p, t, s, st, st1, exc, strict), Covers(st2, st1), Covers(exc2, exc),
         exc \in Statuses
  PROVE  Runs(p, t, s, st, st2, exc2, strict)
<1>1. Covers(exc2, exc)
  OBVIOUS
<1>2. \A c, x : Throws(p, t, c, x, exc) => Throws(p, t, c, x, exc2)
  BY QuietWeaker DEF Throws
<1>3. \A a : Annotates(p, t, a, s, st, st1, strict) => Annotates(p, t, a, s, st, st2, strict)
  BY CoversTrans DEF Annotates
<1> QED BY <1>2, <1>3 DEF Runs

(* A local std::thread: the rest of its scope has to leave it empty,       *)
(* unless it is left by an exception and the program may be terminated.    *)
LEMMA ThreadRuns ==
  ASSUME NEW p, NEW t \in Threads, NEW h \in HandlesOf(p, t), NEW f, NEW rest,
         NEW st \in Statuses, NEW st1 \in Statuses, NEW exc1 \in Statuses, NEW exc,
         st[h] = "empty", t = main => st[Locals] = "held", Plain(p, f),
         Runs(p, t, rest, [st EXCEPT ![h] = "held"], st1, exc1, TRUE),
         st1[h] = "empty", p \in Guarded => exc1[h] = "empty",
         Covers(exc, st), Covers(exc, [exc1 EXCEPT ![h] = "empty"])
  PROVE  Runs(p, t, Thread(h, f, rest), st, [st1 EXCEPT ![h] = "empty"], exc, TRUE)
<1>1. Runs(p, t, <<Start(h, f)>>, st, [st EXCEPT ![h] = "held"], exc, TRUE)
  BY StartRuns
<1>2. Quiet(p, t, <<Destroy(h)>>, st1, [st1 EXCEPT ![h] = "empty"], TRUE)
  BY DestroyQuiet
<1>3. Quiet(p, t, <<Destroy(h)>>, exc1, [exc1 EXCEPT ![h] = "empty"], p \in Guarded)
  BY DestroyQuiet
<1>4. Quiet(p, t, <<Destroy(h)>>, exc1, exc, p \in Guarded)
  BY <1>3, QuietWeaker
<1>5. Runs(p, t, Within(rest, <<Destroy(h)>>), [st EXCEPT ![h] = "held"],
           [st1 EXCEPT ![h] = "empty"], exc, TRUE)
  BY <1>2, <1>4, WithinRuns
<1> QED BY <1>1, <1>5, RunsConcat DEF Thread

-----------------------------------------------------------------------------
(* Programs without exceptions to handle *)

(* Before main does anything. *)
Fresh == Holds({Locals})

(* What must be known when t returns. *)
Settled(p, t, st) ==
  IF p = "auto_joining" THEN t = main => st[3] = "empty"
  ELSE \A h \in HandlesOf(p, t) : st[h] = "empty"

(* s may be the code of t: it runs, and its scopes leave nothing behind. *)
Safe(p, t, s, st, strict) ==
  \E st2, exc \in Statuses :
    Runs(p, t, s, st, st2, exc, strict) /\ Settled(p, t, st2) /\ Settled(p, t, exc)

(* There are objects for three threads. *)
LEMMA ThreeHandles == {1, 2, 3} \subseteq Handles /\ Locals \notin Handles /\ main \in Threads
BY ThreadProgramsAssumption DEF Handles, Locals, Threads

(* Except in editors, main owns all objects. *)
LEMMA HandlesOfMain ==
  \A p : p # "edit_document" => HandlesOf(p, main) = Handles
BY DEF HandlesOf

(* The locations that code names. *)
LEMMA NamedLocations ==
  {"someLocalState", "atomic_var", "data", "flag", "counter"} \subseteq Locations
BY DEF Locations

(* Code without objects can be composed. *)
LEMMA PlainConcat ==
  ASSUME NEW p, NEW s, NEW r, Plain(p, s), Plain(p, r)
  PROVE  Plain(p, s \o r)
<1>1. IsSequence(s) /\ IsSequence(r)
  BY DEF Plain
<1>2. /\ IsSequence(s \o r)
      /\ Len(s) \in Nat /\ Len(r) \in Nat /\ Len(s \o r) = Len(s) + Len(r)
      /\ \A i \in 1 .. Len(s) : (s \o r)[i] = s[i]
      /\ \A i \in 1 .. Len(r) : (s \o r)[Len(s) + i] = r[i]
  BY <1>1, Concatenation DEF IsSequence
<1>3. ASSUME NEW i \in 1 .. Len(s \o r)
      PROVE  \/ \E j \in 1 .. Len(s) : (s \o r)[i] = s[j]
             \/ \E j \in 1 .. Len(r) : (s \o r)[i] = r[j]
  <2>1. CASE i <= Len(s)
    BY <2>1, <1>2
  <2>2. CASE i > Len(s)
    <3>1. i - Len(s) \in 1 .. Len(r) /\ i = Len(s) + (i - Len(s))
      BY <2>2, <1>2
    <3>2. PICK j \in 1 .. Len(r) : i = Len(s) + j
      BY <3>1
    <3> QED BY <3>2, <1>2
  <2> QED BY <1>2, <2>1, <2>2
<1> QED BY <1>2, <1>3 DEF Plain

(* One instruction without objects. *)
LEMMA PlainOne ==
  ASSUME NEW p, NEW c, Formed(c), Typed(c),
         c.op \in PlainOps \/ (p = "edit_document" /\ c.op = "edit")
  PROVE  Plain(p, <<c>>)
BY OneElement DEF Plain

(* The functions that the threads of the programs run. *)
LEMMA PlainBodies ==
  ASSUME NEW p
  PROVE  /\ Plain(p, <<Work>>) /\ Plain(p, function) /\ Plain(p, Funct)
         /\ Plain(p, Counting) /\ Plain(p, increment_with_loop)
         /\ Plain(p, producer) /\ Plain(p, consumer)
<1> USE PlainInstructions, NamedLocations, PlainOne, PlainConcat DEF PlainOps
<1>1. Plain(p, <<Work>>)
  OBVIOUS
<1>2. Plain(p, function)
  <2>1. function = <<Work>> \o <<Work>>
    BY DEF function
  <2> QED BY <2>1, <1>1
<1>3. Plain(p, Funct)
  <2> DEFINE c == Access("someLocalState", "add", 1)
  <2>1. Plain(p, <<c>>)
    OBVIOUS
  <2> HIDE DEF c
  <2>2. Funct = <<c>> \o <<c>>
    BY DEF Funct, c
  <2> QED BY <2>1, <2>2
<1>4. Plain(p, Counting)
  <2>1. Plain(p, lock)
    BY DEF lock
  <2>2. Plain(p, <<Access("counter", "add", 1)>>)
    OBVIOUS
  <2>3. Plain(p, unlock)
    BY DEF unlock
  <2> QED BY <2>1, <2>2, <2>3 DEF Counting
<1>5. Plain(p, increment_with_loop)
  <2> DEFINE c == Load("counter")
             d == ExchangeLoop("counter")
  <2>1. Plain(p, <<c>>) /\ Plain(p, <<d>>)
    OBVIOUS
  <2> HIDE DEF c, d
  <2>2. increment_with_loop = <<c>> \o <<d>>
    BY DEF increment_with_loop, c, d
  <2> QED BY <2>1, <2>2
<1>6. Plain(p, producer)
  <2> DEFINE c == Access("data", "write", 42)
             d == Store("atomic_var", 1, "release")
             e == RMW("atomic_var", "fetch_add", 1, "relaxed")
             f == Store("atomic_var", 2, "relaxed")
  <2>1. Plain(p, <<c>>) /\ Plain(p, <<d>>) /\ Plain(p, <<e>>) /\ Plain(p, <<f>>)
    OBVIOUS
  <2> HIDE DEF c, d, e, f
  <2>2. producer = <<c>> \o <<d>> \o <<e>> \o <<f>>
    BY DEF producer, c, d, e, f
  <2> QED BY <2>1, <2>2
<1>7. Plain(p, consumer)
  <2> DEFINE c == Await("atomic_var", 1)
             d == Access("data", "read", 0)
             e == Assert("val", 42)
  <2>1. Plain(p, <<c>>) /\ Plain(p, <<d>>) /\ Plain(p, <<e>>)
    BY DEF Fields
  <2> HIDE DEF c, d, e
  <2>2. consumer = <<c>> \o <<d>> \o <<e>>
    BY DEF consumer, c, d, e
  <2> QED BY <2>1, <2>2
<1> QED BY <1>1, <1>2, <1>3, <1>4, <1>5, <1>6, <1>7

(* The programs without threads. *)
LEMMA SingleThreaded ==
  ASSUME NEW p
  PROVE  Plain(p, atomic_flag) /\ Plain(p, simple_compare_exchange_weak)
         /\ Plain(p, pointer_arithmetic)
<1> DEFINE G(c) == Formed(c) /\ Typed(c) /\ c.op \in PlainOps
<1>1. /\ \A x \in {"atomic_var", "flag", "counter"} : \A n \in Int : \A how, order :
           G(Store(x, n, order)) /\ G(Load(x)) /\ G(RMW(x, how, n, order))
      /\ \A n \in Int, m \in Int : G(Exchange("counter", n, m))
      /\ \A n : G(Assert("val", n)) /\ G(Assert("ok", n)) /\ G(Assert("expected", n))
  BY PlainInstructions, NamedLocations DEF PlainOps, Fields
<1>2. ASSUME NEW s, IsSequence(s), \A i \in 1 .. Len(s) : G(s[i]) PROVE Plain(p, s)
  BY <1>2 DEF Plain
<1> HIDE DEF G
<1>3. Plain(p, atomic_flag)
  <2> DEFINE c == Store("flag", 0, "release")
             d == RMW("flag", "set", 1, "seq_cst")
             e == Assert("val", 0)
  <2>1. G(c) /\ G(d) /\ G(e)
    BY <1>1
  <2> HIDE DEF c, d, e
  <2>2. atomic_flag = <<c, d, e>>
    BY DEF atomic_flag, c, d, e
  <2>3. IsSequence(<<c, d, e>>) /\ \A i \in 1 .. Len(<<c, d, e>>) : G(<<c, d, e>>[i])
    BY <2>1 DEF IsSequence
  <2> QED BY <2>2, <2>3, <1>2
<1>4. Plain(p, simple_compare_exchange_weak)
  <2> DEFINE c == Exchange("counter", 0, 33)
             d == Exchange("counter", 22, 44)
             l == Load("counter")
             a == Assert("val", 33)
             b == Assert("ok", 1)
             e == Assert("ok", 0)
             f == Assert("expected", 33)
             s == <<c, l, a, b, d, l, a, e, f>>
  <2>1. G(a) /\ G(b) /\ G(c) /\ G(d) /\ G(e) /\ G(f) /\ G(l)
    BY <1>1
  <2>2. simple_compare_exchange_weak = s
    BY DEF simple_compare_exchange_weak
  <2> HIDE DEF a, b, c, d, e, f, l
  <2>3. IsSequence(s) /\ Len(s) = 9
    BY DEF IsSequence
  <2>4. \A i \in 1 .. 9 : G(s[i])
    BY <2>1
  <2> HIDE DEF s
  <2> QED BY <2>2, <2>3, <2>4, <1>2
<1>5. Plain(p, pointer_arithmetic)
  <2> DEFINE a1 == AddFetch("atomic_var", 3)
             a2 == FetchAdd("atomic_var", 3, "seq_cst")
             a3 == FetchAdd("atomic_var", -2, "seq_cst")
             a4 == FetchAdd("counter", 2, "seq_cst")
             a5 == AddFetch("counter", -1)
             a6 == FetchAdd("counter", 3, "release")
             l1 == Load("atomic_var")
             l2 == Load("counter")
             v0 == Assert("val", 0)
             v1 == Assert("val", 1)
             v2 == Assert("val", 2)
             v3 == Assert("val", 3)
             v4 == Assert("val", 4)
             v6 == Assert("val", 6)
             s == <<a1, l1, v3, a2, v3, a3, v6, l1, v4, a4, v0, l2, v2, a5, v1, l2, v1, a6>>
  <2>1. G(a1) /\ G(a2) /\ G(a3) /\ G(a4) /\ G(a5) /\ G(a6)
    BY <1>1 DEF AddFetch, FetchAdd
  <2>2. G(l1) /\ G(l2) /\ G(v0) /\ G(v1) /\ G(v2) /\ G(v3) /\ G(v4) /\ G(v6)
    BY <1>1
  <2>3. pointer_arithmetic = s
    BY DEF pointer_arithmetic
  <2> HIDE DEF a1, a2, a3, a4, a5, a6, l1, l2, v0, v1, v2, v3, v4, v6
  <2>4. IsSequence(s) /\ Len(s) = 18
    BY DEF IsSequence
  <2>5. \A i \in 1 .. 18 : G(s[i])
    BY <2>1, <2>2
  <2> HIDE DEF s
  <2> QED BY <2>3, <2>4, <2>5, <1>2
<1> QED BY <1>3, <1>4, <1>5

(* The threads that main holds while its locals are there, for certain or  *)
(* perhaps.                                                                *)
With(A)     == Holds({Locals} \cup A)
WithSome(A) == Perhaps({Locals} \cup A)

(* Both are statuses, and what a change of one object makes of them. *)
LEMMA WithStatuses ==
  ASSUME NEW A
  PROVE  /\ With(A) \in Statuses /\ WithSome(A) \in Statuses
         /\ With(A)[Locals] = "held"
         /\ \A h \in Handles :
              /\ With(A)[h] = IF h \in A THEN "held" ELSE "empty"
              /\ WithSome(A)[h] = IF h \in A THEN "any" ELSE "empty"
              /\ [With(A) EXCEPT ![h] = "held"] = With(A \cup {h})
              /\ [With(A) EXCEPT ![h] = "empty"] = With(A \ {h})
              /\ [WithSome(A) EXCEPT ![h] = "empty"] = WithSome(A \ {h})
<1>1. \A h \in Handles : h \in Objects /\ h # Locals
  BY ThreeHandles DEF Objects
<1>2. Locals \in Objects
  BY DEF Objects
<1>3. \A h \in Handles : /\ {Locals} \cup (A \ {h}) = ({Locals} \cup A) \ {h}
                         /\ {Locals} \cup (A \cup {h}) = ({Locals} \cup A) \cup {h}
  BY <1>1
<1>4. With(A) \in Statuses /\ WithSome(A) \in Statuses
  BY HoldsTypes DEF With, WithSome
<1>5. With(A)[Locals] = "held"
  BY <1>2 DEF With, Holds
<1>6. ASSUME NEW h \in Handles
      PROVE  /\ With(A)[h] = IF h \in A THEN "held" ELSE "empty"
             /\ WithSome(A)[h] = IF h \in A THEN "any" ELSE "empty"
  BY <1>1 DEF With, WithSome, Holds, Perhaps
<1>7. ASSUME NEW h \in Handles
      PROVE  /\ [With(A) EXCEPT ![h] = "held"] = With(A \cup {h})
             /\ [With(A) EXCEPT ![h] = "empty"] = With(A \ {h})
             /\ [WithSome(A) EXCEPT ![h] = "empty"] = WithSome(A \ {h})
  <2> DEFINE L == {Locals} \cup A
  <2>1. /\ With(A) = Holds(L) /\ With(A \cup {h}) = Holds(L \cup {h})
        /\ With(A \ {h}) = Holds(L \ {h})
        /\ WithSome(A) = Perhaps(L) /\ WithSome(A \ {h}) = Perhaps(L \ {h})
    BY <1>3 DEF With, WithSome
  <2>2. /\ [Holds(L) EXCEPT ![h] = "held"] = Holds(L \cup {h})
        /\ [Holds(L) EXCEPT ![h] = "empty"] = Holds(L \ {h})
        /\ [Perhaps(L) EXCEPT ![h] = "empty"] = Perhaps(L \ {h})
    BY <1>1, HoldsChange
  <2> HIDE DEF L
  <2> QED BY <2>1, <2>2
<1> QED BY <1>4, <1>5, <1>6, <1>7

(* The same for one object. *)
LEMMA WithAt ==
  ASSUME NEW A, NEW h \in Handles
  PROVE  /\ With(A) \in Statuses
         /\ With(A)[h] = IF h \in A THEN "held" ELSE "empty"
         /\ WithSome(A)[h] = IF h \in A THEN "any" ELSE "empty"
         /\ [With(A) EXCEPT ![h] = "held"] = With(A \cup {h})
         /\ [With(A) EXCEPT ![h] = "empty"] = With(A \ {h})
         /\ [WithSome(A) EXCEPT ![h] = "empty"] = WithSome(A \ {h})
BY WithStatuses

(* Less is known when more objects may hold a thread. *)
LEMMA WithCovers ==
  ASSUME NEW A, NEW B, A \subseteq B
  PROVE  Covers(WithSome(B), WithSome(A)) /\ Covers(WithSome(B), With(A))
BY HoldsCovers DEF With, WithSome

(* Main holds no thread: before it starts, and after its locals are gone. *)
LEMMA AllEmptyIsHolds == With({}) = Fresh /\ [With({}) EXCEPT ![Locals] = "empty"] = Holds({})
BY DEF With, Fresh, Holds

(* A thread in the scope of others. *)
LEMMA NestedThread ==
  ASSUME NEW p, p # "edit_document", NEW h \in Handles, NEW f, NEW rest, Plain(p, f),
         NEW A, h \notin A, NEW A2, A2 = A \cup {h}, NEW B, h \notin B,
         NEW C, A \subseteq C, p \in Guarded => h \notin C, NEW C2, C2 = C \ {h},
         Runs(p, main, rest, With(A2), With(B), WithSome(C), TRUE)
  PROVE  Runs(p, main, Thread(h, f, rest), With(A), With(B), WithSome(C2), TRUE)
<1>1. h \in HandlesOf(p, main) /\ main \in Threads
  BY HandlesOfMain, ThreeHandles
<1>2. /\ With(A) \in Statuses /\ With(B) \in Statuses /\ WithSome(C) \in Statuses
      /\ With(A)[h] = "empty" /\ With(A)[Locals] = "held"
      /\ [With(A) EXCEPT ![h] = "held"] = With(A2)
      /\ With(B)[h] = "empty"
      /\ [With(B) EXCEPT ![h] = "empty"] = With(B \ {h})
      /\ p \in Guarded => WithSome(C)[h] = "empty"
      /\ [WithSome(C) EXCEPT ![h] = "empty"] = WithSome(C2)
  BY WithStatuses
<1>3. B \ {h} = B /\ A \subseteq C2
  OBVIOUS
<1> DEFINE exc == WithSome(C2)
<1>4. Covers(exc, With(A)) /\ Covers(exc, WithSome(C2))
  BY <1>3, WithCovers, CoversSelf
<1> HIDE DEF exc
<1>5. Covers(exc, [WithSome(C) EXCEPT ![h] = "empty"])
  BY <1>2, <1>4
<1>6. Runs(p, main, rest, [With(A) EXCEPT ![h] = "held"], With(B), WithSome(C), TRUE)
  BY <1>2
<1>7. Runs(p, main, Thread(h, f, rest), With(A), [With(B) EXCEPT ![h] = "empty"], exc, TRUE)
  BY <1>1, <1>2, <1>4, <1>5, <1>6, ThreadRuns
<1> QED BY <1>2, <1>3, <1>7 DEF exc

(* Main joins or detaches a thread that it holds. *)
LEMMA JoinOfMain ==
  ASSUME NEW p, p # "edit_document", NEW h \in Handles, NEW A, h \in A, NEW B, B = A \ {h},
         NEW strict
  PROVE  /\ Quiet(p, main, <<Join(h)>>, With(A), With(B), strict)
         /\ p \in Detaching \cup {"oops"} =>
              Quiet(p, main, <<Detach(h)>>, With(A), With(B), strict)
<1>1. h \in HandlesOf(p, main) /\ main \in Threads
  BY HandlesOfMain, ThreeHandles
<1>2. With(A) \in Statuses /\ With(A)[h] = "held" /\ [With(A) EXCEPT ![h] = "empty"] = With(B)
  BY WithStatuses
<1>3. Quiet(p, main, <<Join(h)>>, With(A), [With(A) EXCEPT ![h] = "empty"], strict)
  BY <1>1, <1>2, JoinQuiet
<1>4. p \in Detaching \cup {"oops"} =>
        Quiet(p, main, <<Detach(h)>>, With(A), [With(A) EXCEPT ![h] = "empty"], strict)
  BY <1>1, <1>2, DetachQuiet
<1> QED BY <1>2, <1>3, <1>4

(* What main leaves behind, with or without its locals. *)
LEMMA SettledStatuses ==
  ASSUME NEW p, p \notin {"auto_joining", "edit_document"}
  PROVE  Settled(p, main, With({})) /\ Settled(p, main, WithSome({})) /\ Settled(p, main, Holds({}))
<1>1. \A h \in Handles : /\ With({})[h] = "empty" /\ WithSome({})[h] = "empty"
                         /\ Holds({})[h] = "empty"
  BY WithStatuses DEF Holds, Objects
<1> QED BY <1>1, HandlesOfMain DEF Settled

(* A program whose scopes leave nothing behind is safe. *)
LEMMA SettlesPlain ==
  ASSUME NEW p, p \notin {"auto_joining", "edit_document"}, NEW s,
         Runs(p, main, s, With({}), With({}), WithSome({}), TRUE)
  PROVE  Safe(p, main, s, Fresh, TRUE)
BY SettledStatuses, AllEmptyIsHolds, WithStatuses DEF Safe

(* Chapter 1: three threads, joined in order. *)
LEMMA HelloWorldSafe == Safe("hello_world", main, hello_world, Fresh, TRUE)
<1> DEFINE p == "hello_world"
           f == <<Work>>
           j == <<Join(1)>> \o <<Join(2)>> \o <<Join(3)>>
           t3 == Thread(3, f, j)
           t2 == Thread(2, f, t3)
           t1 == Thread(1, f, t2)
<1>1. p # "edit_document" /\ p \notin Guarded /\ p # "auto_joining" /\ Plain(p, f)
  BY PlainBodies DEF Guarded
<1>2. hello_world = t1
  <2>1. <<Join(1), Join(2), Join(3)>> = j
    OBVIOUS
  <2> QED BY <2>1 DEF hello_world
<1> HIDE DEF p, f
<1>3. /\ {1, 2, 3} \subseteq Handles
      /\ {2, 3} = {1, 2, 3} \ {1} /\ {3} = {2, 3} \ {2} /\ {} = {3} \ {3}
      /\ {1, 2, 3} = {1, 2} \cup {3} /\ {1, 2} = {1} \cup {2} /\ {1} = {} \cup {1}
      /\ {1, 2} = {1, 2, 3} \ {3} /\ {1} = {1, 2} \ {2} /\ {} = {1} \ {1}
      /\ 3 \notin {1, 2} /\ 2 \notin {1}
      /\ {1, 2} \subseteq {1, 2, 3} /\ {1} \subseteq {1, 2}
  BY ThreeHandles
<1>4. /\ Quiet(p, main, <<Join(1)>>, With({1, 2, 3}), With({2, 3}), TRUE)
      /\ Quiet(p, main, <<Join(2)>>, With({2, 3}), With({3}), TRUE)
      /\ Quiet(p, main, <<Join(3)>>, With({3}), With({}), TRUE)
  BY <1>1, <1>3, JoinOfMain
<1>5. Quiet(p, main, j, With({1, 2, 3}), With({}), TRUE)
  BY <1>4, QuietConcat
<1> HIDE DEF j
<1>6. Runs(p, main, j, With({1, 2, 3}), With({}), WithSome({1, 2, 3}), TRUE)
  BY <1>5, QuietRuns
<1>7. Runs(p, main, t3, With({1, 2}), With({}), WithSome({1, 2}), TRUE)
  BY <1>1, <1>3, <1>6, NestedThread
<1> HIDE DEF t3
<1>8. Runs(p, main, t2, With({1}), With({}), WithSome({1}), TRUE)
  BY <1>1, <1>3, <1>7, NestedThread
<1> HIDE DEF t2
<1>9. Runs(p, main, t1, With({}), With({}), WithSome({}), TRUE)
  BY <1>1, <1>3, <1>8, NestedThread
<1> HIDE DEF t1
<1> QED BY <1>1, <1>2, <1>9, SettlesPlain DEF p

-----------------------------------------------------------------------------
(* Guards *)

(* Two threads, the second of which may be detached. *)
LEMMA TwoThreadsRun ==
  ASSUME NEW p, p \notin Guarded \cup {"edit_document", "auto_joining"}, NEW f, NEW g, NEW last,
         Plain(p, f), Plain(p, g),
         last = Join(2) \/ (last = Detach(2) /\ p \in Detaching)
  PROVE  Runs(p, main, Thread(1, f, Thread(2, g, <<Join(1), last>>)),
              With({}), With({}), WithSome({}), TRUE)
<1> DEFINE j == <<Join(1)>> \o <<last>>
           t2 == Thread(2, g, j)
           t1 == Thread(1, f, t2)
<1>1. <<Join(1), last>> = j
  OBVIOUS
<1>2. /\ {1, 2} \subseteq Handles
      /\ {2} = {1, 2} \ {1} /\ {} = {2} \ {2}
      /\ {1, 2} = {1} \cup {2} /\ {1} = {} \cup {1}
      /\ {1} = {1, 2} \ {2} /\ {} = {1} \ {1}
      /\ 2 \notin {1} /\ {1} \subseteq {1, 2}
  BY ThreeHandles
<1>3. /\ Quiet(p, main, <<Join(1)>>, With({1, 2}), With({2}), TRUE)
      /\ Quiet(p, main, <<last>>, With({2}), With({}), TRUE)
  BY <1>2, JoinOfMain
<1>4. Quiet(p, main, j, With({1, 2}), With({}), TRUE)
  BY <1>3, QuietConcat
<1> HIDE DEF j
<1>5. Runs(p, main, j, With({1, 2}), With({}), WithSome({1, 2}), TRUE)
  BY <1>4, QuietRuns
<1>6. Runs(p, main, t2, With({1}), With({}), WithSome({1}), TRUE)
  BY <1>2, <1>5, NestedThread
<1> HIDE DEF t2
<1>7. Runs(p, main, t1, With({}), With({}), WithSome({}), TRUE)
  BY <1>2, <1>6, NestedThread
<1> HIDE DEF t1
<1> QED BY <1>1, <1>7 DEF t1, t2, j

(* 2.1_BasicThreadManagement: one thread is joined, one detached, and an   *)
(* int is not returned.                                                    *)
LEMMA WorkspaceSafe == Safe("worspace1", main, worspace1, Fresh, TRUE)
<1>1. "worspace1" \notin Guarded \cup {"edit_document", "auto_joining"}
  BY DEF Guarded
<1> DEFINE p == "worspace1"
           s == Thread(1, <<Work>>, Thread(2, <<Work>>, <<Join(1), Detach(2)>>))
<1>2. p \in Detaching /\ Plain(p, <<Work>>)
  BY PlainBodies DEF Detaching
<1> HIDE DEF p
<1>3. Runs(p, main, s, With({}), With({}), WithSome({}), TRUE)
  BY <1>1, <1>2, TwoThreadsRun DEF p
<1>4. Runs(p, main, <<Undefined>>, With({}), With({}), WithSome({}), TRUE)
  BY WithStatuses, ThreeHandles, UndefinedQuiet, QuietRuns
<1> HIDE DEF s
<1>5. Runs(p, main, s \o <<Undefined>>, With({}), With({}), WithSome({}), TRUE)
  BY <1>3, <1>4, RunsConcat
<1> QED BY <1>1, <1>5, SettlesPlain DEF worspace1, s, p

(* release_sequence_example: producer and consumer. *)
LEMMA ReleaseSequenceSafe == Safe("release_sequence", main, release_sequence, Fresh, TRUE)
<1>1. "release_sequence" \notin Guarded \cup {"edit_document", "auto_joining"}
  BY DEF Guarded
<1> QED BY <1>1, PlainBodies, TwoThreadsRun, SettlesPlain DEF release_sequence

(* A program that starts no thread is safe. *)
LEMMA SingleThreadedSafe ==
  ASSUME NEW p, p \notin {"auto_joining", "edit_document"}, NEW s, Plain(p, s)
  PROVE  Safe(p, main, s, Fresh, TRUE)
<1>1. With({}) \in Statuses /\ With({})[Locals] = "held" /\ main \in Threads
  BY WithStatuses, ThreeHandles
<1>2. Quiet(p, main, s, With({}), With({}), TRUE)
  BY <1>1, PlainQuiet
<1> QED BY <1>2, QuietRuns, SettlesPlain

(* The guarded functions of 2.1: someLocalState outlives the thread. *)
LEMMA LocalStateSafe ==
  ASSUME NEW p, p \in Guarded \ {"auto_joining"}, NEW s,
         Runs(p, main, s, With({}), With({}), With({}), TRUE)
  PROVE  Safe(p, main, WithLocalState(s), Fresh, TRUE)
<1> DEFINE u == <<EndLifetime("someLocalState")>>
           st == [With({}) EXCEPT ![Locals] = "empty"]
<1>1. p \notin Detaching \cup {"edit_document"}
  BY DEF Guarded, Detaching
<1>2. With({}) \in Statuses /\ \A h \in Handles : With({})[h] = "empty"
  BY WithStatuses
<1>3. Quiet(p, main, u, With({}), st, TRUE)
  BY <1>1, <1>2, NamedLocations, EndLifetimeQuiet
<1>4. Quiet(p, main, u, With({}), st, p \in Guarded)
  BY <1>1, <1>2, NamedLocations, EndLifetimeQuiet
<1> HIDE DEF st, u
<1>5. Runs(p, main, Within(s, u), With({}), st, st, TRUE)
  BY <1>3, <1>4, WithinRuns
<1>6. st \in Statuses /\ Settled(p, main, st) /\ Fresh = With({})
  BY <1>1, AllEmptyIsHolds, HoldsTypes, SettledStatuses DEF st
<1> QED BY <1>5, <1>6 DEF Safe, WithLocalState, u

(* The thread of a guarded function, joined on both paths. *)
LEMMA GuardedThread ==
  ASSUME NEW p, p \in Guarded \ {"auto_joining"}, NEW h \in Handles, NEW rest,
         Runs(p, main, rest, With({h}), With({}), With({}), TRUE)
  PROVE  Runs(p, main, Thread(h, Funct, rest), With({}), With({}), With({}), TRUE)
<1>1. h \in HandlesOf(p, main) /\ main \in Threads
  BY HandlesOfMain, ThreeHandles DEF Guarded
<1>2. /\ With({}) \in Statuses /\ With({})[h] = "empty" /\ With({})[Locals] = "held"
      /\ [With({}) EXCEPT ![h] = "held"] = With({} \cup {h})
      /\ [With({}) EXCEPT ![h] = "empty"] = With({} \ {h})
  BY WithStatuses, WithAt
<1>3. {} \cup {h} = {h} /\ {} \ {h} = {}
  OBVIOUS
<1>4. Plain(p, Funct)
  BY PlainBodies
<1> DEFINE st == With({})
<1>5. [st EXCEPT ![h] = "held"] = With({h}) /\ [st EXCEPT ![h] = "empty"] = st
  BY <1>2, <1>3
<1>6. st \in Statuses /\ st[h] = "empty" /\ st[Locals] = "held" /\ Covers(st, st)
  BY <1>2, CoversSelf
<1>7. Runs(p, main, rest, [st EXCEPT ![h] = "held"], st, st, TRUE)
  BY <1>5
<1> HIDE DEF st
<1>8. Runs(p, main, Thread(h, Funct, rest), st, [st EXCEPT ![h] = "empty"], st, TRUE)
  BY <1>1, <1>4, <1>5, <1>6, <1>7, ThreadRuns
<1> QED BY <1>5, <1>8 DEF st

(* Main joins the only thread. *)
LEMMA JoinFirst ==
  ASSUME NEW p, p \in Guarded \ {"auto_joining"}
  PROVE  /\ Quiet(p, main, <<Join(1)>>, With({1}), With({}), TRUE)
         /\ Quiet(p, main, <<Join(1)>>, With({1}), With({}), p \in Guarded)
<1>1. p # "edit_document" /\ 1 \in Handles /\ {} = {1} \ {1}
  BY ThreeHandles DEF Guarded
<1> QED BY <1>1, JoinOfMain

(* oops detaches. *)
LEMMA OopsSafe == Safe("oops", main, oops, Fresh, TRUE)
<1> DEFINE p == "oops"
<1>1. p \in Guarded \ {"auto_joining"} /\ p # "edit_document" /\ p \in Detaching \cup {"oops"}
  BY DEF Guarded
<1>2. 1 \in Handles /\ {} = {1} \ {1}
  BY ThreeHandles
<1> HIDE DEF p
<1>3. Quiet(p, main, <<Detach(1)>>, With({1}), With({}), TRUE)
  BY <1>1, <1>2, JoinOfMain
<1>4. Runs(p, main, <<Detach(1)>>, With({1}), With({}), With({}), TRUE)
  BY <1>3, QuietRuns
<1> QED BY <1>1, <1>2, <1>4, GuardedThread, LocalStateSafe DEF oops, p

(* better_oops joins in the catch clause and after it. *)
LEMMA BetterOopsSafe == Safe("better_oops", main, better_oops, Fresh, TRUE)
<1> DEFINE p == "better_oops"
           rest == Catch(<<Risk>>, <<Join(1)>>) \o <<Join(1)>>
<1>1. p \in Guarded \ {"auto_joining"} /\ main \in Threads
  BY ThreeHandles DEF Guarded
<1> HIDE DEF p
<1>2. Runs(p, main, <<Risk>>, With({1}), With({1}), With({1}), TRUE)
  BY <1>1, RiskRuns, WithStatuses, CoversSelf
<1>3. Runs(p, main, Catch(<<Risk>>, <<Join(1)>>), With({1}), With({1}), With({}), TRUE)
  BY <1>1, <1>2, JoinFirst, RunsCatch
<1>4. Runs(p, main, <<Join(1)>>, With({1}), With({}), With({}), TRUE)
  BY <1>1, JoinFirst, QuietRuns
<1>5. Runs(p, main, rest, With({1}), With({}), With({}), TRUE)
  BY <1>3, <1>4, RunsConcat
<1> HIDE DEF rest
<1>6. Safe(p, main, WithLocalState(Thread(1, Funct, rest)), Fresh, TRUE)
  BY <1>1, <1>5, ThreeHandles, GuardedThread, LocalStateSafe
<1> QED BY <1>6 DEF better_oops, rest, p

(* much_better_oops leaves it to ThreadGuard. *)
LEMMA MuchBetterOopsSafe == Safe("much_better_oops", main, much_better_oops, Fresh, TRUE)
<1> DEFINE p == "much_better_oops"
           rest == ThreadGuard(1, <<Risk>>)
           j == <<JoinIfJoinable(1)>>
<1>1. p \in Guarded \ {"auto_joining"} /\ main \in Threads /\ p # "edit_document"
  BY ThreeHandles DEF Guarded
<1> HIDE DEF p
<1>2. Runs(p, main, <<Risk>>, With({1}), With({1}), With({1}), TRUE)
  BY <1>1, RiskRuns, WithStatuses, CoversSelf
<1>3. /\ Quiet(p, main, j, With({1}), With({}), TRUE)
      /\ Quiet(p, main, j, With({1}), With({}), p \in Guarded)
  <2>1. 1 \in HandlesOf(p, main) /\ With({1}) \in Statuses
    BY <1>1, HandlesOfMain, ThreeHandles, WithStatuses
  <2>2. [With({1}) EXCEPT ![1] = "empty"] = With({})
    <3>1. [With({1}) EXCEPT ![1] = "empty"] = With({1} \ {1}) /\ {1} \ {1} = {}
      BY ThreeHandles, WithStatuses
    <3> QED BY <3>1
  <2>3. \A strict : Quiet(p, main, j, With({1}), [With({1}) EXCEPT ![1] = "empty"], strict)
    BY <1>1, <2>1, JoinIfJoinableQuiet
  <2> QED BY <2>2, <2>3
<1>4. Runs(p, main, rest, With({1}), With({}), With({}), TRUE)
  <2> HIDE DEF j
  <2>1. Runs(p, main, Within(<<Risk>>, j), With({1}), With({}), With({}), TRUE)
    BY <1>2, <1>3, WithinRuns
  <2> QED BY <2>1 DEF ThreadGuard, j
<1> HIDE DEF rest
<1>5. Safe(p, main, WithLocalState(Thread(1, Funct, rest)), Fresh, TRUE)
  BY <1>1, <1>4, ThreeHandles, GuardedThread, LocalStateSafe
<1> QED BY <1>5 DEF much_better_oops, rest, p

(* A ScopedThreadGuard gets the thread of target, or throws. *)
LEMMA ScopedThreadGuardRuns ==
  ASSUME NEW p, p \in Guarded \ {"auto_joining"}, NEW A \in {{}, {1}}
  PROVE  Runs(p, main, ScopedThreadGuard(<<Risk>>), With(A), With({}), With({}), TRUE)
<1> DEFINE B == IF A = {} THEN {} ELSE {2}
           c == ThrowIfEmpty(2)
           inner == Within(<<Risk>>, <<Join(2)>>)
<1>1. /\ main \in Threads /\ 1 \in Handles /\ 2 \in Handles
      /\ 1 \in HandlesOf(p, main) /\ 2 \in HandlesOf(p, main)
      /\ p # "edit_document"
  BY HandlesOfMain, ThreeHandles DEF Guarded
<1>2. /\ With(A) \in Statuses /\ With(B) \in Statuses
      /\ With({}) \in Statuses /\ With({2}) \in Statuses
  BY WithStatuses
<1>3. Quiet(p, main, <<Move(2, 1)>>, With(A), With(B), TRUE)
  <2>1. With(A)[2] = "empty" /\ With(A)[1] = IF A = {} THEN "empty" ELSE "held"
    BY <1>1 DEF With, Holds, Objects, Locals
  <2>2. [With(A) EXCEPT ![2] = With(A)[1], ![1] = "empty"] = With(B)
    BY <1>1, <2>1 DEF With, Holds, Locals
  <2>3. Quiet(p, main, <<Move(2, 1)>>, With(A),
              [With(A) EXCEPT ![2] = With(A)[1], ![1] = "empty"], TRUE)
    BY <1>1, <1>2, <2>1, MoveQuiet
  <2> QED BY <2>2, <2>3
<1>4. /\ [With(B) EXCEPT ![2] = "held"] = With({2})
      /\ [With(B) EXCEPT ![2] = "empty"] = With({})
  <2>1. B \cup {2} = {2} /\ B \ {2} = {}
    OBVIOUS
  <2>2. [With(B) EXCEPT ![2] = "held"] = With(B \cup {2})
    BY <1>1, WithAt
  <2>3. [With(B) EXCEPT ![2] = "empty"] = With(B \ {2})
    BY <1>1, WithAt
  <2> QED BY <2>1, <2>2, <2>3
<1> HIDE DEF B
<1>5. Runs(p, main, <<c>>, With(B), With({2}), With({}), TRUE)
  <2>1. Formed(c) /\ Typed(c) /\ c.op = "throw_if_empty" /\ c.handle = 2 /\ c.unwind = <<>>
    BY GuardInstructions
  <2> HIDE DEF c
  <2>2. /\ Fine(p, main, c, With(B), TRUE) /\ c.op \in Throwing
        /\ After(c, With(B)) = With({2}) /\ Unwound(c, With(B)) = With({})
    BY <1>1, <1>4, <2>1 DEF Fine, After, Unwound, HandleOps, Throwing
  <2>3. Quiet(p, main, <<>>, With({}), With({}), p \in Guarded)
    BY <1>2, QuietNone, CoversSelf
  <2>4. Throws(p, main, c, With(B), With({}))
    BY <2>1, <2>2, <2>3 DEF Throws
  <2> QED BY <1>1, <1>2, <2>2, <2>4, RunsOne, CoversSelf
<1>6. Runs(p, main, inner, With({2}), With({}), With({}), TRUE)
  <2>1. Runs(p, main, <<Risk>>, With({2}), With({2}), With({2}), TRUE)
    BY <1>1, <1>2, RiskRuns, CoversSelf
  <2>2. {} = {2} \ {2}
    OBVIOUS
  <2>3. /\ Quiet(p, main, <<Join(2)>>, With({2}), With({}), TRUE)
        /\ Quiet(p, main, <<Join(2)>>, With({2}), With({}), p \in Guarded)
    BY <1>1, <2>2, JoinOfMain
  <2> QED BY <2>1, <2>3, WithinRuns
<1> HIDE DEF c, inner
<1>7. Runs(p, main, <<c>> \o inner, With(B), With({}), With({}), TRUE)
  BY <1>5, <1>6, RunsConcat
<1>8. /\ Quiet(p, main, <<Destroy(2)>>, With({}), With({}), TRUE)
      /\ Quiet(p, main, <<Destroy(2)>>, With({}), With({}), p \in Guarded)
  <2>1. With({})[2] = "empty" /\ [With({}) EXCEPT ![2] = "empty"] = With({} \ {2})
    BY <1>1, WithAt
  <2>2. {} \ {2} = {}
    OBVIOUS
  <2>3. \A strict : Quiet(p, main, <<Destroy(2)>>, With({}), [With({}) EXCEPT ![2] = "empty"], strict)
    BY <1>1, <1>2, <2>1, DestroyQuiet
  <2> QED BY <2>1, <2>2, <2>3
<1>9. Runs(p, main, Within(<<c>> \o inner, <<Destroy(2)>>), With(B), With({}), With({}), TRUE)
  BY <1>7, <1>8, WithinRuns
<1>10. Runs(p, main, <<Move(2, 1)>>, With(A), With(B), With({}), TRUE)
  BY <1>3, QuietRuns
<1> QED BY <1>9, <1>10, RunsConcat DEF ScopedThreadGuard, c, inner

(* Whether target holds a thread or not. *)
LEMMA ScopedSafe ==
  Safe("scoped", main, scoped, Fresh, TRUE) /\ Safe("scoped_empty", main, scoped_empty, Fresh, TRUE)
<1> DEFINE g == ScopedThreadGuard(<<Risk>>)
<1>1. {"scoped", "scoped_empty"} \subseteq Guarded \ {"auto_joining"}
  BY DEF Guarded
<1>2. \A p \in Guarded \ {"auto_joining"} :
        /\ Runs(p, main, g, With({}), With({}), With({}), TRUE)
        /\ Runs(p, main, g, With({1}), With({}), With({}), TRUE)
  BY ScopedThreadGuardRuns
<1> HIDE DEF g
<1>3. Safe("scoped", main, scoped, Fresh, TRUE)
  <2> DEFINE p == "scoped"
  <2>1. Runs(p, main, Thread(1, Funct, g), With({}), With({}), With({}), TRUE)
    BY <1>1, <1>2, ThreeHandles, GuardedThread
  <2> QED BY <1>1, <2>1, LocalStateSafe DEF scoped, Thread, g
<1>4. Safe("scoped_empty", main, scoped_empty, Fresh, TRUE)
  BY <1>1, <1>2, LocalStateSafe DEF scoped_empty, g
<1> QED BY <1>3, <1>4

-----------------------------------------------------------------------------
(* Vectors of threads *)

(* A function on 1 .. n is a sequence of length n. *)
LEMMA FunctionSequence ==
  ASSUME NEW n \in Nat, NEW s, s = [i \in 1 .. n |-> s[i]]
  PROVE  IsSequence(s) /\ Len(s) = n
<1> DEFINE S == {s[i] : i \in 1 .. n}
<1>1. s \in [1 .. n -> S]
  OBVIOUS
<1> HIDE DEF S
<1>2. s \in Seq(S) /\ Len(s) = n
  BY <1>1, SeqDef
<1> QED BY <1>2, SequenceType

(* A vector of n threads has n objects. *)
LEMMA ManyHandles ==
  ASSUME NEW p, p # "edit_document", NEW n \in 0 .. MaxThreads, NEW i \in 1 .. n
  PROVE  i \in Handles /\ i \in HandlesOf(p, main) /\ n \in Nat
BY ThreadProgramsAssumption DEF HandlesOf, Handles

(* The loop that starts the threads of a vector: if one cannot be started, *)
(* some of the others hold a thread.                                       *)
LEMMA StartsRun ==
  ASSUME NEW p, p # "edit_document", NEW n \in 0 .. MaxThreads, NEW g,
         \A i \in 1 .. n : Plain(p, g[i])
  PROVE  Runs(p, main, [i \in 1 .. n |-> Start(i, g[i])],
              With({}), With(1 .. n), WithSome(1 .. n), TRUE)
<1> DEFINE s == [i \in 1 .. n |-> Start(i, g[i])]
           a == [i \in 1 .. n + 1 |-> With(1 .. i - 1)]
           exc == WithSome(1 .. n)
<1>1. n \in Nat /\ IsSequence(s) /\ Len(s) = n
  <2>1. n \in Nat
    BY ThreadProgramsAssumption
  <2>2. s = [i \in 1 .. n |-> s[i]]
    OBVIOUS
  <2> HIDE DEF s
  <2> QED BY <2>1, <2>2, FunctionSequence
<1>2. a \in [1 .. n + 1 -> Statuses]
  BY WithStatuses
<1>3. a[1] = With({}) /\ a[n + 1] = With(1 .. n)
  <2>1. 1 .. 0 = {} /\ 1 - 1 = 0 /\ (n + 1) - 1 = n
    BY <1>1
  <2> QED BY <2>1, <1>1
<1>4. ASSUME NEW i \in 1 .. n
      PROVE  /\ Fine(p, main, s[i], a[i], TRUE) /\ a[i + 1] = After(s[i], a[i])
             /\ s[i].op \in Throwing /\ Throws(p, main, s[i], a[i], exc)
  <2> DEFINE c == Start(i, g[i])
             A == 1 .. i - 1
  <2>1. /\ Formed(c) /\ Typed(c) /\ c.op = "start"
        /\ c.handle = i /\ c.body = g[i] /\ c.unwind = <<>>
    BY GuardInstructions
  <2>2. s[i] = c /\ a[i] = With(A) /\ a[i + 1] = With(A \cup {i}) /\ i \notin A
    <3>1. 1 .. (i + 1) - 1 = A \cup {i} /\ i \notin A
      BY <1>1
    <3>2. i \in 1 .. n + 1 /\ i + 1 \in 1 .. n + 1
      BY <1>1
    <3>3. a[i] = With(1 .. i - 1) /\ a[i + 1] = With(1 .. (i + 1) - 1)
      BY <3>2
    <3> QED BY <3>1, <3>3
  <2>3. A \subseteq 1 .. n
    BY <1>1
  <2>4. /\ i \in Handles /\ i \in HandlesOf(p, main)
        /\ With(A) \in Statuses /\ With(A)[i] = "empty" /\ With(A)[Locals] = "held"
        /\ [With(A) EXCEPT ![i] = "held"] = With(A \cup {i})
    <3> HIDE DEF A
    <3>1. i \in Handles /\ i \in HandlesOf(p, main)
      BY ManyHandles
    <3> QED BY <2>2, <3>1, WithAt, WithStatuses
  <2>5. Covers(exc, With(A))
    BY <2>3, WithCovers
  <2> HIDE DEF c, A, s, a, exc
  <2>6. Fine(p, main, c, With(A), TRUE) /\ After(c, With(A)) = With(A \cup {i})
    BY <2>1, <2>4 DEF Fine, After
  <2>7. Quiet(p, main, <<>>, With(A), exc, p \in Guarded)
    BY <2>4, <2>5, QuietNone
  <2>8. Throws(p, main, c, With(A), exc) /\ c.op \in Throwing
    BY <2>1, <2>7 DEF Throws, Unwound, Throwing
  <2> QED BY <2>2, <2>6, <2>8
<1> HIDE DEF a, s, exc
<1>5. Annotates(p, main, a, s, With({}), With(1 .. n), TRUE)
  BY <1>1, <1>2, <1>3, <1>4, CoversSelf DEF Annotates
<1>6. Runs(p, main, s, With({}), With(1 .. n), exc, TRUE)
  BY <1>1, <1>4, <1>5 DEF Runs
<1> QED BY <1>6 DEF s, exc

(* The loop that joins them. *)
LEMMA JoinsQuiet ==
  ASSUME NEW p, p # "edit_document", NEW n \in 0 .. MaxThreads, NEW strict
  PROVE  Quiet(p, main, [i \in 1 .. n |-> Join(i)], With(1 .. n), With({}), strict)
<1> DEFINE s == [i \in 1 .. n |-> Join(i)]
           a == [i \in 1 .. n + 1 |-> With(i .. n)]
<1>1. n \in Nat /\ IsSequence(s) /\ Len(s) = n
  <2>1. n \in Nat
    BY ThreadProgramsAssumption
  <2>2. s = [i \in 1 .. n |-> s[i]]
    OBVIOUS
  <2> HIDE DEF s
  <2> QED BY <2>1, <2>2, FunctionSequence
<1>2. a \in [1 .. n + 1 -> Statuses]
  BY WithStatuses
<1>3. a[1] = With(1 .. n) /\ a[n + 1] = With({})
  <2>1. n + 1 .. n = {}
    BY <1>1
  <2> QED BY <2>1, <1>1
<1>4. ASSUME NEW i \in 1 .. n
      PROVE  /\ Fine(p, main, s[i], a[i], strict) /\ a[i + 1] = After(s[i], a[i])
             /\ Steady(s[i], a[i])
  <2> DEFINE c == Join(i)
             A == i .. n
  <2>1. Formed(c) /\ Typed(c) /\ c.op = "join" /\ c.handle = i
    BY GuardInstructions
  <2>2. s[i] = c /\ a[i] = With(A) /\ a[i + 1] = With(A \ {i}) /\ i \in A
    <3>1. i + 1 .. n = A \ {i} /\ i \in A
      BY <1>1
    <3>2. i \in 1 .. n + 1 /\ i + 1 \in 1 .. n + 1
      BY <1>1
    <3>3. a[i] = With(i .. n) /\ a[i + 1] = With(i + 1 .. n)
      BY <3>2
    <3> QED BY <3>1, <3>3
  <2>3. /\ i \in Handles /\ i \in HandlesOf(p, main)
        /\ With(A) \in Statuses /\ With(A)[i] = "held"
        /\ [With(A) EXCEPT ![i] = "empty"] = With(A \ {i})
    <3> HIDE DEF A
    <3>1. i \in Handles /\ i \in HandlesOf(p, main)
      BY ManyHandles
    <3> QED BY <2>2, <3>1, WithAt
  <2> HIDE DEF c, A, s, a
  <2>4. /\ Fine(p, main, c, With(A), strict) /\ After(c, With(A)) = With(A \ {i})
        /\ Steady(c, With(A))
    BY <2>1, <2>3 DEF Fine, After, Steady
  <2> QED BY <2>2, <2>4
<1> HIDE DEF a, s
<1>5. Annotates(p, main, a, s, With(1 .. n), With({}), strict)
  BY <1>1, <1>2, <1>3, <1>4, CoversSelf DEF Annotates
<1>6. Quiet(p, main, s, With(1 .. n), With({}), strict)
  BY <1>1, <1>4, <1>5 DEF Quiet
<1> QED BY <1>6 DEF s

(* If a thread could not be started, the destructors of the others may     *)
(* terminate the program.                                                  *)
LEMMA DestroysQuiet ==
  ASSUME NEW p, p # "edit_document", NEW n \in 0 .. MaxThreads
  PROVE  LET s == [i \in 1 .. n |-> Destroy(i)]
         IN  /\ Quiet(p, main, s, With({}), With({}), TRUE)
             /\ Quiet(p, main, s, WithSome(1 .. n), WithSome({}), FALSE)
<1> DEFINE s == [i \in 1 .. n |-> Destroy(i)]
           a == [i \in 1 .. n + 1 |-> With({})]
           b == [i \in 1 .. n + 1 |-> WithSome(i .. n)]
<1>1. n \in Nat /\ IsSequence(s) /\ Len(s) = n
  <2>1. n \in Nat
    BY ThreadProgramsAssumption
  <2>2. s = [i \in 1 .. n |-> s[i]]
    OBVIOUS
  <2> HIDE DEF s
  <2> QED BY <2>1, <2>2, FunctionSequence
<1>2. a \in [1 .. n + 1 -> Statuses] /\ b \in [1 .. n + 1 -> Statuses]
  BY WithStatuses
<1>3. /\ a[1] = With({}) /\ a[n + 1] = With({})
      /\ b[1] = WithSome(1 .. n) /\ b[n + 1] = WithSome({})
  <2>1. n + 1 .. n = {}
    BY <1>1
  <2> QED BY <2>1, <1>1
<1>4. ASSUME NEW i \in 1 .. n
      PROVE  /\ Fine(p, main, s[i], a[i], TRUE) /\ a[i + 1] = After(s[i], a[i])
             /\ Fine(p, main, s[i], b[i], FALSE) /\ b[i + 1] = After(s[i], b[i])
             /\ Steady(s[i], a[i]) /\ Steady(s[i], b[i])
  <2> DEFINE c == Destroy(i)
             A == i .. n
  <2>1. Formed(c) /\ Typed(c) /\ c.op = "destroy" /\ c.handle = i
    BY GuardInstructions
  <2>2. /\ s[i] = c /\ a[i] = With({}) /\ a[i + 1] = With({})
        /\ b[i] = WithSome(A) /\ b[i + 1] = WithSome(A \ {i})
    <3>1. i + 1 .. n = A \ {i}
      BY <1>1
    <3>2. i \in 1 .. n + 1 /\ i + 1 \in 1 .. n + 1
      BY <1>1
    <3>3. b[i] = WithSome(i .. n) /\ b[i + 1] = WithSome(i + 1 .. n)
      BY <3>2
    <3> QED BY <3>1, <3>2, <3>3
  <2>3. /\ i \in Handles /\ i \in HandlesOf(p, main)
        /\ With({}) \in Statuses /\ With({})[i] = "empty"
        /\ [With({}) EXCEPT ![i] = "empty"] = With({} \ {i})
        /\ [WithSome(A) EXCEPT ![i] = "empty"] = WithSome(A \ {i})
    <3> HIDE DEF A
    <3>1. i \in Handles /\ i \in HandlesOf(p, main)
      BY ManyHandles
    <3> QED BY <3>1, WithAt
  <2>4. {} \ {i} = {}
    OBVIOUS
  <2> HIDE DEF c, A, s, a, b
  <2>5. /\ Fine(p, main, c, With({}), TRUE) /\ After(c, With({})) = With({})
        /\ Fine(p, main, c, WithSome(A), FALSE) /\ After(c, WithSome(A)) = WithSome(A \ {i})
        /\ Steady(c, With({})) /\ Steady(c, WithSome(A))
    BY <2>1, <2>3, <2>4 DEF Fine, After, Steady
  <2> QED BY <2>2, <2>5
<1> HIDE DEF a, b, s
<1>5. /\ Annotates(p, main, a, s, With({}), With({}), TRUE)
      /\ Annotates(p, main, b, s, WithSome(1 .. n), WithSome({}), FALSE)
  BY <1>1, <1>2, <1>3, <1>4, CoversSelf DEF Annotates
<1>6. /\ Quiet(p, main, s, With({}), With({}), TRUE)
      /\ Quiet(p, main, s, WithSome(1 .. n), WithSome({}), FALSE)
  BY <1>1, <1>4, <1>5 DEF Quiet
<1> QED BY <1>6 DEF s

(* ThreadVector starts, joins and destroys its threads. *)
LEMMA VectorRuns ==
  ASSUME NEW p, p \notin Guarded \cup {"edit_document"}, NEW n \in 0 .. MaxThreads, NEW g,
         \A i \in 1 .. n : Plain(p, g[i]),
         NEW before, NEW after, Plain(p, before), Plain(p, after)
  PROVE  Runs(p, main,
              Within([i \in 1 .. n |-> Start(i, g[i])] \o before
                       \o [i \in 1 .. n |-> Join(i)] \o after,
                     [i \in 1 .. n |-> Destroy(i)]),
              With({}), With({}), WithSome({}), TRUE)
<1> DEFINE starts == [i \in 1 .. n |-> Start(i, g[i])]
           joins  == [i \in 1 .. n |-> Join(i)]
           u      == [i \in 1 .. n |-> Destroy(i)]
           exc    == WithSome(1 .. n)
<1>1. Runs(p, main, starts, With({}), With(1 .. n), exc, TRUE)
  BY StartsRun
<1>2. Quiet(p, main, joins, With(1 .. n), With({}), TRUE)
  BY JoinsQuiet
<1>3. /\ Quiet(p, main, u, With({}), With({}), TRUE)
      /\ Quiet(p, main, u, exc, WithSome({}), p \in Guarded)
  <2>1. (p \in Guarded) = FALSE
    OBVIOUS
  <2> QED BY <2>1, DestroysQuiet
<1>4. /\ Quiet(p, main, before, With(1 .. n), With(1 .. n), TRUE)
      /\ Quiet(p, main, after, With({}), With({}), TRUE)
  BY PlainQuiet, WithStatuses, ThreeHandles
<1> HIDE DEF starts, joins, u, exc
<1>5. /\ Runs(p, main, before, With(1 .. n), With(1 .. n), exc, TRUE)
      /\ Runs(p, main, joins, With(1 .. n), With({}), exc, TRUE)
      /\ Runs(p, main, after, With({}), With({}), exc, TRUE)
  BY <1>2, <1>4, QuietRuns
<1>6. Runs(p, main, starts \o before, With({}), With(1 .. n), exc, TRUE)
  BY <1>1, <1>5, RunsConcat
<1>7. Runs(p, main, starts \o before \o joins, With({}), With({}), exc, TRUE)
  BY <1>5, <1>6, RunsConcat
<1>8. Runs(p, main, starts \o before \o joins \o after, With({}), With({}), exc, TRUE)
  BY <1>5, <1>7, RunsConcat
<1>9. Runs(p, main, Within(starts \o before \o joins \o after, u),
           With({}), With({}), WithSome({}), TRUE)
  BY <1>3, <1>8, WithinRuns
<1> QED BY <1>9 DEF starts, joins, u

(* No code needs no objects. *)
LEMMA NothingIsPlain == \A p : Plain(p, <<>>)
BY EmptySequence DEF Plain

-----------------------------------------------------------------------------
(* The blocks of parallel_accumulate *)

(* Integer division. *)
LEMMA Division ==
  ASSUME NEW a \in Nat, NEW b \in Nat, b > 0
  PROVE  /\ a \div b \in Nat
         /\ (a \div b) * b <= a
         /\ a < (a \div b) * b + b
  OBVIOUS

(* Multiples grow with their factor. *)
LEMMA TimesMonotone ==
  ASSUME NEW j \in Nat, NEW k \in Nat, NEW b \in Nat, j <= k
  PROVE  j * b \in Nat /\ k * b \in Nat /\ j * b <= k * b
  OBVIOUS

(* The next multiple. *)
LEMMA NextMultiple ==
  ASSUME NEW k \in Int, NEW b \in Nat
  PROVE  (k + 1) * b = k * b + b /\ k * b \in Int
  OBVIOUS

(* The smaller of two numbers. *)
LEMMA MinOfTwo ==
  ASSUME NEW a \in Int, NEW b \in Int
  PROVE  Min({a, b}) \in {a, b} /\ Min({a, b}) <= a /\ Min({a, b}) <= b
  BY DEF Min

(* There is work for as many threads as max_threads says: at least one,    *)
(* and no more than there are elements.                                    *)
LEMMA MaxThreadsInRange ==
  ASSUME NEW in, in.length \in Nat \ {0}
  PROVE  max_threads(in) \in 1 .. in.length
<1> DEFINE m == max_threads(in)  l == in.length  b == MinPerThread
<1>1. b \in Nat /\ b > 0 /\ l \in Nat /\ l > 0
  BY ThreadProgramsAssumption
<1>2. /\ m \in Nat
      /\ m * b <= l + b - 1
      /\ l + b - 1 < m * b + b
  <2>1. l + b - 1 \in Nat
    BY <1>1
  <2> HIDE DEF l, b
  <2>2. m = (l + b - 1) \div b
    BY DEF max_threads, l, b
  <2> QED
    BY <1>1, <2>1, <2>2, Division
<1> HIDE DEF m, l, b
<1>3. m # 0
  <2> SUFFICES ASSUME m = 0 PROVE FALSE
    OBVIOUS
  <2>1. m * b = 0
    BY <1>1
  <2> QED
    BY <1>1, <1>2, <2>1
<1>4. m <= l
  <2> SUFFICES ASSUME l + 1 <= m PROVE FALSE
    BY <1>1, <1>2
  <2>1. (l + 1) * b <= m * b
    BY <1>1, <1>2, TimesMonotone
  <2>2. (l + 1) * b = l * b + b
    BY <1>1, NextMultiple
  <2>3. l * 1 <= l * b
    BY <1>1
  <2> QED
    BY <1>1, <1>2, <2>1, <2>2, <2>3
<1> QED
  BY <1>1, <1>2, <1>3, <1>4 DEF m, l

(* The same of the threads that are started, also when                     *)
(* hardware_concurrency() returns 0.                                       *)
LEMMA NumThreadsInRange ==
  ASSUME NEW in, in.length \in Nat \ {0}, in.cores \in Nat
  PROVE  num_threads(in) \in 1 .. in.length
<1> DEFINE c == IF in.cores # 0 THEN in.cores ELSE 2
<1>1. c \in Nat /\ c >= 1
  OBVIOUS
<1>2. max_threads(in) \in 1 .. in.length
  BY MaxThreadsInRange
<1>3. num_threads(in) = Min({c, max_threads(in)})
  BY DEF num_threads
<1> HIDE DEF c
<1>4. max_threads(in) \in Int
  BY <1>2
<1>5. num_threads(in) \in {c, max_threads(in)} /\ num_threads(in) <= max_threads(in)
  BY <1>1, <1>3, <1>4, MinOfTwo
<1> QED
  BY <1>1, <1>2, <1>5

(* No block is empty, and all of them together fit into the range.         *)
LEMMA BlockSizeFits ==
  ASSUME NEW in, in.length \in Nat \ {0}, in.cores \in Nat
  PROVE  /\ block_size(in) \in Nat \ {0}
         /\ num_threads(in) * block_size(in) <= in.length
<1> DEFINE n == num_threads(in)  l == in.length  s == block_size(in)
<1>1. n \in Nat /\ n > 0 /\ n <= l /\ l \in Nat
  BY NumThreadsInRange
<1>2. s = l \div n
  BY DEF block_size
<1> HIDE DEF n, l, s
<1>3. s \in Nat /\ s * n <= l /\ l < s * n + n
  BY <1>1, <1>2, Division
<1>4. s # 0
  <2> SUFFICES ASSUME s = 0 PROVE FALSE
    OBVIOUS
  <2>1. s * n = 0
    BY <1>1
  <2> QED
    BY <1>1, <1>3, <2>1
<1>5. n * s = s * n
  BY <1>1, <1>3
<1> QED
  BY <1>3, <1>4, <1>5 DEF n, l, s

(* The blocks of lines 39 to 49 of parallel_accumulate partition the       *)
(* range: each element is in the block of exactly one thread, and nothing  *)
(* else is in any block.                                                   *)
THEOREM BlocksPartition ==
  ASSUME NEW in, in.length \in Nat \ {0}, in.cores \in Nat
  PROVE  /\ \A k \in 0 .. num_threads(in) - 1 : block(in, k) \subseteq 0 .. in.length - 1
         /\ \A e \in 0 .. in.length - 1 :
              \E k \in 0 .. num_threads(in) - 1 :
                /\ e \in block(in, k)
                /\ \A j \in 0 .. num_threads(in) - 1 : e \in block(in, j) => j = k
<1> DEFINE n == num_threads(in)  l == in.length  s == block_size(in)
<1>1. n \in Nat /\ n > 0 /\ l \in Nat /\ l > 0
  BY NumThreadsInRange
<1>2. s \in Nat /\ s > 0 /\ n * s <= l
  BY BlockSizeFits
<1>3. \A k \in Int : block(in, k) = k * s .. (IF k = n - 1 THEN l ELSE (k + 1) * s) - 1
  BY DEF block
<1> HIDE DEF n, l, s
<1>4. ASSUME NEW k \in 0 .. n - 1
      PROVE  block(in, k) \subseteq 0 .. l - 1
  <2>1. k \in Nat /\ k + 1 \in Nat /\ k + 1 <= n
    BY <1>1
  <2>2. k * s \in Nat /\ (k + 1) * s \in Nat /\ (k + 1) * s <= n * s /\ n * s \in Nat
    BY <1>1, <1>2, <2>1, TimesMonotone
  <2>3. block(in, k) = k * s .. (IF k = n - 1 THEN l ELSE (k + 1) * s) - 1
    BY <1>3, <2>1
  <2> QED
    BY <1>1, <1>2, <2>2, <2>3
(* A later block begins where this one has ended. *)
<1>5. ASSUME NEW j \in 0 .. n - 1, NEW k \in 0 .. n - 1, j < k,
             NEW e \in block(in, j), e \in block(in, k)
      PROVE  FALSE
  <2>1. j \in Nat /\ k \in Nat /\ j + 1 \in Nat /\ j + 1 <= k /\ j # n - 1
    BY <1>1, <1>5
  <2>2. (j + 1) * s \in Nat /\ k * s \in Nat /\ (j + 1) * s <= k * s
    BY <1>2, <2>1, TimesMonotone
  <2>3. e < (j + 1) * s
    <3>0. block(in, j) = j * s .. (j + 1) * s - 1
      BY <1>3, <2>1
    <3>1. e \in j * s .. (j + 1) * s - 1
      BY <1>5, <3>0, Zenon
    <3>2. j * s \in Int
      BY <1>2, <2>1, NextMultiple
    <3> QED
      BY <2>2, <3>1, <3>2
  <2>4. e >= k * s
    <3> DEFINE u == IF k = n - 1 THEN l ELSE (k + 1) * s
    <3>0. block(in, k) = k * s .. u - 1
      BY <1>3, <2>1
    <3>1. e \in k * s .. u - 1
      BY <1>5, <3>0, Zenon
    <3>2. (k + 1) * s \in Int
      BY <1>2, <2>1, NextMultiple
    <3>3. u \in Int
      BY <1>1, <3>2
    <3> HIDE DEF u
    <3> QED
      BY <2>2, <3>1, <3>3
  <2>5. e \in Int
    <3>1. e \in 0 .. l - 1
      BY <1>4, <1>5
    <3> QED
      BY <1>1, <3>1
  <2> QED
    BY <2>2, <2>3, <2>4, <2>5
<1>6. ASSUME NEW e \in 0 .. l - 1
      PROVE  \E k \in 0 .. n - 1 : e \in block(in, k)
  <2> DEFINE q == e \div s
  <2>1. e \in Nat /\ e < l
    BY <1>1
  <2>2. q \in Nat /\ q * s <= e /\ e < q * s + s
    BY <1>2, <2>1, Division
  <2> HIDE DEF q
  <2>3. (q + 1) * s = q * s + s /\ q * s \in Int
    BY <1>2, <2>2, NextMultiple
  <2>4. CASE q < n - 1
    <3>1. q \in 0 .. n - 1 /\ q # n - 1
      BY <1>1, <2>2, <2>4
    <3>2. block(in, q) = q * s .. (q + 1) * s - 1
      BY <1>3, <2>2, <3>1
    <3>3. e \in block(in, q)
      BY <1>2, <2>1, <2>2, <2>3, <3>2
    <3> QED
      BY <3>1, <3>3
  (* What is left over goes to the last thread. *)
  <2>5. CASE n - 1 <= q
    <3>1. n - 1 \in Nat /\ n - 1 \in 0 .. n - 1
      BY <1>1
    <3>2. (n - 1) * s <= q * s /\ (n - 1) * s \in Nat
      BY <1>2, <2>2, <2>5, <3>1, TimesMonotone
    <3>3. block(in, n - 1) = (n - 1) * s .. l - 1
      BY <1>3, <3>1
    <3>4. e \in block(in, n - 1)
      BY <1>1, <2>1, <2>2, <2>3, <3>2, <3>3
    <3> QED
      BY <3>1, <3>4
  <2> QED
    BY <1>1, <2>2, <2>4, <2>5
<1>7. ASSUME NEW e \in 0 .. l - 1
      PROVE  \E k \in 0 .. n - 1 :
               e \in block(in, k) /\ \A j \in 0 .. n - 1 : e \in block(in, j) => j = k
  <2>1. PICK k \in 0 .. n - 1 : e \in block(in, k)
    BY <1>6
  <2>2. ASSUME NEW j \in 0 .. n - 1, e \in block(in, j)
        PROVE  j = k
    <3>1. j \in Int /\ k \in Int
      BY <1>1
    <3>2. ~ (j < k)
      BY <1>5, <2>1, <2>2
    <3>3. ~ (k < j)
      BY <1>5, <2>1, <2>2
    <3> QED
      BY <3>1, <3>2, <3>3
  <2> QED
    BY <2>1, <2>2
<1> QED
  BY <1>4, <1>7 DEF n, l

-----------------------------------------------------------------------------
(* The programs that collect threads *)

(* The inputs of the programs that have any. *)
LEMMA InputTypes ==
  /\ \A in \in Inputs("parallel_accumulate") :
       in.length \in 0 .. MaxLength /\ in.cores \in 0 .. MaxThreads /\ in.initial \in Int
  /\ \A in \in Inputs("spinlock_mutex") : in.cores \in 2 .. MaxThreads /\ in.initial = 0
  /\ \A in \in Inputs("multithread_compare_exchange_weak") :
       in.cores \in 0 .. MaxThreads /\ in.initial \in Int
<1> DEFINE P(n, c) == [NoInput EXCEPT !.length = n, !.cores = c, !.initial = 2 ^ n]
           M(c, g) == [NoInput EXCEPT !.cores = c, !.initial = g]
<1>1. /\ Inputs("parallel_accumulate") = {P(n, c) : n \in 0 .. MaxLength, c \in 0 .. MaxThreads}
      /\ Inputs("spinlock_mutex") = {[NoInput EXCEPT !.cores = c] : c \in 2 .. MaxThreads}
      /\ Inputs("multithread_compare_exchange_weak") =
            {M(c, g) : c \in 0 .. MaxThreads, g \in Garbage}
  BY DEF Inputs
<1>2. ASSUME NEW n \in 0 .. MaxLength, NEW c \in 0 .. MaxThreads
      PROVE  P(n, c).length = n /\ P(n, c).cores = c /\ P(n, c).initial \in Int
  <2>1. n \in Nat
    BY ThreadProgramsAssumption
  <2>2. 2 ^ n \in Int
    BY <2>1
  <2> QED BY <2>2 DEF NoInput
<1>3. ASSUME NEW c \in 0 .. MaxThreads, NEW g \in Garbage
      PROVE  M(c, g).cores = c /\ M(c, g).initial \in Int
  BY ThreadProgramsAssumption DEF NoInput
<1> HIDE DEF P, M
<1>4. ASSUME NEW in \in Inputs("parallel_accumulate")
      PROVE  in.length \in 0 .. MaxLength /\ in.cores \in 0 .. MaxThreads /\ in.initial \in Int
  BY <1>1, <1>2
<1>5. ASSUME NEW in \in Inputs("multithread_compare_exchange_weak")
      PROVE  in.cores \in 0 .. MaxThreads /\ in.initial \in Int
  BY <1>1, <1>3
<1> QED BY <1>1, <1>4, <1>5 DEF NoInput

(* A program that starts its threads in a loop and joins them. *)
LEMMA VectorSafe ==
  ASSUME NEW p, p \notin Guarded \cup {"auto_joining", "edit_document"},
         NEW n \in 0 .. MaxThreads, NEW f, Plain(p, f)
  PROVE  Safe(p, main,
              Within([i \in 1 .. n |-> Start(i, f)] \o <<>> \o [i \in 1 .. n |-> Join(i)] \o <<>>,
                     [i \in 1 .. n |-> Destroy(i)]), Fresh, TRUE)
<1> DEFINE g == [i \in 1 .. n |-> f]
<1>1. [i \in 1 .. n |-> Start(i, f)] = [i \in 1 .. n |-> Start(i, g[i])]
  OBVIOUS
<1>2. \A i \in 1 .. n : Plain(p, g[i])
  OBVIOUS
<1> HIDE DEF g
<1> DEFINE s == Within([i \in 1 .. n |-> Start(i, g[i])] \o <<>>
                         \o [i \in 1 .. n |-> Join(i)] \o <<>>,
                       [i \in 1 .. n |-> Destroy(i)])
<1>3. Runs(p, main, s, With({}), With({}), WithSome({}), TRUE)
  BY <1>2, NothingIsPlain, VectorRuns
<1> HIDE DEF s
<1>4. Safe(p, main, s, Fresh, TRUE)
  BY <1>3, SettlesPlain
<1> QED BY <1>1, <1>4 DEF s

(* 2.1.6_ContainarisedThreads: a vector that may fail to grow, or to start *)
(* a thread, when others have started.                                     *)
LEMMA ContainersSafe == Safe("containers", main, containers, Fresh, TRUE)
<1> DEFINE p == "containers"
           exc == WithSome({1, 2, 3})
           j == <<Join(1)>> \o <<Join(2)>> \o <<Join(3)>>
           u == <<Destroy(1), Destroy(2), Destroy(3)>>
           e == emplace_back(1) \o emplace_back(2) \o emplace_back(3)
<1>1. /\ p \notin Guarded \cup {"auto_joining", "edit_document"} /\ p = "containers"
      /\ Plain(p, function) /\ HandlesOf(p, main) = Handles
  BY PlainBodies, HandlesOfMain DEF Guarded
<1>2. /\ {1, 2, 3} \subseteq Handles /\ main \in Threads /\ 3 \in 0 .. MaxThreads
      /\ {2, 3} = {1, 2, 3} \ {1} /\ {3} = {2, 3} \ {2} /\ {} = {3} \ {3}
      /\ {1, 2, 3} = {1, 2} \cup {3} /\ {1, 2} = {1} \cup {2} /\ {1} = {} \cup {1}
      /\ 1 .. 3 = {1, 2, 3}
  BY ThreeHandles, ThreadProgramsAssumption
<1> HIDE DEF p
<1>3. ASSUME NEW A \in SUBSET {1, 2, 3}, NEW i \in {1, 2, 3} \ A
      PROVE  Runs(p, main, emplace_back(i), With(A), With(A \cup {i}), exc, TRUE)
  <2>1. /\ With(A) \in Statuses /\ With(A)[Locals] = "held" /\ With(A)[i] = "empty"
        /\ [With(A) EXCEPT ![i] = "held"] = With(A \cup {i})
    BY <1>2, WithStatuses
  <2>2. Covers(exc, With(A))
    BY WithCovers
  <2> HIDE DEF exc
  <2>3. Runs(p, main, <<Risk>>, With(A), With(A), exc, TRUE)
    BY <1>1, <1>2, <2>1, <2>2, RiskRuns
  <2>4. Runs(p, main, <<Start(i, function)>>, With(A), [With(A) EXCEPT ![i] = "held"], exc, TRUE)
    BY <1>1, <1>2, <2>1, <2>2, StartRuns
  <2>5. Runs(p, main, <<Risk>> \o <<Start(i, function)>>, With(A), With(A \cup {i}), exc, TRUE)
    BY <2>1, <2>3, <2>4, RunsConcat
  <2>6. <<Risk>> \o <<Start(i, function)>> = <<Risk, Start(i, function)>>
    BY ShortSequences
  <2> QED BY <2>5, <2>6 DEF emplace_back
<1> HIDE DEF exc
<1>4. Runs(p, main, e, With({}), With({1, 2, 3}), exc, TRUE)
  <2>1. /\ Runs(p, main, emplace_back(1), With({}), With({1}), exc, TRUE)
        /\ Runs(p, main, emplace_back(2), With({1}), With({1, 2}), exc, TRUE)
        /\ Runs(p, main, emplace_back(3), With({1, 2}), With({1, 2, 3}), exc, TRUE)
    <3>1. {} \in SUBSET {1, 2, 3} /\ 1 \in {1, 2, 3} \ {}
      OBVIOUS
    <3>2. {1} \in SUBSET {1, 2, 3} /\ 2 \in {1, 2, 3} \ {1}
      OBVIOUS
    <3>3. {1, 2} \in SUBSET {1, 2, 3} /\ 3 \in {1, 2, 3} \ {1, 2}
      OBVIOUS
    <3> QED BY <1>2, <1>3, <3>1, <3>2, <3>3
  <2> QED BY <2>1, RunsConcat
<1>5. Runs(p, main, j, With({1, 2, 3}), With({}), exc, TRUE)
  <2>1. /\ Quiet(p, main, <<Join(1)>>, With({1, 2, 3}), With({2, 3}), TRUE)
        /\ Quiet(p, main, <<Join(2)>>, With({2, 3}), With({3}), TRUE)
        /\ Quiet(p, main, <<Join(3)>>, With({3}), With({}), TRUE)
    BY <1>1, <1>2, JoinOfMain
  <2> QED BY <2>1, QuietConcat, QuietRuns
<1>6. /\ Quiet(p, main, u, With({}), With({}), TRUE)
      /\ Quiet(p, main, u, exc, WithSome({}), p \in Guarded)
  <2> DEFINE s == [i \in 1 .. 3 |-> Destroy(i)]
  <2>1. u = s
    <3>1. IsSequence(s) /\ Len(s) = 3 /\ IsSequence(u) /\ Len(u) = 3
      <4>1. s = [i \in 1 .. 3 |-> s[i]] /\ u = [i \in 1 .. 3 |-> u[i]]
        OBVIOUS
      <4> HIDE DEF s, u
      <4> QED BY <4>1, FunctionSequence
    <3>2. \A i \in 1 .. 3 : s[i] = u[i]
      BY <1>2
    <3> HIDE DEF s, u
    <3> QED BY <3>1, <3>2, SameSequence
  <2>2. Quiet(p, main, s, With({}), With({}), TRUE) /\ Quiet(p, main, s, exc, WithSome({}), FALSE)
    BY <1>1, <1>2, DestroysQuiet DEF exc
  <2>3. (p \in Guarded) = FALSE
    BY <1>1
  <2> HIDE DEF s, u
  <2> QED BY <2>1, <2>2, <2>3
<1>7. j = <<Join(1), Join(2), Join(3)>>
  BY ShortSequences
<1> HIDE DEF e, j, u
<1>8. Runs(p, main, Within(e \o j, u), With({}), With({}), WithSome({}), TRUE)
  BY <1>4, <1>5, <1>6, RunsConcat, WithinRuns
<1>9. Safe(p, main, Within(e \o j, u), Fresh, TRUE)
  BY <1>1, <1>8, SettlesPlain
<1> QED BY <1>7, <1>9 DEF containers, e, u, p

(* The programs whose threads count or exchange. *)
LEMMA CollectedThreadsSafe ==
  /\ \A in \in Inputs("spinlock_mutex") :
       Safe("spinlock_mutex", main, spinlock_mutex(in), Fresh, TRUE)
  /\ \A in \in Inputs("multithread_compare_exchange_weak") :
       Safe("multithread_compare_exchange_weak", main,
            multithread_compare_exchange_weak(in), Fresh, TRUE)
<1>1. {"spinlock_mutex", "multithread_compare_exchange_weak"}
        \cap (Guarded \cup {"auto_joining", "edit_document"}) = {}
  BY DEF Guarded
<1>4. ASSUME NEW in \in Inputs("spinlock_mutex")
      PROVE  Safe("spinlock_mutex", main, spinlock_mutex(in), Fresh, TRUE)
  <2> DEFINE p == "spinlock_mutex"
  <2>1. in.cores \in 0 .. MaxThreads
    BY ThreadProgramsAssumption, InputTypes
  <2>2. p \notin Guarded \cup {"auto_joining", "edit_document"} /\ in.cores \in 0 .. MaxThreads
        /\ Plain(p, Counting \o Counting)
    BY <1>1, <2>1, PlainBodies, PlainConcat
  <2> HIDE DEF p
  <2> QED BY <2>2, VectorSafe DEF spinlock_mutex, ThreadVector, p
<1>5. ASSUME NEW in \in Inputs("multithread_compare_exchange_weak")
      PROVE  Safe("multithread_compare_exchange_weak", main,
                  multithread_compare_exchange_weak(in), Fresh, TRUE)
  <2> DEFINE p == "multithread_compare_exchange_weak"
  <2>1. in.cores \in 0 .. MaxThreads
    BY ThreadProgramsAssumption, InputTypes
  <2>2. p \notin Guarded \cup {"auto_joining", "edit_document"} /\ in.cores \in 0 .. MaxThreads
        /\ Plain(p, increment_with_loop)
    BY <1>1, <2>1, PlainBodies
  <2> HIDE DEF p
  <2> QED BY <2>2, VectorSafe DEF multithread_compare_exchange_weak, ThreadVector, p
<1> QED BY <1>4, <1>5

(* Each thread has a place for its result. *)
LEMMA ResultLocations == \A i \in 1 .. MaxThreads : results[i] \in Locations
<1>1. \A i \in 1 .. MaxThreads : results[i] \in Range(results)
  BY ThreadProgramsAssumption DEF Range
<1> QED BY <1>1 DEF Locations

(* A sum of powers of two is an integer. *)
LEMMA SumOfType ==
  ASSUME NEW n \in Nat, NEW S \in SUBSET (0 .. n)
  PROVE  SumOf(S) \in Int
<1>1. IsFiniteSet(S)
  <2>1. IsFiniteSet(0 .. n)
    BY FS_Interval
  <2> QED BY <2>1, FS_Subset
<1>2. \A i \in S : [j \in S |-> 2 ^ j][i] \in Int
  OBVIOUS
<1> QED BY <1>1, <1>2, SumType DEF SumOf

(* As many threads as hardware_concurrency() says, of which one is main. *)
LEMMA ThreadsOfAccumulate ==
  ASSUME NEW in \in Inputs("parallel_accumulate"), in.length # 0
  PROVE  /\ in.length \in Nat \ {0} /\ in.cores \in Nat
         /\ num_threads(in) \in 1 .. MaxThreads
         /\ \A k \in 0 .. num_threads(in) - 1 : SumOf(block(in, k)) \in Int
<1>1. in.length \in Nat \ {0} /\ in.cores \in 0 .. MaxThreads
  BY ThreadProgramsAssumption, InputTypes
<1> DEFINE c == IF in.cores # 0 THEN in.cores ELSE 2
<1>2. c \in 1 .. MaxThreads /\ max_threads(in) \in Int /\ MaxThreads \in Nat
  BY <1>1, MaxThreadsInRange, ThreadProgramsAssumption
<1>3. num_threads(in) <= c
  <2>1. num_threads(in) = Min({c, max_threads(in)})
    BY DEF num_threads
  <2> HIDE DEF c
  <2>2. c \in Int /\ max_threads(in) \in Int
    BY <1>2
  <2>3. Min({c, max_threads(in)}) <= c
    BY <2>2, MinOfTwo
  <2> QED BY <2>1, <2>3
<1>6. c \in Int
  BY <1>2
<1> HIDE DEF c
<1>4. num_threads(in) \in 1 .. MaxThreads
  BY <1>1, <1>2, <1>3, <1>6, NumThreadsInRange
<1>5. ASSUME NEW k \in 0 .. num_threads(in) - 1 PROVE SumOf(block(in, k)) \in Int
  <2>1. block(in, k) \subseteq 0 .. in.length - 1 /\ in.length - 1 \in Nat
    BY <1>1, BlocksPartition
  <2> QED BY <2>1, SumOfType
<1> QED BY <1>1, <1>2, <1>4, <1>5

(* accumulate_block uses no std::thread object. *)
LEMMA BlockBodies ==
  ASSUME NEW p, NEW in \in Inputs("parallel_accumulate"), in.length # 0,
         NEW k \in 0 .. num_threads(in) - 1
  PROVE  Plain(p, accumulate_block(in, k))
<1>1. k + 1 \in 1 .. MaxThreads /\ SumOf(block(in, k)) \in Int
  BY ThreadsOfAccumulate, ThreadProgramsAssumption
<1>2. results[k + 1] \in Locations
  BY <1>1, ResultLocations
<1> QED BY <1>1, <1>2, PlainInstructions, PlainOne DEF accumulate_block, PlainOps

(* Nor does the loop over the results. *)
LEMMA CollectBody ==
  ASSUME NEW p, NEW n \in 1 .. MaxThreads
  PROVE  Plain(p, [i \in 1 .. n |-> Access(results[i], "collect", 0)])
<1> DEFINE s == [i \in 1 .. n |-> Access(results[i], "collect", 0)]
<1>1. s = [i \in 1 .. n |-> s[i]]
  OBVIOUS
<1>2. \A i \in 1 .. n : Formed(s[i]) /\ Typed(s[i]) /\ s[i].op \in PlainOps
  BY ResultLocations, PlainInstructions, ThreadProgramsAssumption DEF PlainOps
<1> HIDE DEF s
<1>3. IsSequence(s) /\ Len(s) = n
  BY <1>1, FunctionSequence, ThreadProgramsAssumption
<1>4. Plain(p, s)
  BY <1>2, <1>3 DEF Plain
<1> QED BY <1>4 DEF s

(* The results die after all threads are joined. *)
LEMMA ResultsEnd ==
  ASSUME NEW p, p \notin Detaching, NEW n \in 1 .. MaxThreads, NEW st \in {With({}), WithSome({})},
         NEW strict
  PROVE  Quiet(p, main, [i \in 1 .. n |-> EndLifetime(results[i])], st, WithSome({}), strict)
<1> DEFINE s == [i \in 1 .. n |-> EndLifetime(results[i])]
           w == WithSome({})
           a == [i \in 1 .. n + 1 |-> w]
<1>1. IsSequence(s) /\ Len(s) = n
  <2>1. s = [i \in 1 .. n |-> s[i]]
    OBVIOUS
  <2> HIDE DEF s
  <2> QED BY <2>1, FunctionSequence, ThreadProgramsAssumption
<1>2. w \in Statuses /\ (\A h \in Handles : w[h] = "empty")
  <2>1. ASSUME NEW h \in Handles PROVE w[h] = "empty"
    BY WithAt
  <2> QED BY <2>1, WithStatuses
<1>3. Covers(w, st) /\ Covers(w, w)
  BY WithCovers
<1>5. w \in [Objects -> {"empty", "held", "any"}] /\ w[Locals] = "any"
  BY <1>2 DEF Statuses, WithSome, Perhaps, Objects
<1>4. ASSUME NEW i \in 1 .. n
      PROVE  /\ Fine(p, main, s[i], w, strict) /\ Covers(w, After(s[i], w))
             /\ Steady(s[i], w)
  <2>1. Formed(s[i]) /\ Typed(s[i]) /\ s[i].op = "end_lifetime"
    BY ResultLocations, GuardInstructions, ThreadProgramsAssumption
  <2> HIDE DEF s, w
  <2>2. Fine(p, main, s[i], w, strict) /\ Steady(s[i], w)
    BY <1>2, <2>1 DEF Fine, Steady, HandleOps
  <2>3. After(s[i], w) = [w EXCEPT ![Locals] = "empty"]
    BY <2>1 DEF After
  <2>4. Covers(w, [w EXCEPT ![Locals] = "empty"])
    BY <1>5 DEF Covers
  <2> QED BY <2>2, <2>3, <2>4
<1> HIDE DEF s, w
<1>6. Annotates(p, main, a, s, st, w, strict) /\ \A i \in 1 .. Len(s) : Steady(s[i], a[i])
  <2>1. \A i \in 1 .. n : i \in 1 .. n + 1 /\ i + 1 \in 1 .. n + 1
    BY ThreadProgramsAssumption
  <2>2. a \in [1 .. n + 1 -> Statuses] /\ \A i \in 1 .. n + 1 : a[i] = w
    BY <1>2
  <2>3. 1 \in 1 .. n + 1 /\ n + 1 \in 1 .. n + 1
    BY ThreadProgramsAssumption
  <2> HIDE DEF a
  <2> QED BY <1>1, <1>3, <1>4, <2>1, <2>2, <2>3 DEF Annotates
<1> HIDE DEF a
<1>7. Quiet(p, main, s, st, w, strict)
  BY <1>1, <1>6 DEF Quiet
<1> QED BY <1>7 DEF s, w

(* parallel_accumulate joins its threads before it reads and destroys      *)
(* their results.                                                          *)
LEMMA ParallelAccumulateSafe ==
  ASSUME NEW in \in Inputs("parallel_accumulate")
  PROVE  Safe("parallel_accumulate", main, parallel_accumulate(in), Fresh, TRUE)
<1> DEFINE p == "parallel_accumulate"
           n == num_threads(in)
           m == n - 1
<1>1. p \notin Guarded \cup {"auto_joining", "edit_document"} /\ p \notin Detaching
  BY DEF Guarded, Detaching
<1>2. CASE in.length = 0
  <2> HIDE DEF p
  <2>1. Safe(p, main, <<>>, Fresh, TRUE)
    BY <1>1, NothingIsPlain, SingleThreadedSafe
  <2> QED BY <1>2, <2>1 DEF parallel_accumulate, p
<1>3. CASE in.length # 0
  <2>1. n \in 1 .. MaxThreads /\ m \in 0 .. MaxThreads
    BY <1>3, ThreadsOfAccumulate, ThreadProgramsAssumption
  <2> DEFINE g == [i \in 1 .. m |-> accumulate_block(in, i - 1)]
             before == accumulate_block(in, n - 1)
             after == [i \in 1 .. n |-> Access(results[i], "collect", 0)]
             u == [i \in 1 .. n |-> EndLifetime(results[i])]
             starts == [i \in 1 .. m |-> Start(i, g[i])]
             joins == [i \in 1 .. m |-> Join(i)]
             destroys == [i \in 1 .. m |-> Destroy(i)]
             v == Within(starts \o before \o joins \o after, destroys)
  <2>2. parallel_accumulate(in) = Within(v, u)
    <3>1. starts = [i \in 1 .. n - 1 |-> Start(i, accumulate_block(in, i - 1))]
      OBVIOUS
    <3> HIDE DEF starts
    <3>2. v = Within([i \in 1 .. n - 1 |-> Start(i, accumulate_block(in, i - 1))]
                       \o before \o [i \in 1 .. n - 1 |-> Join(i)] \o after,
                     [i \in 1 .. n - 1 |-> Destroy(i)])
      BY <3>1
    <3> HIDE DEF v
    <3> QED BY <1>3, <3>2 DEF parallel_accumulate, ThreadVector
  <2> HIDE DEF p, n
  <2>3. /\ \A i \in 1 .. m : Plain(p, g[i])
        /\ Plain(p, before)
    <3>1. \A i \in 1 .. m : i - 1 \in 0 .. n - 1
      BY <2>1, ThreadProgramsAssumption
    <3>2. n - 1 \in 0 .. n - 1
      BY <2>1, ThreadProgramsAssumption
    <3>3. \A k \in 0 .. n - 1 : Plain(p, accumulate_block(in, k))
      BY <1>3, BlockBodies DEF n
    <3> QED BY <3>1, <3>2, <3>3
  <2>4. Plain(p, after)
    BY <2>1, CollectBody
  <2>5. /\ Quiet(p, main, u, With({}), WithSome({}), TRUE)
        /\ Quiet(p, main, u, WithSome({}), WithSome({}), p \in Guarded)
    BY <1>1, <2>1, ResultsEnd
  <2> HIDE DEF m, g, before, after, u
  <2>6. Runs(p, main, v, With({}), With({}), WithSome({}), TRUE)
    BY <1>1, <2>1, <2>3, <2>4, VectorRuns
  <2> HIDE DEF v
  <2>7. Runs(p, main, Within(v, u), With({}), WithSome({}), WithSome({}), TRUE)
    BY <2>5, <2>6, WithinRuns
  <2>8. WithSome({}) \in Statuses /\ Settled(p, main, WithSome({})) /\ Fresh = With({})
    BY <1>1, WithStatuses, SettledStatuses, AllEmptyIsHolds
  <2> QED BY <2>2, <2>7, <2>8 DEF Safe, p
<1> QED BY <1>2, <1>3

-----------------------------------------------------------------------------
(* Editors and AutoJoiningThread *)

(* What may be while nothing failed, may also be when something did. *)
LEMMA RunsLoose ==
  ASSUME NEW p, NEW t, NEW s, NEW st, NEW st2, NEW exc, NEW strict,
         Runs(p, t, s, st, st2, exc, TRUE)
  PROVE  Runs(p, t, s, st, st2, exc, strict)
<1>1. \A c, x : Fine(p, t, c, x, TRUE) => Fine(p, t, c, x, strict)
  BY DEF Fine
<1>2. \A a : Annotates(p, t, a, s, st, st2, TRUE) => Annotates(p, t, a, s, st, st2, strict)
  BY <1>1 DEF Annotates
<1> QED BY <1>2 DEF Runs

(* Unwinding that ends the program. *)
LEMMA TerminateQuiet ==
  ASSUME NEW p, NEW t \in Threads, NEW st \in Statuses, NEW st2, Covers(st2, AllEmpty)
  PROVE  Quiet(p, t, <<Terminate>>, st, st2, FALSE)
<1> DEFINE c == Terminate
<1>1. Formed(c) /\ Typed(c) /\ c.op = "terminate"
  BY GuardInstructions
<1> HIDE DEF c
<1>2. Fine(p, t, c, st, FALSE) /\ Steady(c, st) /\ After(c, st) = AllEmpty
  BY <1>1 DEF Fine, Steady, After, HandleOps
<1>3. Quiet(p, t, <<c>>, st, st2, FALSE)
  BY <1>2, QuietOne
<1> QED BY <1>3 DEF c

(* Of the objects, only that of the editor is known, to be empty. *)
Unknown(t) == [o \in Objects |-> IF o = t THEN "empty" ELSE "any"]

(* That much is known whenever the object of the editor is empty. *)
LEMMA UnknownCovers ==
  ASSUME NEW t \in Threads
  PROVE  /\ Unknown(t) \in Statuses /\ Unknown(t)[t] = "empty"
         /\ [Unknown(t) EXCEPT ![t] = "empty"] = Unknown(t)
         /\ \A st \in Statuses : st[t] = "empty" => Covers(Unknown(t), st)
         /\ Covers(Unknown(t), AllEmpty)
<1>1. t \in Objects
  BY ThreadProgramsAssumption DEF Objects, Handles, Threads, Workers, main
<1> QED BY <1>1 DEF Unknown, Statuses, Covers, AllEmpty

(* An editor is started without objects. *)
LEMMA EditIsPlain == Plain("edit_document", <<Edit>>)
BY PlainInstructions, PlainOne

(* What an editor does: open_new_document detaches the thread that it      *)
(* starts; when that fails, or a stub throws, the program is terminated.   *)
LEMMA EditorRuns ==
  ASSUME NEW t \in Threads, NEW st \in Statuses, st[t] = "empty",
         t = main => st[Locals] = "held",
         NEW body \in {open_new_document(t), process_other_command}
  PROVE  Runs("edit_document", t, body, st, st, Unknown(t), TRUE)
<1> DEFINE p == "edit_document"
           exc == Unknown(t)
           r == <<Risk, Risk>>
           s == Thread(t, <<Edit>>, <<Detach(t)>>)
           x == [st EXCEPT ![t] = "held"]
<1>1. t \in HandlesOf(p, t) /\ t \in Objects /\ (p \in Guarded) = FALSE
      /\ p \in Detaching \cup {"oops"} /\ p = "edit_document"
  BY ThreadProgramsAssumption
     DEF HandlesOf, Objects, Handles, Threads, Workers, main, Guarded, Detaching
<1>2. /\ exc \in Statuses /\ exc[t] = "empty" /\ [exc EXCEPT ![t] = "empty"] = exc
      /\ Covers(exc, st) /\ Covers(exc, exc) /\ Covers(exc, AllEmpty)
  BY UnknownCovers, CoversSelf
<1>3. /\ x \in Statuses /\ x[t] = "held" /\ [x EXCEPT ![t] = "empty"] = st
      /\ [st EXCEPT ![t] = "empty"] = st
  BY <1>1 DEF Statuses
<1> HIDE DEF exc, p
<1>4. Quiet(p, t, <<Detach(t)>>, x, st, TRUE)
  <2> HIDE DEF x
  <2>1. Quiet(p, t, <<Detach(t)>>, x, [x EXCEPT ![t] = "empty"], TRUE)
    BY <1>1, <1>3, DetachQuiet
  <2> QED BY <2>1, <1>3
<1>5. Runs(p, t, <<Detach(t)>>, x, st, exc, TRUE)
  BY <1>4, QuietRuns
<1>6. Runs(p, t, s, st, st, exc, TRUE)
  <2>1. Runs(p, t, s, st, [st EXCEPT ![t] = "empty"], exc, TRUE)
    BY <1>1, <1>2, <1>5, EditIsPlain, ThreadRuns
  <2> QED BY <1>3, <2>1
<1>7. Quiet(p, t, <<Terminate>>, exc, exc, p \in Guarded)
  BY <1>1, <1>2, TerminateQuiet
<1>8. Runs(p, t, r, st, st, exc, TRUE)
  <2>1. Runs(p, t, <<Risk>>, st, st, exc, TRUE)
    BY <1>1, <1>2, RiskRuns
  <2>2. Runs(p, t, <<Risk>> \o <<Risk>>, st, st, exc, TRUE)
    BY <2>1, RunsConcat
  <2>3. <<Risk>> \o <<Risk>> = r
    BY ShortSequences
  <2> QED BY <2>2, <2>3
<1> HIDE DEF s, r
<1>9. Runs(p, t, Catch(r, <<Terminate>>), st, st, exc, TRUE)
  BY <1>7, <1>8, RunsCatch
<1>10. Runs(p, t, Catch(r \o s, <<Terminate>>), st, st, exc, TRUE)
  <2>1. Runs(p, t, r \o s, st, st, exc, TRUE)
    BY <1>6, <1>8, RunsConcat
  <2> QED BY <1>7, <2>1, RunsCatch
<1> QED BY <1>9, <1>10 DEF open_new_document, process_other_command, NoExcept, r, s, p, exc

(* Main is an editor as well. *)
LEMMA EditDocumentSafe == Safe("edit_document", main, <<Edit>>, Fresh, TRUE)
<1>1. Fresh \in Statuses /\ Fresh[Locals] = "held" /\ Fresh[main] = "empty" /\ main \in Threads
  <2>1. Locals \in Objects /\ main \in Objects /\ main # Locals /\ main \in Threads
    BY ThreadProgramsAssumption DEF Objects, Locals, Handles, main, Threads
  <2> QED BY <2>1, HoldsTypes DEF Fresh, Holds
<1>2. Quiet("edit_document", main, <<Edit>>, Fresh, Fresh, TRUE)
  BY <1>1, EditIsPlain, PlainQuiet
<1>3. Settled("edit_document", main, Fresh)
  BY <1>1 DEF Settled, HandlesOf
<1> QED BY <1>1, <1>2, <1>3, QuietRuns DEF Safe

(* Between the calls of the client. *)
Client == [o \in Objects |-> IF o = Locals THEN "held" ELSE IF o = 3 THEN "empty" ELSE "any"]

(* The objects h and g may hold threads, the parameter does not. *)
LEMMA ClientStatuses ==
  /\ Client \in Statuses /\ Client[Locals] = "held" /\ Client[3] = "empty"
  /\ Settled("auto_joining", main, Client)
  /\ main \in Threads /\ "auto_joining" \in Guarded /\ "auto_joining" \in Detaching
  /\ {1, 2, 3} \subseteq HandlesOf("auto_joining", main)
  /\ Locals \in Objects /\ Handles \subseteq Objects
  /\ Locals \notin {1, 2, 3}
<1>1. 3 \in Objects /\ Locals # 3
  BY ThreeHandles DEF Objects
<1> QED BY <1>1, ThreeHandles
        DEF Client, Statuses, Settled, Guarded, Detaching, HandlesOf, Objects, Locals

(* A call that changes h, and an object that it leaves empty or does not   *)
(* know, leaves the client with what it knew.                              *)
LEMMA ClientCovers ==
  ASSUME NEW h \in {1, 2}, NEW k \in {1, 2, 3}, NEW v, NEW st \in Statuses,
         \A o \in Objects \ {h, k} : Client[o] \in {"any", st[o]}
  PROVE  /\ Covers(Client, [st EXCEPT ![h] = v, ![k] = "empty"])
         /\ k = h => Covers(Client, [st EXCEPT ![h] = v])
<1>1. h \in Objects /\ k \in Objects /\ Client[h] = "any" /\ Client[k] \in {"any", "empty"}
  BY ClientStatuses, ThreeHandles DEF Client
<1> QED BY <1>1 DEF Covers, Statuses

(* A constructor of an object that is not there yet. *)
LEMMA AutoJoiningConstructors ==
  ASSUME NEW h \in {1, 2}, NEW g \in {1, 2}, NEW body \in Constructors(h, g)
  PROVE  Runs("auto_joining", main, body, [Client EXCEPT ![h] = "empty"], Client, Client, TRUE)
<1> DEFINE p == "auto_joining"
           st == [Client EXCEPT ![h] = "empty"]
<1>1. /\ h \in HandlesOf(p, main) /\ g \in HandlesOf(p, main) /\ main \in Threads
      /\ h \in Objects /\ h # Locals
  BY ClientStatuses DEF HandlesOf
<1>2. st \in Statuses /\ st[h] = "empty" /\ st[Locals] = "held"
  BY <1>1, ClientStatuses DEF Statuses
<1>3. \A o \in Objects \ {h} : Client[o] = st[o]
  OBVIOUS
<1>4. Covers(Client, st)
  BY <1>1, ClientStatuses, ClientCovers
<1> HIDE DEF p, st
<1>5. CASE body = FromCallable(h)
  <2>1. Runs(p, main, <<Start(h, <<Work>>)>>, st, [st EXCEPT ![h] = "held"], Client, TRUE)
    BY <1>1, <1>2, <1>4, PlainBodies, StartRuns
  <2>2. Covers(Client, [st EXCEPT ![h] = "held"])
    BY <1>2, <1>3, ClientCovers
  <2> QED BY <1>5, <2>1, <2>2, RunsWeaker, CoversSelf, ClientStatuses DEF FromCallable, p, st
<1>6. CASE body = MoveConstruct(h, g)
  <2>1. Quiet(p, main, <<Move(h, g)>>, st, [st EXCEPT ![h] = st[g], ![g] = "empty"], TRUE)
    BY <1>1, <1>2, MoveQuiet
  <2>2. Covers(Client, [st EXCEPT ![h] = st[g], ![g] = "empty"])
    BY <1>2, <1>3, ClientCovers
  <2> QED BY <1>6, <2>1, <2>2, QuietWeaker, QuietRuns DEF MoveConstruct, p, st
<1> QED BY <1>5, <1>6 DEF Constructors

(* The parameter is empty when its lifetime ends. *)
LEMMA ParameterDies ==
  \A strict : Quiet("auto_joining", main, <<Destroy(3)>>, Client, Client, strict)
<1>1. Client \in Statuses /\ Client[3] = "empty"
  BY ClientStatuses
<1>2. [Client EXCEPT ![3] = "empty"] = Client
  BY <1>1 DEF Statuses
<1>3. \A strict : Quiet("auto_joining", main, <<Destroy(3)>>, Client,
                       [Client EXCEPT ![3] = "empty"], strict)
  BY <1>1, ClientStatuses, DestroyQuiet
<1> QED BY <1>2, <1>3

(* operator=(std::thread): whatever h and the parameter hold. *)
LEMMA AssignParameterRuns ==
  ASSUME NEW h \in {1, 2}, NEW st \in Statuses, st[Locals] = "held",
         \A o \in Objects \ {3} : st[o] = Client[o]
  PROVE  Runs("auto_joining", main, AssignParameter(h), st, Client, Client, TRUE)
<1> DEFINE p == "auto_joining"
           x == [st EXCEPT ![h] = "empty"]
           y == [x EXCEPT ![h] = x[3], ![3] = "empty"]
           i == <<JoinIfJoinable(h)>>
           j == <<Move(h, 3)>>
           k == <<Undefined>>
           s == i \o j \o k
<1>1. /\ h \in HandlesOf(p, main) /\ 3 \in HandlesOf(p, main) /\ main \in Threads
      /\ h \in Objects /\ h # 3 /\ h # Locals
  BY ClientStatuses, ThreeHandles DEF HandlesOf
<1>2. x \in Statuses /\ x[h] = "empty"
  BY <1>1 DEF Statuses
<1>3. Quiet(p, main, i, st, x, TRUE)
  BY <1>1, JoinIfJoinableQuiet
<1>4. Quiet(p, main, j, x, y, TRUE)
  <2> HIDE DEF x
  <2> QED BY <1>1, <1>2, MoveQuiet
<1>5. Covers(Client, y)
  <2>1. \A o \in Objects \ {h, 3} : Client[o] \in {"any", x[o]}
    BY <1>1
  <2> HIDE DEF x
  <2> QED BY <1>2, <2>1, ClientCovers
<1>6. Quiet(p, main, j, x, Client, TRUE)
  BY <1>4, <1>5, QuietWeaker
<1>7. Quiet(p, main, k, Client, Client, TRUE)
  BY <1>1, ClientStatuses, UndefinedQuiet
<1>8. Runs(p, main, s, st, Client, Client, TRUE)
  <2> HIDE DEF p, x, i, j, k
  <2> QED BY <1>3, <1>6, <1>7, QuietConcat, QuietRuns
<1>9. s = <<JoinIfJoinable(h), Move(h, 3), Undefined>>
  BY ShortSequences
<1>10. \A strict : Quiet(p, main, <<Destroy(3)>>, Client, Client, strict)
  BY ParameterDies
<1> HIDE DEF s
<1>11. Runs(p, main, Within(s, <<Destroy(3)>>), st, Client, Client, TRUE)
  BY <1>8, <1>10, WithinRuns
<1> QED BY <1>9, <1>11 DEF AssignParameter

(* Every member function of AutoJoiningThread, whatever the objects hold. *)
LEMMA AutoJoiningMembers ==
  ASSUME NEW h \in {1, 2}, NEW g \in {1, 2}, NEW body \in Members(h, g)
  PROVE  Runs("auto_joining", main, body, Client, Client, Client, TRUE)
<1> DEFINE p == "auto_joining"
           x == [Client EXCEPT ![h] = "empty"]
<1>1. /\ h \in HandlesOf(p, main) /\ g \in HandlesOf(p, main) /\ main \in Threads
      /\ h \in Objects /\ h # 3 /\ h # Locals /\ p \in Guarded /\ p \in Detaching
  BY ClientStatuses DEF HandlesOf
<1>2. /\ Client \in Statuses /\ Client[Locals] = "held" /\ Client[3] = "empty"
      /\ x \in Statuses /\ x[h] = "empty"
  BY <1>1, ClientStatuses DEF Statuses
<1>3. /\ Covers(Client, x) /\ Covers(Client, Client)
      /\ \A o \in Objects \ {h} : Client[o] = x[o]
  BY <1>2, ClientCovers, CoversSelf
<1>4. Quiet(p, main, <<JoinIfJoinable(h)>>, Client, x, TRUE)
  BY <1>1, <1>2, JoinIfJoinableQuiet
<1> HIDE DEF p, x
<1>5. ASSUME NEW k \in {1, 2}, body = MoveAssign(h, k)
      PROVE  Runs(p, main, body, Client, Client, Client, TRUE)
  <2> DEFINE y == [x EXCEPT ![h] = x[k], ![k] = "empty"]
  <2>1. k \in HandlesOf(p, main)
    BY ClientStatuses DEF HandlesOf, p
  <2>2. Quiet(p, main, <<Move(h, k)>>, x, y, TRUE)
    BY <1>1, <1>2, <2>1, MoveQuiet
  <2>3. Covers(Client, y)
    BY <1>2, <1>3, ClientCovers
  <2> HIDE DEF y
  <2>4. Quiet(p, main, <<JoinIfJoinable(h)>> \o <<Move(h, k)>>, Client, Client, TRUE)
    BY <1>4, <2>2, <2>3, QuietWeaker, QuietConcat
  <2>5. <<JoinIfJoinable(h)>> \o <<Move(h, k)>> = <<JoinIfJoinable(h), Move(h, k)>>
    BY ShortSequences
  <2>6. Quiet(p, main, NoExcept(<<JoinIfJoinable(h), Move(h, k)>>), Client, Client, TRUE)
    BY <2>4, <2>5, NoExceptSequence, QuietCatch DEF NoExcept
  <2> QED BY <1>5, <2>6, QuietRuns DEF MoveAssign, p
<1>6. CASE body = AssignParameter(h)
  BY <1>2, <1>6, AssignParameterRuns DEF p
<1>7. CASE body = AssignThread(h)
  <2> DEFINE z == [Client EXCEPT ![3] = "held"]
  <2>1. 3 \in HandlesOf(p, main) /\ 3 \in Objects /\ 3 # Locals
    BY ClientStatuses, ThreeHandles DEF HandlesOf, p
  <2>2. Runs(p, main, <<Start(3, <<Work>>)>>, Client, z, Client, TRUE)
    BY <1>1, <1>2, <1>3, <2>1, PlainBodies, StartRuns
  <2>3. /\ z \in Statuses /\ z[Locals] = "held"
        /\ \A o \in Objects \ {3} : z[o] = Client[o]
    BY <1>2, <2>1 DEF Statuses
  <2> HIDE DEF z
  <2>4. Runs(p, main, AssignParameter(h), z, Client, Client, TRUE)
    BY <2>3, AssignParameterRuns DEF p
  <2> QED BY <1>7, <2>2, <2>4, RunsConcat DEF AssignThread, p
<1>11. ASSUME NEW k \in {1, 2}, body = AssignMoved(h, k)
       PROVE  Runs(p, main, body, Client, Client, Client, TRUE)
  <2> DEFINE z == [Client EXCEPT ![3] = Client[k], ![k] = "empty"]
             w == [Client EXCEPT ![3] = "any"]
  <2>1. /\ k \in HandlesOf(p, main) /\ 3 \in HandlesOf(p, main)
        /\ k \in Objects /\ 3 \in Objects /\ 3 # Locals /\ k # 3
    BY ClientStatuses, ThreeHandles DEF HandlesOf, p
  <2>2. Quiet(p, main, <<Move(3, k)>>, Client, z, TRUE)
    BY <1>1, <1>2, <2>1, MoveQuiet
  <2>3. Covers(w, z)
    <3>1. Client[k] = "any"
      BY <2>1 DEF Client, Locals
    <3> QED BY <1>2, <2>1, <3>1 DEF Covers, Statuses
  <2>4. /\ w \in Statuses /\ w[Locals] = "held"
        /\ \A o \in Objects \ {3} : w[o] = Client[o]
    BY <1>2, <2>1 DEF Statuses
  <2> HIDE DEF z, w
  <2>5. Runs(p, main, <<Move(3, k)>>, Client, w, Client, TRUE)
    BY <2>2, <2>3, QuietWeaker, QuietRuns
  <2>6. Runs(p, main, AssignParameter(h), w, Client, Client, TRUE)
    BY <2>4, AssignParameterRuns DEF p
  <2> QED BY <1>11, <2>5, <2>6, RunsConcat DEF AssignMoved, p
<1>12. CASE body = AssignAsThread(h)
  <2> DEFINE z == [Client EXCEPT ![3] = "held"]
             y == [z EXCEPT ![h] = z[3], ![3] = "empty"]
             s == <<Start(3, <<Work>>)>>
             a == <<Assign(h, 3)>>
             d == <<Destroy(3)>>
  <2>1. /\ 3 \in HandlesOf(p, main) /\ 3 \in Objects /\ 3 # Locals
        /\ 3 \in Handles /\ h \in Handles
    BY ClientStatuses, ThreeHandles DEF HandlesOf, p
  <2>2. Runs(p, main, s, Client, z, Client, TRUE)
    BY <1>1, <1>2, <1>3, <2>1, PlainBodies, StartRuns
  <2>3. z \in Statuses /\ \A o \in Objects \ {h, 3} : Client[o] \in {"any", z[o]}
    BY <1>2, <2>1 DEF Statuses
  <2> HIDE DEF z
  <2>4. Quiet(p, main, a, z, y, TRUE)
    BY <2>1, <2>3, AssignQuiet DEF p
  <2>5. Covers(Client, y)
    BY <2>3, ClientCovers
  <2> HIDE DEF y, s, a
  <2>6. Runs(p, main, a, z, Client, Client, TRUE)
    BY <2>4, <2>5, QuietWeaker, QuietRuns
  <2>7. \A strict : Quiet(p, main, d, Client, Client, strict)
    BY ParameterDies DEF p
  <2> HIDE DEF d
  <2>8. Runs(p, main, Within(a, d), z, Client, Client, TRUE)
    BY <2>6, <2>7, WithinRuns
  <2>9. Runs(p, main, s \o Within(a, d), Client, Client, Client, TRUE)
    BY <2>2, <2>8, RunsConcat
  <2> QED BY <1>12, <2>9 DEF AssignAsThread, p, s, a, d
<1>8. CASE body = <<Swap(h, g)>>
  <2> DEFINE c == Swap(h, g)
             y == [Client EXCEPT ![h] = Client[g], ![g] = Client[h]]
  <2>1. Formed(c) /\ Typed(c) /\ c.op = "swap" /\ c.handle = h /\ c.from = g
    BY GuardInstructions
  <2>2. Covers(Client, y)
    <3>1. Client[h] = "any" /\ Client[g] = "any"
      BY <1>1, ClientStatuses, ThreeHandles DEF Client
    <3> QED BY <1>2, <3>1 DEF Covers, Statuses
  <2> HIDE DEF c
  <2>3. Fine(p, main, c, Client, TRUE) /\ Steady(c, Client) /\ After(c, Client) = y
    BY <1>1, <1>2, <2>1 DEF Fine, Steady, After, HandleOps
  <2> HIDE DEF y
  <2>4. Quiet(p, main, <<c>>, Client, Client, TRUE)
    BY <1>1, <1>2, <2>2, <2>3, QuietOne
  <2> QED BY <1>8, <2>4, QuietRuns DEF c, p
<1>9. ASSUME NEW c \in {Join(h), Detach(h)}, body = <<c>>
      PROVE  Runs(p, main, body, Client, Client, Client, TRUE)
  <2>1. Formed(c) /\ Typed(c) /\ c.op \in {"join", "detach"} /\ c.handle = h /\ c.unwind = <<>>
    BY GuardInstructions
  <2>2. Fine(p, main, c, Client, TRUE) /\ c.op \in Throwing
    BY <1>1, <1>2, <2>1 DEF Fine, HandleOps, Throwing
  <2>3. After(c, Client) = x /\ Unwound(c, Client) = x
    BY <2>1 DEF After, Unwound, x
  <2>4. Quiet(p, main, <<>>, x, Client, p \in Guarded)
    BY <1>2, <1>3, QuietNone
  <2>5. Throws(p, main, c, Client, Client)
    BY <1>1, <2>1, <2>3, <2>4 DEF Throws
  <2> QED BY <1>1, <1>2, <1>3, <1>9, <2>2, <2>3, <2>5, RunsOne DEF p
<1>10. CASE body = AutoJoiningDestroy(h)
  <2>1. Quiet(p, main, <<Destroy(h)>>, x, [x EXCEPT ![h] = "empty"], TRUE)
    BY <1>1, <1>2, DestroyQuiet
  <2>2. [x EXCEPT ![h] = "empty"] = x
    BY <1>2 DEF Statuses
  <2>3. Quiet(p, main, <<JoinIfJoinable(h)>> \o <<Destroy(h)>>, Client, Client, TRUE)
    BY <1>3, <1>4, <2>1, <2>2, QuietWeaker, QuietConcat
  <2>4. <<JoinIfJoinable(h)>> \o <<Destroy(h)>> = <<JoinIfJoinable(h), Destroy(h)>>
    BY ShortSequences
  <2> QED BY <1>10, <2>3, <2>4, QuietRuns DEF AutoJoiningDestroy, p
<1> QED BY <1>5, <1>6, <1>7, <1>8, <1>9, <1>10, <1>11, <1>12 DEF Members, p

(* The client has not called anything yet. *)
LEMMA AutoJoiningSafe == Safe("auto_joining", main, <<>>, Fresh, TRUE)
<1>1. Fresh \in Statuses /\ Settled("auto_joining", main, Fresh)
  <2>1. 3 \in Objects /\ 3 # Locals
    BY ClientStatuses, ThreeHandles
  <2> QED BY <2>1, HoldsTypes DEF Fresh, Holds, Settled
<1> QED BY <1>1, RunsNone, CoversSelf DEF Safe

(* Every program, on each of its inputs, uses its std::thread objects      *)
(* properly: none is destroyed or overwritten while it holds a thread,     *)
(* unless an exception leaves a program without guards, or a client        *)
(* assigns to what as_thread() hands out.                                  *)
LEMMA ProgramsSafe ==
  ASSUME NEW p \in Programs, NEW in \in Inputs(p)
  PROVE  Safe(p, main, Code(p, in), Fresh, TRUE)
<1>1. \A q : q \notin {"auto_joining", "edit_document"} =>
        /\ Safe(q, main, atomic_flag, Fresh, TRUE)
        /\ Safe(q, main, simple_compare_exchange_weak, Fresh, TRUE)
        /\ Safe(q, main, pointer_arithmetic, Fresh, TRUE)
  BY SingleThreaded, SingleThreadedSafe
<1>2. p \in {"hello_world", "worspace1", "oops", "better_oops", "much_better_oops", "scoped",
        "scoped_empty", "auto_joining", "edit_document", "containers", "parallel_accumulate",
        "atomic_flag", "spinlock_mutex", "simple_compare_exchange_weak",
        "multithread_compare_exchange_weak", "release_sequence", "pointer_arithmetic"}
  BY ThreadProgramsAssumption
<1>3. CASE p \in {"hello_world", "worspace1", "oops", "better_oops", "much_better_oops"}
  BY <1>3, HelloWorldSafe, WorkspaceSafe, OopsSafe, BetterOopsSafe, MuchBetterOopsSafe DEF Code
<1>4. CASE p \in {"scoped", "scoped_empty", "auto_joining", "edit_document", "containers"}
  BY <1>4, ScopedSafe, AutoJoiningSafe, EditDocumentSafe, ContainersSafe DEF Code
<1>5. CASE p \in {"parallel_accumulate", "spinlock_mutex", "multithread_compare_exchange_weak",
                  "release_sequence"}
  BY <1>5, ParallelAccumulateSafe, CollectedThreadsSafe, ReleaseSequenceSafe DEF Code
<1>6. CASE p \in {"atomic_flag", "simple_compare_exchange_weak", "pointer_arithmetic"}
  BY <1>6, <1>1 DEF Code
<1> QED BY <1>2, <1>3, <1>4, <1>5, <1>6

-----------------------------------------------------------------------------
(* The inductive invariant *)

(* Nothing failed that lets destructors terminate the program. *)
Strict == program \in Guarded \/ faults \cap {"start", "work"} = {}

(* The objects of t are as st says. *)
Meets(t, st) ==
  /\ \A h \in HandlesOf(program, t) :
       /\ st[h] = "empty" => handle[h] = Empty
       /\ st[h] = "held" => handle[h] # Empty
  /\ t = main /\ st[Locals] = "held" => dead = {}

(* What t has left to execute is safe, from a status that the objects      *)
(* meet.                                                                   *)
CodeFine(t) ==
  \E st, st2, exc \in Statuses :
    /\ Runs(program, t, code[t], st, st2, exc, Strict)
    /\ Meets(t, st)
    /\ Settled(program, t, st2) /\ Settled(program, t, exc)

(* The types of the variables that the proof is about. *)
Typing ==
  /\ program \in Programs /\ input \in Inputs(program)
  /\ started \in 0 .. MaxThreads /\ released \subseteq 1 .. started
  /\ handle \in [Handles -> 0 .. started]
  /\ code = [t \in Threads |-> code[t]]
  /\ dead \subseteq Locations
  /\ faults \subseteq {"start", "not_joinable", "work", "spurious"}
  /\ ended \in {"no", "terminate", "undefined", "assertion_failed"}

(* A thread that is not released is held by one object, no other is held.  *)
Owned ==
  /\ \A h, g \in Handles : handle[h] = handle[g] /\ handle[h] # Empty => h = g
  /\ \A h \in Handles : handle[h] \notin released
  /\ \A n \in 1 .. started \ released : \E h \in Handles : handle[h] = n

(* A thread that was not started has nothing to execute. *)
Unstarted == \A n \in Workers : n > started => code[n] = <<>>

(* Without detach, a released thread is one that was joined. *)
Joined == program \notin Detaching \cup {"oops"} => \A n \in released : code[n] = <<>>

(* Locals die after all threads have ended, except in oops. *)
Outlived ==
  dead # {} => /\ program \notin Detaching
               /\ program # "oops" => \A n \in Workers : code[n] = <<>>

(* The inductive invariant. OneOwner and LocalsOutliveUse are not          *)
(* inductive: they hold because of the code that threads have left, which  *)
(* CodeFine is about.                                                      *)
ThreadInv ==
  /\ Typing /\ Owned /\ Unstarted /\ Joined /\ Outlived /\ GuardsNeverTerminate
  /\ \A t \in Threads : CodeFine(t)

(* At its end the code has reached its postcondition. *)
LEMMA RunsEmpty ==
  ASSUME NEW p, NEW t, NEW st, NEW st2, NEW exc, NEW strict,
         Runs(p, t, <<>>, st, st2, exc, strict)
  PROVE  Covers(st2, st)
<1>1. PICK a : Annotates(p, t, a, <<>>, st, st2, strict)
  BY DEF Runs
<1>2. Len(<<>>) = 0
  OBVIOUS
<1>3. Covers(a[1], st) /\ Covers(st2, a[1])
  BY <1>1, <1>2 DEF Annotates
<1> QED BY <1>3, CoversTrans

(* The first instruction of code that runs, and what runs after it. *)
LEMMA RunsHead ==
  ASSUME NEW p, NEW t \in Threads, NEW s, s # <<>>, NEW st, NEW st2, NEW exc, NEW strict,
         Runs(p, t, s, st, st2, exc, strict)
  PROVE  \E x \in Statuses :
           /\ Covers(x, st)
           /\ Fine(p, t, Head(s), x, strict)
           /\ Steady(Head(s), x) \/ (Head(s).op \in Throwing /\ Throws(p, t, Head(s), x, exc))
           /\ Runs(p, t, s, x, st2, exc, strict)
           /\ Runs(p, t, Tail(s), After(Head(s), x), st2, exc, strict)
<1> DEFINE Exit(d, x) == Steady(d, x) \/ (d.op \in Throwing /\ Throws(p, t, d, x, exc))
           r == Tail(s)
           n == Len(s)
<1>1. PICK a : /\ Annotates(p, t, a, s, st, st2, strict)
               /\ \A i \in 1 .. n : Exit(s[i], a[i])
  BY DEF Runs
<1>2. IsSequence(s)
  BY DEF Runs
<1>3. /\ n \in Nat /\ n >= 1 /\ IsSequence(r) /\ Len(r) = n - 1 /\ Head(s) = s[1]
      /\ \A i \in 1 .. n - 1 : r[i] = s[i + 1]
  BY <1>2, TailSequence DEF IsSequence
<1>4. /\ a \in [1 .. n + 1 -> Statuses] /\ Covers(a[1], st) /\ Covers(st2, a[n + 1])
      /\ \A i \in 1 .. n : Fine(p, t, s[i], a[i], strict) /\ Covers(a[i + 1], After(s[i], a[i]))
  BY <1>1 DEF Annotates
<1> HIDE DEF Exit, r, n
<1> DEFINE b == [i \in 1 .. n |-> a[i + 1]]
<1>5. b \in [1 .. n -> Statuses]
  BY <1>3, <1>4
<1>6. \A i \in 1 .. n : b[i] = a[i + 1]
  OBVIOUS
<1> HIDE DEF b
<1>7. /\ 1 \in 1 .. n /\ n \in 1 .. n /\ (n - 1) + 1 = n
      /\ \A i \in 1 .. n - 1 : i \in 1 .. n /\ i + 1 \in 1 .. n
  BY <1>3
<1>8. Annotates(p, t, b, r, After(s[1], a[1]), st2, strict)
  BY <1>3, <1>4, <1>5, <1>6, <1>7 DEF Annotates
<1>9. \A i \in 1 .. n - 1 : Exit(r[i], b[i])
  BY <1>1, <1>3, <1>6, <1>7 DEF n
<1>10. Runs(p, t, r, After(s[1], a[1]), st2, exc, strict)
  BY <1>3, <1>8, <1>9 DEF Runs, Exit
<1>11. a[1] \in Statuses /\ Exit(s[1], a[1])
  BY <1>1, <1>3, <1>4, <1>7 DEF n
<1>12. Runs(p, t, s, a[1], st2, exc, strict)
  BY <1>1, <1>2, CoversSelf DEF Annotates, Runs, Exit, n
<1> QED BY <1>3, <1>4, <1>7, <1>10, <1>11, <1>12 DEF Exit, r

(* The objects meet what says less. *)
LEMMA MeetsLess ==
  ASSUME NEW t \in Threads, NEW st, NEW x, Covers(x, st), Meets(t, st)
  PROVE  Meets(t, x)
<1>1. Locals \in Objects /\ \A h \in HandlesOf(program, t) : h \in Objects
  BY HandlesAreObjects DEF Objects
<1> QED BY <1>1 DEF Covers, Meets

(* What a thread is about to do. *)
LEMMA NextInstruction ==
  ASSUME NEW t \in Threads, CodeFine(t), code[t] # <<>>
  PROVE  \E x, y, st2, exc \in Statuses :
           /\ Meets(t, x) /\ y = After(Instr(t), x)
           /\ Fine(program, t, Instr(t), x, Strict)
           /\ \/ Steady(Instr(t), x)
              \/ Instr(t).op \in Throwing /\ Throws(program, t, Instr(t), x, exc)
           /\ Runs(program, t, code[t], x, st2, exc, Strict)
           /\ Runs(program, t, Rest(t), y, st2, exc, Strict)
           /\ Settled(program, t, st2) /\ Settled(program, t, exc)
<1>1. PICK st, st2, exc \in Statuses :
         /\ Runs(program, t, code[t], st, st2, exc, Strict)
         /\ Meets(t, st)
         /\ Settled(program, t, st2) /\ Settled(program, t, exc)
  BY DEF CodeFine
<1>2. PICK x \in Statuses :
         /\ Covers(x, st)
         /\ Fine(program, t, Instr(t), x, Strict)
         /\ \/ Steady(Instr(t), x)
            \/ Instr(t).op \in Throwing /\ Throws(program, t, Instr(t), x, exc)
         /\ Runs(program, t, code[t], x, st2, exc, Strict)
         /\ Runs(program, t, Rest(t), After(Instr(t), x), st2, exc, Strict)
  BY <1>1, RunsHead DEF Instr, Rest
<1>3. Meets(t, x)
  BY <1>1, <1>2, MeetsLess
<1>4. After(Instr(t), x) \in Statuses
  BY <1>2, AfterType
<1> QED BY <1>1, <1>2, <1>3, <1>4

(* The other threads do not notice. *)
LEMMA OthersFine ==
  ASSUME NEW u \in Threads, CodeFine(u), program' = program,
         code'[u] = code[u],
         \A h \in HandlesOf(program, u) : handle'[h] = handle[h],
         u = main => dead' = dead,
         Strict' => Strict
  PROVE  CodeFine(u)'
<1>1. PICK st, st2, exc \in Statuses :
         /\ Runs(program, u, code[u], st, st2, exc, Strict)
         /\ Meets(u, st)
         /\ Settled(program, u, st2) /\ Settled(program, u, exc)
  BY DEF CodeFine
<1>2. Runs(program, u, code[u], st, st2, exc, Strict')
  <2>1. CASE Strict
    <3>1. Strict = TRUE
      BY <2>1 DEF Strict
    <3> QED BY <1>1, <3>1, RunsLoose
  <2>2. CASE ~ Strict
    <3>1. Strict' = Strict
      BY <2>2 DEF Strict
    <3> QED BY <1>1, <3>1
  <2> QED BY <2>1, <2>2
<1>3. Meets(u, st)'
  BY <1>1 DEF Meets
<1> QED BY <1>1, <1>2, <1>3 DEF CodeFine

(* The thread goes on with the code that is left. *)
LEMMA ThisFine ==
  ASSUME NEW t \in Threads, NEW y \in Statuses, NEW st2 \in Statuses, NEW exc \in Statuses,
         Runs(program, t, code'[t], y, st2, exc, Strict'),
         Settled(program, t, st2), Settled(program, t, exc),
         program' = program, Meets(t, y)'
  PROVE  CodeFine(t)'
BY DEF CodeFine

(* No object is local to two threads. *)
LEMMA OwnHandles ==
  ASSUME NEW t \in Threads, NEW u \in Threads, t # u, NEW h \in HandlesOf(program, t)
  PROVE  h \notin HandlesOf(program, u)
BY DEF HandlesOf

-----------------------------------------------------------------------------
(* Steps that change no std::thread object *)

(* Main is not a thread that was started. *)
LEMMA MainIsNoWorker == main \in Threads /\ main \notin Workers /\ Workers \subseteq Threads
BY DEF main, Workers, Threads

(* A step of t that changes code and faults only. *)
LEMMA CodeOnly ==
  ASSUME ThreadInv, NEW t \in Threads, code[t] # <<>> \/ t = main,
         ended = "no", UNCHANGED <<program, input, objects, dead, ended>>,
         faults \subseteq faults', faults' \subseteq {"start", "not_joinable", "work", "spurious"},
         code' = [u \in Threads |-> code'[u]],
         \A u \in Threads \ {t} : code'[u] = code[u],
         CodeFine(t)'
  PROVE  ThreadInv'
<1> USE DEF ThreadInv
<1>1. Typing'
  BY DEF Typing, objects
<1>2. Owned'
  BY DEF Owned, objects
<1>3. \A n \in Workers : code[n] = <<>> => code'[n] = <<>>
  BY MainIsNoWorker
<1>4. released \subseteq Workers
  BY ThreadProgramsAssumption DEF Typing, Workers
<1>5. Unstarted'
  BY <1>3 DEF Unstarted, objects
<1>6. Joined'
  BY <1>3, <1>4 DEF Joined, objects
<1>7. Outlived'
  BY <1>3 DEF Outlived
<1>8. GuardsNeverTerminate'
  BY DEF GuardsNeverTerminate
<1>9. ASSUME NEW u \in Threads PROVE CodeFine(u)'
  <2>1. CASE u = t
    BY <2>1
  <2>2. CASE u # t
    <3>1. Strict' => Strict
      BY DEF Strict
    <3>2. handle' = handle
      BY DEF objects
    <3> QED BY <2>2, <3>1, <3>2, OthersFine
  <2> QED BY <2>1, <2>2
<1> QED BY <1>1, <1>2, <1>5, <1>6, <1>7, <1>8, <1>9

(* code after a step of t. *)
LEMMA CodeFunction ==
  ASSUME Typing, NEW t \in Threads, NEW r, code' = [code EXCEPT ![t] = r]
  PROVE  /\ code' = [u \in Threads |-> code'[u]]
         /\ code'[t] = r
         /\ \A u \in Threads \ {t} : code'[u] = code[u]
BY DEF Typing

(* An instruction that passes leaves the objects as they are. *)
LEMMA GoOn ==
  ASSUME ThreadInv, NEW t \in Threads, code[t] # <<>>, ended = "no",
         UNCHANGED <<program, input, objects, dead, ended>>,
         faults \subseteq faults', faults' \subseteq {"start", "not_joinable", "work", "spurious"},
         faults' \cap {"start", "work"} = faults \cap {"start", "work"},
         Continue(t),
         Instr(t).op \notin {"start", "join", "detach", "move", "assign", "swap", "end_lifetime",
                             "terminate"},
         Instr(t).op \in {"join_if_joinable", "destroy"} => Held(t) = Empty,
         Instr(t).op = "throw_if_empty" => Held(t) # Empty
  PROVE  ThreadInv'
<1>1. PICK x, y, st2, exc \in Statuses :
        /\ Meets(t, x) /\ y = After(Instr(t), x)
        /\ Fine(program, t, Instr(t), x, Strict)
        /\ Runs(program, t, Rest(t), y, st2, exc, Strict)
        /\ Settled(program, t, st2) /\ Settled(program, t, exc)
  BY NextInstruction DEF ThreadInv
<1>2. /\ code' = [u \in Threads |-> code'[u]]
      /\ code'[t] = Rest(t)
      /\ \A u \in Threads \ {t} : code'[u] = code[u]
  BY CodeFunction DEF ThreadInv, Continue, Become
<1>3. Strict' = Strict
  BY DEF Strict
<1>4. /\ Locals \in Objects
      /\ \A h \in HandlesOf(program, t) : h \in Objects /\ h # Locals
  BY HandlesAreObjects DEF Objects
<1>5. Meets(t, y)
  <2> DEFINE c == Instr(t)
             h == Instr(t).handle
  <2>1. CASE c.op \in {"join_if_joinable", "destroy"}
    <3>1. h \in HandlesOf(program, t) /\ handle[h] = Empty
      BY <1>1, <2>1 DEF Fine, HandleOps, Held
    <3>2. y = [x EXCEPT ![h] = "empty"]
      BY <1>1, <2>1 DEF After
    <3> HIDE DEF c, h
    <3>3. \A g \in HandlesOf(program, t) : y[g] = IF g = h THEN "empty" ELSE x[g]
      BY <1>4, <3>2 DEF Statuses
    <3>4. y[Locals] = x[Locals]
      BY <1>4, <3>1, <3>2 DEF Statuses
    <3> QED BY <1>1, <3>1, <3>3, <3>4 DEF Meets
  <2>2. CASE c.op = "throw_if_empty"
    <3>1. h \in HandlesOf(program, t) /\ handle[h] # Empty
      BY <1>1, <2>2 DEF Fine, HandleOps, Held
    <3>2. y = [x EXCEPT ![h] = "held"]
      BY <1>1, <2>2 DEF After
    <3> HIDE DEF c, h
    <3>3. \A g \in HandlesOf(program, t) : y[g] = IF g = h THEN "held" ELSE x[g]
      BY <1>4, <3>2 DEF Statuses
    <3>4. y[Locals] = x[Locals]
      BY <1>4, <3>1, <3>2 DEF Statuses
    <3> QED BY <1>1, <3>1, <3>3, <3>4 DEF Meets
  <2>3. CASE c.op \notin {"join_if_joinable", "destroy", "throw_if_empty"}
    <3>1. y = x
      BY <1>1, <2>3 DEF After
    <3> QED BY <1>1, <3>1
  <2> QED BY <2>1, <2>2, <2>3
<1>6. Meets(t, y)'
  BY <1>5 DEF Meets, objects
<1>7. CodeFine(t)'
  <2>1. Runs(program, t, code'[t], y, st2, exc, Strict')
    BY <1>1, <1>2, <1>3
  <2> QED BY <1>1, <1>6, <2>1, ThisFine
<1> QED BY <1>2, <1>7, CodeOnly

(* An exception runs what its instruction carries. *)
LEMMA RaiseInv ==
  ASSUME ThreadInv, NEW t \in Threads, code[t] # <<>>, ended = "no",
         NEW what \in {"start", "not_joinable", "work"}, Raise(t, what),
         Instr(t).op \in Throwing, Instr(t).op = "start" => what = "start",
         what = "start" => Instr(t).op = "start",
         what = "not_joinable" => Instr(t).op \in {"join", "detach", "throw_if_empty"},
         Instr(t).op \in {"join", "detach", "throw_if_empty"} => Held(t) = Empty
  PROVE  ThreadInv'
<1>1. PICK x, st2, exc \in Statuses :
        /\ Meets(t, x)
        /\ Fine(program, t, Instr(t), x, Strict)
        /\ \/ Steady(Instr(t), x)
           \/ Instr(t).op \in Throwing /\ Throws(program, t, Instr(t), x, exc)
        /\ Settled(program, t, st2) /\ Settled(program, t, exc)
  BY NextInstruction DEF ThreadInv
<1> DEFINE h == Instr(t).handle
<1>2. PICK y \in Statuses : y = Unwound(Instr(t), x)
  BY <1>1, AfterType
<1>3. /\ code' = [u \in Threads |-> code'[u]]
      /\ code'[t] = Instr(t).unwind
      /\ \A u \in Threads \ {t} : code'[u] = code[u]
  BY CodeFunction DEF ThreadInv, Raise, Become
<1>4. /\ Locals \in Objects
      /\ \A g \in HandlesOf(program, t) : g \in Objects /\ g # Locals
  BY HandlesAreObjects DEF Objects
<1>5. Instr(t).op \in {"join", "detach", "throw_if_empty"} =>
        h \in HandlesOf(program, t) /\ handle[h] = Empty
  BY <1>1 DEF Fine, HandleOps, Held
<1>6. Throws(program, t, Instr(t), x, exc)
  <2>1. ~ Steady(Instr(t), x)
    BY <1>1, <1>5 DEF Steady, Meets, Throwing
  <2> QED BY <1>1, <2>1
<1>7. UNCHANGED <<program, input, objects, dead, ended>> /\ faults' = faults \cup {what}
      /\ handle' = handle
  BY DEF Raise, objects
<1>8. Meets(t, y)'
  <2>1. CASE Instr(t).op \in {"join", "detach", "throw_if_empty"}
    <3>1. y = [x EXCEPT ![h] = "empty"]
      BY <1>2, <2>1 DEF Unwound
    <3>2. h \in HandlesOf(program, t) /\ handle[h] = Empty
      BY <1>5, <2>1
    <3> HIDE DEF h
    <3>3. \A g \in HandlesOf(program, t) : y[g] = IF g = h THEN "empty" ELSE x[g]
      BY <1>4, <3>1 DEF Statuses
    <3>4. y[Locals] = x[Locals]
      BY <1>4, <3>1, <3>2 DEF Statuses
    <3> QED BY <1>1, <1>7, <3>2, <3>3, <3>4 DEF Meets
  <2>2. CASE Instr(t).op \notin {"join", "detach", "throw_if_empty"}
    <3>1. y = x
      BY <1>2, <2>2 DEF Unwound
    <3> QED BY <1>1, <1>7, <3>1 DEF Meets
  <2> QED BY <2>1, <2>2
<1>9. Strict' = (program \in Guarded)
  BY <1>6, <1>7 DEF Throws, Strict
<1>10. CodeFine(t)'
  <2>1. Quiet(program, t, code'[t], y, exc, Strict')
    BY <1>2, <1>3, <1>6, <1>9 DEF Throws
  <2>2. Runs(program, t, code'[t], y, exc, exc, Strict')
    BY <2>1, QuietRuns
  <2> QED BY <1>1, <1>7, <1>8, <2>2, ThisFine
<1>11. faults' \subseteq {"start", "not_joinable", "work", "spurious"}
  BY <1>7 DEF ThreadInv, Typing
<1> QED BY <1>3, <1>7, <1>10, <1>11, CodeOnly

-----------------------------------------------------------------------------
(* Steps that change std::thread objects *)

(* The objects of a thread have a place in a status. *)
LEMMA ObjectsOf ==
  ASSUME NEW p, NEW t \in Threads
  PROVE  /\ Locals \in Objects
         /\ \A h \in HandlesOf(p, t) : h \in Objects /\ h \in Handles /\ h # Locals
BY HandlesAreObjects DEF Objects

(* A new thread belongs to the object that started it, which was empty. *)
LEMMA StartInv ==
  ASSUME ThreadInv, NEW t \in Threads, StartThread(t)
  PROVE  ThreadInv'
<1> DEFINE c == Instr(t)
           h == Instr(t).handle
<1>0. PICK n : n = started + 1
  OBVIOUS
<1>1. /\ code[t] # <<>> /\ ended = "no" /\ c.op = "start" /\ started < MaxThreads
      /\ started' = n /\ handle' = [handle EXCEPT ![h] = n]
      /\ code' = [code EXCEPT ![t] = Rest(t), ![n] = c.body]
      /\ UNCHANGED <<program, input, released, dead, faults, ended>>
  BY <1>0 DEF StartThread, At, Instr
<1>2. PICK x, y, st2, exc \in Statuses :
        /\ Meets(t, x) /\ y = After(c, x)
        /\ Fine(program, t, c, x, Strict)
        /\ Runs(program, t, Rest(t), y, st2, exc, Strict)
        /\ Settled(program, t, st2) /\ Settled(program, t, exc)
  BY <1>1, NextInstruction DEF ThreadInv
<1>3. /\ h \in HandlesOf(program, t) /\ h \in Handles /\ h \in Objects /\ h # Locals
      /\ handle[h] = Empty /\ Plain(program, c.body)
      /\ y = [x EXCEPT ![h] = "held"]
      /\ t = main => dead = {}
  <2>1. h \in HandlesOf(program, t) /\ x[h] = "empty" /\ Plain(program, c.body)
        /\ (t = main => x[Locals] = "held")
    BY <1>1, <1>2 DEF Fine, HandleOps
  <2>2. y = [x EXCEPT ![h] = "held"]
    BY <1>1, <1>2 DEF After
  <2> QED BY <1>2, <2>1, <2>2, ObjectsOf DEF Meets
<1>4. /\ n \in Workers /\ n \in Threads /\ n # main /\ n # Empty /\ started \in Nat
      /\ handle \in [Handles -> 0 .. started] /\ released \subseteq 1 .. started
      /\ code[n] = <<>> /\ n # t
  <2>1. /\ started \in 0 .. MaxThreads
        /\ handle \in [Handles -> 0 .. started] /\ released \subseteq 1 .. started
    BY DEF ThreadInv, Typing
  <2>2. n \in Workers /\ n > started /\ n # 0
    BY <1>0, <1>1, <2>1, ThreadProgramsAssumption DEF Workers
  <2>3. code[n] = <<>>
    BY <2>2 DEF ThreadInv, Unstarted
  <2> QED BY <1>1, <2>1, <2>2, <2>3, ThreadProgramsAssumption DEF Threads, main, Empty
<1>5. /\ code' = [u \in Threads |-> code'[u]]
      /\ code'[t] = Rest(t) /\ code'[n] = c.body
      /\ \A u \in Threads \ {t, n} : code'[u] = code[u]
  BY <1>1, <1>4 DEF ThreadInv, Typing
<1>6. Strict' = Strict
  BY <1>1 DEF Strict
<1>7. dead = {}
  <2>1. CASE t = main
    BY <2>1, <1>3
  <2>2. CASE t # main
    <3>1. program \in Detaching
      BY <2>2, <1>3 DEF HandlesOf, Detaching
    <3> QED BY <3>1 DEF ThreadInv, Outlived
  <2> QED BY <2>1, <2>2
<1>8. \A g \in Handles : handle'[g] = IF g = h THEN n ELSE handle[g]
  BY <1>1, <1>3, <1>4
<1> HIDE DEF c, h
<1>9. Typing'
  <2>1. handle' \in [Handles -> 0 .. started']
    BY <1>0, <1>1, <1>3, <1>4
  <2>2. started' \in 0 .. MaxThreads /\ released' \subseteq 1 .. started'
    BY <1>0, <1>1, <1>4, ThreadProgramsAssumption DEF Workers
  <2> QED BY <1>1, <1>5, <2>1, <2>2 DEF ThreadInv, Typing
<1>10. Owned'
  <2>1. n \notin released /\ \A g \in Handles : handle[g] # n
    BY <1>0, <1>4
  <2>2. \A g, k \in Handles : handle'[g] = handle'[k] /\ handle'[g] # Empty => g = k
    BY <1>8, <2>1 DEF ThreadInv, Owned
  <2>3. \A g \in Handles : handle'[g] \notin released'
    BY <1>1, <1>8, <2>1 DEF ThreadInv, Owned
  <2>4. ASSUME NEW m \in 1 .. started' \ released' PROVE \E g \in Handles : handle'[g] = m
    <3>1. CASE m = n
      BY <3>1, <1>3, <1>8
    <3>2. CASE m # n
      <4>1. m \in 1 .. started \ released /\ m # Empty
        BY <3>2, <1>0, <1>1, <1>4 DEF Empty
      <4>2. PICK g \in Handles : handle[g] = m
        BY <4>1 DEF ThreadInv, Owned
      <4>3. g # h
        BY <4>1, <4>2, <1>3
      <4> QED BY <4>2, <4>3, <1>8
    <3> QED BY <3>1, <3>2
  <2> QED BY <2>2, <2>3, <2>4 DEF Owned
<1>11. Unstarted'
  <2>1. ASSUME NEW m \in Workers, m > started' PROVE code'[m] = <<>>
    <3>1. m > started /\ m # n
      BY <2>1, <1>0, <1>1, <1>4 DEF Workers
    <3>2. code[m] = <<>> /\ m # t
      BY <3>1, <1>1 DEF ThreadInv, Unstarted
    <3> QED BY <3>1, <3>2, <1>5, MainIsNoWorker
  <2> QED BY <2>1 DEF Unstarted
<1>12. Joined'
  <2>1. ASSUME NEW m \in released, code[m] = <<>> PROVE code'[m] = <<>>
    <3>1. m \in Threads /\ m # n /\ m # t
      BY <2>1, <1>0, <1>1, <1>4, ThreadProgramsAssumption DEF Threads, Workers, ThreadInv, Typing
    <3> QED BY <2>1, <3>1, <1>5
  <2> QED BY <2>1, <1>1 DEF ThreadInv, Joined
<1>13. Outlived' /\ GuardsNeverTerminate'
  BY <1>1, <1>7 DEF Outlived, GuardsNeverTerminate
<1>14. CodeFine(t)'
  <2>1. /\ y[Locals] = x[Locals]
        /\ \A g \in HandlesOf(program, t) : y[g] = IF g = h THEN "held" ELSE x[g]
    BY <1>3, ObjectsOf DEF Statuses
  <2>2. \A g \in HandlesOf(program, t) : handle'[g] = IF g = h THEN n ELSE handle[g]
    BY <1>8, ObjectsOf
  <2>3. Meets(t, y)'
    BY <1>1, <1>2, <1>4, <2>1, <2>2 DEF Meets
  <2>4. Runs(program, t, code'[t], y, st2, exc, Strict')
    BY <1>2, <1>5, <1>6
  <2> QED BY <1>1, <1>2, <2>3, <2>4, ThisFine
<1>15. CodeFine(n)'
  <2>1. PICK st, st3, exc3 \in Statuses :
          /\ Runs(program, n, <<>>, st, st3, exc3, Strict)
          /\ Meets(n, st)
          /\ Settled(program, n, st3) /\ Settled(program, n, exc3)
    BY <1>4 DEF ThreadInv, CodeFine
  <2>2. Covers(st3, st)
    BY <2>1, RunsEmpty
  <2>3. \A g \in HandlesOf(program, n) : g \in Objects /\ st3[g] = "empty" /\ program = "edit_document"
    BY <1>4, <2>1, ObjectsOf DEF HandlesOf, Settled
  <2>4. \A g \in HandlesOf(program, n) : st[g] = "empty"
    BY <2>2, <2>3 DEF Covers
  <2>5. program = "edit_document" => st[n] = "empty"
    BY <2>4 DEF HandlesOf
  <2>6. Settled(program, n, st)
    BY <1>4, <2>4 DEF Settled
  <2>7. Runs(program, n, c.body, st, st, exc3, Strict)
    BY <1>3, <1>4, <2>5, PlainQuiet, QuietRuns
  <2>8. \A g \in HandlesOf(program, n) : handle'[g] = handle[g]
    BY <1>3, <1>4, <1>8, ObjectsOf, OwnHandles
  <2>9. Meets(n, st)'
    BY <1>1, <1>4, <2>1, <2>8 DEF Meets
  <2>10. Runs(program, n, code'[n], st, st, exc3, Strict')
    BY <2>7, <1>5, <1>6
  <2> QED BY <1>1, <1>4, <2>1, <2>6, <2>9, <2>10, ThisFine
<1>16. ASSUME NEW u \in Threads \ {t, n} PROVE CodeFine(u)'
  <2>1. \A g \in HandlesOf(program, u) : handle'[g] = handle[g]
    BY <1>3, <1>8, ObjectsOf, OwnHandles
  <2> QED BY <1>1, <1>5, <1>6, <2>1, OthersFine DEF ThreadInv
<1>17. \A u \in Threads : CodeFine(u)'
  BY <1>14, <1>15, <1>16
<1> QED BY <1>9, <1>10, <1>11, <1>12, <1>13, <1>17 DEF ThreadInv

(* join and detach: the object gives up its thread. *)
LEMMA ReleaseInv ==
  ASSUME ThreadInv, NEW t \in Threads, code[t] # <<>>, ended = "no",
         Instr(t).op \in {"join", "join_if_joinable", "detach"},
         Held(t) # Empty, Instr(t).op # "detach" => code[Held(t)] = <<>>,
         released' = released \cup {Held(t)},
         handle' = [handle EXCEPT ![Instr(t).handle] = Empty],
         Continue(t), UNCHANGED <<program, input, started, dead, faults, ended>>
  PROVE  ThreadInv'
<1> DEFINE c == Instr(t)
           h == Instr(t).handle
<1>0. PICK m : m = Held(t)
  OBVIOUS
<1>1. PICK x, y, st2, exc \in Statuses :
        /\ Meets(t, x) /\ y = After(c, x)
        /\ Fine(program, t, c, x, Strict)
        /\ Runs(program, t, Rest(t), y, st2, exc, Strict)
        /\ Settled(program, t, st2) /\ Settled(program, t, exc)
  BY NextInstruction DEF ThreadInv
<1>2. /\ h \in HandlesOf(program, t) /\ h \in Handles /\ h \in Objects /\ h # Locals
      /\ y = [x EXCEPT ![h] = "empty"]
      /\ c.op = "detach" => program \in Detaching \cup {"oops"}
  <2>1. h \in HandlesOf(program, t) /\ (c.op = "detach" => program \in Detaching \cup {"oops"})
    BY <1>1 DEF Fine, HandleOps
  <2>2. y = [x EXCEPT ![h] = "empty"]
    BY <1>1 DEF After
  <2> QED BY <2>1, <2>2, ObjectsOf
<1>3. /\ handle \in [Handles -> 0 .. started] /\ released \subseteq 1 .. started
      /\ started \in 0 .. MaxThreads /\ MaxThreads \in Nat
  BY ThreadProgramsAssumption DEF ThreadInv, Typing
<1>4. /\ handle[h] = m /\ m \in 1 .. started /\ m \in Workers /\ released' = released \cup {m}
      /\ started \in Nat
  BY <1>0, <1>2, <1>3 DEF Held, Empty, Workers
<1>5. /\ code' = [u \in Threads |-> code'[u]]
      /\ code'[t] = Rest(t)
      /\ \A u \in Threads \ {t} : code'[u] = code[u]
  BY CodeFunction DEF ThreadInv, Continue, Become
<1>6. Strict' = Strict
  BY DEF Strict
<1>7. \A g \in Handles : handle'[g] = IF g = h THEN Empty ELSE handle[g]
  BY <1>2, <1>3
<1>8. \A n \in Workers : code[n] = <<>> => code'[n] = <<>>
  BY <1>5, MainIsNoWorker
<1>9. c.op # "detach" => code[m] = <<>>
  BY <1>0
<1>18. handle' = [handle EXCEPT ![h] = Empty] /\ 0 \in 0 .. started
  BY <1>4
<1> HIDE DEF c, h
<1>10. Typing'
  <2>1. handle' \in [Handles -> 0 .. started]
    BY <1>3, <1>18 DEF Empty
  <2> QED BY <1>3, <1>4, <1>5, <2>1 DEF ThreadInv, Typing
<1>11. Owned'
  <2>1. \A g, k \in Handles : handle'[g] = handle'[k] /\ handle'[g] # Empty => g = k
    BY <1>7 DEF ThreadInv, Owned
  <2>2. \A g \in Handles : handle'[g] \notin released'
    <3>1. Empty \notin released'
      BY <1>3, <1>4 DEF Empty
    <3>2. \A g \in Handles : g # h => handle[g] # m
      BY <1>2, <1>4 DEF ThreadInv, Owned, Empty
    <3> QED BY <1>4, <1>7, <3>1, <3>2 DEF ThreadInv, Owned
  <2>3. ASSUME NEW n \in 1 .. started' \ released' PROVE \E g \in Handles : handle'[g] = n
    <3>1. n \in 1 .. started \ released /\ n # m
      BY <1>4
    <3>2. PICK g \in Handles : handle[g] = n
      BY <3>1 DEF ThreadInv, Owned
    <3> QED BY <1>4, <1>7, <3>1, <3>2
  <2> QED BY <2>1, <2>2, <2>3 DEF Owned
<1>12. Unstarted'
  BY <1>8 DEF ThreadInv, Unstarted
<1>13. Joined'
  <2>1. released \subseteq Workers
    BY <1>3 DEF Workers
  <2>2. program \notin Detaching \cup {"oops"} => c.op # "detach"
    BY <1>2
  <2>3. program \notin Detaching \cup {"oops"} => \A n \in released : code[n] = <<>>
    BY DEF ThreadInv, Joined
  <2>4. program \notin Detaching \cup {"oops"} => \A n \in released' : code[n] = <<>> /\ n \in Workers
    BY <1>4, <1>9, <2>1, <2>2, <2>3
  <2> QED BY <1>8, <2>4 DEF Joined
<1>14. Outlived' /\ GuardsNeverTerminate'
  BY <1>8 DEF ThreadInv, Outlived, GuardsNeverTerminate
<1>15. CodeFine(t)'
  <2>1. /\ y[Locals] = x[Locals]
        /\ \A g \in HandlesOf(program, t) : y[g] = IF g = h THEN "empty" ELSE x[g]
    BY <1>2, ObjectsOf DEF Statuses
  <2>2. \A g \in HandlesOf(program, t) : handle'[g] = IF g = h THEN Empty ELSE handle[g]
    BY <1>7, ObjectsOf
  <2>3. Meets(t, y)'
    BY <1>1, <2>1, <2>2 DEF Meets
  <2>4. Runs(program, t, code'[t], y, st2, exc, Strict')
    BY <1>1, <1>5, <1>6
  <2> QED BY <1>1, <2>3, <2>4, ThisFine
<1>16. ASSUME NEW u \in Threads \ {t} PROVE CodeFine(u)'
  <2>1. \A g \in HandlesOf(program, u) : handle'[g] = handle[g]
    BY <1>2, <1>7, ObjectsOf, OwnHandles
  <2> QED BY <1>5, <1>6, <2>1, OthersFine DEF ThreadInv
<1>17. \A u \in Threads : CodeFine(u)'
  BY <1>15, <1>16
<1> QED BY <1>10, <1>11, <1>12, <1>13, <1>14, <1>17 DEF ThreadInv

(* move, assignment and swap: threads change their objects. *)
LEMMA ExchangeInv ==
  ASSUME ThreadInv, NEW t \in Threads, code[t] # <<>>, ended = "no",
         Instr(t).op \in {"move", "assign", "swap"},
         Instr(t).op \in {"move", "assign"} => Held(t) = Empty,
         handle' = [handle EXCEPT ![Instr(t).handle] = handle[Instr(t).from],
                                  ![Instr(t).from] = Held(t)],
         Continue(t), UNCHANGED <<program, input, started, released, dead, faults, ended>>
  PROVE  ThreadInv'
<1> DEFINE c == Instr(t)
           h == Instr(t).handle
           f == Instr(t).from
<1>0. PICK w, y, st2, exc \in Statuses :
        /\ Meets(t, w) /\ y = After(c, w)
        /\ Fine(program, t, c, w, Strict)
        /\ Runs(program, t, Rest(t), y, st2, exc, Strict)
        /\ Settled(program, t, st2) /\ Settled(program, t, exc)
  BY NextInstruction DEF ThreadInv
<1>2. /\ h \in HandlesOf(program, t) /\ h \in Handles /\ h \in Objects /\ h # Locals
      /\ f \in HandlesOf(program, t) /\ f \in Handles /\ f \in Objects /\ f # Locals
  <2>1. h \in HandlesOf(program, t) /\ f \in HandlesOf(program, t)
    BY <1>0 DEF Fine, HandleOps
  <2> QED BY <2>1, ObjectsOf
<1>3. PICK x \in Statuses : Meets(t, x) /\ y = [x EXCEPT ![h] = x[f], ![f] = x[h]]
  <2>1. CASE c.op \in {"move", "assign"}
    <3> DEFINE x == [w EXCEPT ![h] = "empty"]
    <3>1. y = [w EXCEPT ![h] = w[f], ![f] = "empty"] /\ handle[h] = Empty
      BY <1>0, <2>1 DEF After, Held
    <3> HIDE DEF c, h, f
    <3>2. /\ x \in Statuses /\ x[h] = "empty"
          /\ \A o \in Objects \ {h} : x[o] = w[o]
      BY <1>2 DEF Statuses
    <3>3. y = [x EXCEPT ![h] = x[f], ![f] = x[h]]
      BY <1>2, <3>1, <3>2 DEF Statuses
    <3> HIDE DEF x
    <3>4. Meets(t, x)
      BY <1>0, <1>2, <3>1, <3>2, ObjectsOf DEF Meets
    <3> QED BY <3>2, <3>3, <3>4
  <2>2. CASE c.op = "swap"
    BY <1>0, <2>2 DEF After
  <2> QED BY <2>1, <2>2
<1>1. /\ Meets(t, x)
      /\ Runs(program, t, Rest(t), y, st2, exc, Strict)
      /\ Settled(program, t, st2) /\ Settled(program, t, exc)
  BY <1>0, <1>3
<1>4. /\ handle \in [Handles -> 0 .. started] /\ released \subseteq 1 .. started
  BY DEF ThreadInv, Typing
<1>5. /\ code' = [u \in Threads |-> code'[u]]
      /\ code'[t] = Rest(t)
      /\ \A u \in Threads \ {t} : code'[u] = code[u]
  BY CodeFunction DEF ThreadInv, Continue, Become
<1>6. Strict' = Strict
  BY DEF Strict
<1>7. \A g \in Handles : handle'[g] = IF g = f THEN handle[h]
                                      ELSE IF g = h THEN handle[f] ELSE handle[g]
  BY <1>2, <1>4 DEF Held
<1>8. \A n \in Workers : code[n] = <<>> => code'[n] = <<>>
  BY <1>5, MainIsNoWorker
<1>9. released \subseteq Workers
  BY <1>4, ThreadProgramsAssumption DEF Workers, ThreadInv, Typing
<1> HIDE DEF c, h, f
<1>10. Typing'
  <2>1. handle' \in [Handles -> 0 .. started]
    BY <1>2, <1>4 DEF Held, h, f
  <2> QED BY <1>5, <2>1 DEF ThreadInv, Typing
<1>11. Owned'
  <2>1. \A g, k \in Handles : handle'[g] = handle'[k] /\ handle'[g] # Empty => g = k
    BY <1>2, <1>7 DEF ThreadInv, Owned
  <2>2. ASSUME NEW g \in Handles PROVE handle'[g] \notin released'
    <3>1. \E k \in Handles : handle'[g] = handle[k]
      BY <1>2, <1>7
    <3> QED BY <3>1 DEF ThreadInv, Owned
  <2>3. ASSUME NEW n \in 1 .. started' \ released' PROVE \E g \in Handles : handle'[g] = n
    <3>1. PICK g \in Handles : handle[g] = n
      BY DEF ThreadInv, Owned
    <3> QED BY <1>2, <1>7, <3>1
  <2> QED BY <2>1, <2>2, <2>3 DEF Owned
<1>12. Unstarted' /\ Joined' /\ Outlived' /\ GuardsNeverTerminate'
  BY <1>8, <1>9 DEF ThreadInv, Unstarted, Joined, Outlived, GuardsNeverTerminate
<1>13. CodeFine(t)'
  <2>1. /\ y[Locals] = x[Locals]
        /\ \A g \in HandlesOf(program, t) :
             y[g] = IF g = f THEN x[h] ELSE IF g = h THEN x[f] ELSE x[g]
    BY <1>2, <1>3, ObjectsOf DEF Statuses
  <2>2. \A g \in HandlesOf(program, t) :
          handle'[g] = IF g = f THEN handle[h] ELSE IF g = h THEN handle[f] ELSE handle[g]
    BY <1>7, ObjectsOf
  <2>3. ASSUME NEW g \in HandlesOf(program, t)
        PROVE  \E k \in HandlesOf(program, t) : y[g] = x[k] /\ handle'[g] = handle[k]
    <3>1. CASE g = f
      BY <3>1, <1>2, <2>1, <2>2
    <3>2. CASE g # f /\ g = h
      BY <3>2, <1>2, <2>1, <2>2
    <3>3. CASE g # f /\ g # h
      BY <3>3, <1>2, <2>1, <2>2
    <3> QED BY <3>1, <3>2, <3>3
  <2>4. Meets(t, y)'
    <3>1. ASSUME NEW g \in HandlesOf(program, t)
          PROVE  /\ y[g] = "empty" => handle'[g] = Empty
                 /\ y[g] = "held" => handle'[g] # Empty
      <4>1. PICK k \in HandlesOf(program, t) : y[g] = x[k] /\ handle'[g] = handle[k]
        BY <2>3
      <4> QED BY <4>1, <1>1 DEF Meets
    <3>2. t = main /\ y[Locals] = "held" => dead' = {}
      BY <1>1, <2>1 DEF Meets
    <3> QED BY <3>1, <3>2 DEF Meets
  <2>5. Runs(program, t, code'[t], y, st2, exc, Strict')
    BY <1>1, <1>5, <1>6
  <2> QED BY <1>1, <2>4, <2>5, ThisFine
<1>14. ASSUME NEW u \in Threads \ {t} PROVE CodeFine(u)'
  <2>1. \A g \in HandlesOf(program, u) : handle'[g] = handle[g]
    BY <1>2, <1>7, ObjectsOf, OwnHandles
  <2> QED BY <1>5, <1>6, <2>1, OthersFine DEF ThreadInv
<1>15. \A u \in Threads : CodeFine(u)'
  BY <1>13, <1>14
<1> QED BY <1>10, <1>11, <1>12, <1>15 DEF ThreadInv

(* A local variable of main dies: main holds no thread, so all have ended. *)
LEMMA LeaveInv ==
  ASSUME ThreadInv, NEW t \in Threads, Leave(t)
  PROVE  ThreadInv'
<1> DEFINE c == Instr(t)
<1>1. /\ code[t] # <<>> /\ ended = "no" /\ c.op = "end_lifetime"
      /\ dead' = dead \cup {c.at} /\ Continue(t)
      /\ UNCHANGED <<program, input, started, released, handle, faults, ended>>
  BY DEF Leave, At, Instr, objects
<1>2. PICK x, y, st2, exc \in Statuses :
        /\ Meets(t, x) /\ y = After(c, x)
        /\ Fine(program, t, c, x, Strict)
        /\ Runs(program, t, Rest(t), y, st2, exc, Strict)
        /\ Settled(program, t, st2) /\ Settled(program, t, exc)
  BY <1>1, NextInstruction DEF ThreadInv
<1>3. /\ t = main /\ program \notin Detaching /\ c.at \in Locations
      /\ \A h \in Handles : x[h] = "empty"
      /\ y = [x EXCEPT ![Locals] = "empty"]
  BY <1>1, <1>2 DEF Fine, Typed, After
<1>4. \A h \in Handles : handle[h] = Empty
  <2>1. HandlesOf(program, t) = Handles
    BY <1>3 DEF HandlesOf, Detaching
  <2> QED BY <1>2, <1>3, <2>1 DEF Meets
<1>5. /\ code' = [u \in Threads |-> code'[u]]
      /\ code'[t] = Rest(t)
      /\ \A u \in Threads \ {t} : code'[u] = code[u]
  BY <1>1, CodeFunction DEF ThreadInv, Continue, Become
<1>6. Strict' = Strict
  BY <1>1 DEF Strict
<1>7. \A n \in Workers : code[n] = <<>> => code'[n] = <<>>
  BY <1>3, <1>5, MainIsNoWorker
<1>8. /\ released \subseteq 1 .. started /\ started \in Nat /\ MaxThreads \in Nat
      /\ released \subseteq Workers
  BY ThreadProgramsAssumption DEF ThreadInv, Typing, Workers
<1> HIDE DEF c
<1>9. Typing'
  BY <1>1, <1>3, <1>5 DEF ThreadInv, Typing
<1>10. Owned' /\ GuardsNeverTerminate' /\ Unstarted' /\ Joined'
  BY <1>1, <1>7, <1>8 DEF ThreadInv, Owned, GuardsNeverTerminate, Unstarted, Joined
<1>11. Outlived'
  <2>1. ASSUME program # "oops", NEW n \in Workers PROVE code[n] = <<>>
    <3>1. CASE n > started
      BY <3>1 DEF ThreadInv, Unstarted
    <3>2. CASE n <= started
      <4>1. n \in 1 .. started /\ n # Empty
        BY <3>2, <1>8 DEF Workers, Empty
      <4>2. n \in released
        BY <4>1, <1>4 DEF ThreadInv, Owned
      <4> QED BY <4>2, <2>1, <1>3 DEF ThreadInv, Joined
    <3> QED BY <3>1, <3>2, <1>8 DEF Workers
  <2> QED BY <2>1, <1>1, <1>3, <1>7 DEF Outlived
<1>12. CodeFine(t)'
  <2>1. /\ y[Locals] = "empty"
        /\ \A g \in HandlesOf(program, t) : y[g] = x[g]
    BY <1>3, ObjectsOf DEF Statuses
  <2>2. Meets(t, y)'
    BY <1>1, <1>2, <2>1 DEF Meets
  <2>3. Runs(program, t, code'[t], y, st2, exc, Strict')
    BY <1>2, <1>5, <1>6
  <2> QED BY <1>1, <1>2, <2>2, <2>3, ThisFine
<1>13. ASSUME NEW u \in Threads \ {t} PROVE CodeFine(u)'
  BY <1>1, <1>3, <1>5, <1>6, OthersFine DEF ThreadInv
<1>14. \A u \in Threads : CodeFine(u)'
  BY <1>12, <1>13
<1> QED BY <1>9, <1>10, <1>11, <1>14 DEF ThreadInv

-----------------------------------------------------------------------------
(* The other steps, and the theorems *)

(* The program ends. *)
LEMMA EndInv ==
  ASSUME ThreadInv, ended' \in {"terminate", "undefined", "assertion_failed"},
         ended' = "terminate" =>
           ~ Strict \/ (program = "auto_joining" /\ Instr(main).op = "assign"),
         UNCHANGED <<program, input, objects, code, dead, faults>>
  PROVE  ThreadInv'
<1>1. Typing' /\ Owned' /\ Unstarted' /\ Joined' /\ Outlived'
  BY DEF ThreadInv, Typing, Owned, Unstarted, Joined, Outlived, objects
<1>2. GuardsNeverTerminate'
  BY DEF GuardsNeverTerminate, Strict, Instr
<1>3. ASSUME NEW u \in Threads PROVE CodeFine(u)'
  <2>1. Strict' => Strict
    BY DEF Strict
  <2>2. handle' = handle
    BY DEF objects
  <2> QED BY <2>1, <2>2, OthersFine DEF ThreadInv
<1> QED BY <1>1, <1>2, <1>3 DEF ThreadInv

(* std::terminate is called only when no guard was there to prevent it, or *)
(* by an assignment to what as_thread() hands out.                         *)
LEMMA TerminateInv ==
  ASSUME ThreadInv, NEW t \in Threads, TerminateProgram(t)
  PROVE  ThreadInv'
<1>1. /\ code[t] # <<>> /\ Instr(t).op \in {"destroy", "move", "assign", "terminate"}
      /\ Instr(t).op \in {"destroy", "move", "assign"} => Held(t) # Empty
      /\ End("terminate")
  BY DEF TerminateProgram, At, Instr
<1>2. PICK x \in Statuses : Meets(t, x) /\ Fine(program, t, Instr(t), x, Strict)
  BY <1>1, NextInstruction DEF ThreadInv
<1>3. ~ Strict \/ (program = "auto_joining" /\ Instr(main).op = "assign")
  <2>1. CASE Instr(t).op = "terminate"
    BY <1>2, <2>1 DEF Fine
  <2>2. CASE Instr(t).op \in {"destroy", "move"}
    <3>1. Instr(t).handle \in HandlesOf(program, t) /\ x[Instr(t).handle] # "empty"
      BY <1>1, <1>2, <2>2 DEF Fine, HandleOps, Meets, Held
    <3> QED BY <1>2, <2>2, <3>1 DEF Fine
  <2>3. CASE Instr(t).op = "assign"
    BY <1>2, <2>3 DEF Fine
  <2> QED BY <1>1, <2>1, <2>2, <2>3
<1> QED BY <1>1, <1>3, EndInv DEF End

(* An editor executes a command: the code that follows runs as well. *)
LEMMA EditInv ==
  ASSUME ThreadInv, NEW t \in Threads, EditDocument(t)
  PROVE  ThreadInv'
<1> DEFINE p == "edit_document"
<1>1. /\ code[t] # <<>> /\ ended = "no" /\ Instr(t).op = "edit"
      /\ UNCHANGED <<program, input, objects, dead, faults, ended>>
  BY DEF EditDocument, At, Instr, OnlyCode
<1>0. PICK body \in {open_new_document(t), process_other_command} :
        code' = [code EXCEPT ![t] = body \o code[t]]
  BY DEF EditDocument, Become
<1>2. PICK x, st2, exc \in Statuses :
        /\ Meets(t, x)
        /\ Fine(program, t, Instr(t), x, Strict)
        /\ Runs(program, t, code[t], x, st2, exc, Strict)
        /\ Settled(program, t, st2) /\ Settled(program, t, exc)
  BY <1>1, NextInstruction DEF ThreadInv
<1>3. program = p /\ x[t] = "empty" /\ (t = main => x[Locals] = "held")
  BY <1>1, <1>2 DEF Fine
<1>4. exc[t] = "empty"
  BY <1>2, <1>3 DEF Settled, HandlesOf
<1> DEFINE e == Unknown(t)
<1>5. e \in Statuses /\ Covers(e, exc) /\ Settled(program, t, e)
  BY <1>3, <1>4, UnknownCovers DEF Settled, HandlesOf
<1> HIDE DEF e
<1>6. Runs(program, t, code[t], x, st2, e, Strict)
  BY <1>2, <1>5, CoversSelf, RunsWeaker
<1>7. Runs(p, t, body, x, x, e, TRUE)
  BY <1>3, EditorRuns DEF e
<1>8. Runs(program, t, body, x, x, e, Strict)
  BY <1>3, <1>7, RunsLoose
<1>9. Runs(program, t, body \o code[t], x, st2, e, Strict)
  BY <1>6, <1>8, RunsConcat
<1>10. /\ code' = [u \in Threads |-> code'[u]]
       /\ code'[t] = body \o code[t]
       /\ \A u \in Threads \ {t} : code'[u] = code[u]
  BY <1>0, CodeFunction DEF ThreadInv
<1>11. Strict' = Strict
  BY <1>1 DEF Strict
<1>12. CodeFine(t)'
  <2>1. Runs(program, t, code'[t], x, st2, e, Strict')
    BY <1>9, <1>10, <1>11
  <2>2. Meets(t, x)'
    BY <1>1, <1>2 DEF Meets, objects
  <2> QED BY <1>1, <1>2, <1>5, <2>1, <2>2, ThisFine
<1>13. faults' \subseteq {"start", "not_joinable", "work", "spurious"}
  BY <1>1 DEF ThreadInv, Typing
<1> QED BY <1>1, <1>10, <1>12, <1>13, CodeOnly

(* The client of AutoJoiningThread calls a member function. *)
LEMMA CallInv ==
  ASSUME ThreadInv, NEW h \in {1, 2}, NEW g \in {1, 2}, CallAutoJoining(h, g)
  PROVE  ThreadInv'
<1> DEFINE p == "auto_joining"
<1>1. /\ program = p /\ ended = "no" /\ code[main] = <<>>
      /\ UNCHANGED <<program, input, objects, dead, faults, ended>>
  BY DEF CallAutoJoining, OnlyCode
<1>2. PICK body \in Members(h, g) \cup (IF handle[h] = Empty THEN Constructors(h, g) ELSE {}) :
        code' = [code EXCEPT ![main] = body]
  BY DEF CallAutoJoining, Become
<1>3. /\ Client \in Statuses /\ Client[Locals] = "held" /\ Client[3] = "empty"
      /\ Settled(p, main, Client) /\ main \in Threads /\ p \in Guarded /\ p \in Detaching
  BY ClientStatuses
<1>4. dead = {}
  BY <1>1, <1>3 DEF ThreadInv, Outlived
<1>5. handle[3] = Empty
  <2>1. PICK st, st2, exc \in Statuses :
          /\ Runs(program, main, <<>>, st, st2, exc, Strict)
          /\ Meets(main, st)
          /\ Settled(program, main, st2) /\ Settled(program, main, exc)
    BY <1>1, <1>3 DEF ThreadInv, CodeFine
  <2>2. Covers(st2, st) /\ st2[3] = "empty"
    BY <1>1, <2>1, RunsEmpty DEF Settled
  <2>3. 3 \in Objects /\ 3 \in HandlesOf(program, main)
    BY <1>1, ThreeHandles, ClientStatuses DEF Objects
  <2>4. st[3] = "empty"
    BY <2>2, <2>3 DEF Covers
  <2> QED BY <2>1, <2>3, <2>4 DEF Meets
<1>6. \A k \in Handles : Client[k] = IF k = 3 THEN "empty" ELSE "any"
  BY ThreeHandles DEF Client, Objects
<1>7. HandlesOf(program, main) = Handles
  BY <1>1 DEF HandlesOf
<1>8. \E st \in Statuses : Runs(p, main, body, st, Client, Client, TRUE) /\ Meets(main, st)
  <2>1. CASE body \in Members(h, g)
    <3>1. Meets(main, Client)
      BY <1>4, <1>5, <1>6, <1>7 DEF Meets
    <3> QED BY <1>3, <2>1, <3>1, AutoJoiningMembers
  <2>2. CASE body \in Constructors(h, g) /\ handle[h] = Empty
    <3> DEFINE st == [Client EXCEPT ![h] = "empty"]
    <3>1. h \in Objects /\ h # Locals /\ h \in Handles
      BY ClientStatuses, ThreeHandles
    <3>2. st \in Statuses
      BY <1>3, <3>1 DEF Statuses
    <3>3. \A k \in Handles : st[k] = IF k \in {h, 3} THEN "empty" ELSE "any"
      BY <1>3, <1>6, <3>1, ClientStatuses DEF Statuses
    <3>4. Runs(p, main, body, st, Client, Client, TRUE)
      BY <2>2, AutoJoiningConstructors
    <3> HIDE DEF st
    <3>5. Meets(main, st)
      BY <1>4, <1>5, <1>7, <2>2, <3>3 DEF Meets
    <3> QED BY <3>2, <3>4, <3>5
  <2> QED BY <1>2, <2>1, <2>2
<1>9. PICK st \in Statuses : Runs(p, main, body, st, Client, Client, TRUE) /\ Meets(main, st)
  BY <1>8
<1>10. /\ code' = [u \in Threads |-> code'[u]]
       /\ code'[main] = body
       /\ \A u \in Threads \ {main} : code'[u] = code[u]
  BY <1>2, <1>3, CodeFunction DEF ThreadInv
<1>11. Strict' = TRUE
  BY <1>1, <1>3 DEF Strict
<1>12. CodeFine(main)'
  <2>1. Runs(program, main, code'[main], st, Client, Client, Strict')
    BY <1>1, <1>9, <1>10, <1>11
  <2>2. Meets(main, st)'
    BY <1>1, <1>9 DEF Meets, objects
  <2> QED BY <1>1, <1>3, <2>1, <2>2, ThisFine
<1>13. faults' \subseteq {"start", "not_joinable", "work", "spurious"}
  BY <1>1 DEF ThreadInv, Typing
<1> QED BY <1>1, <1>3, <1>10, <1>12, <1>13, CodeOnly

(* Every program starts with safe code. *)
LEMMA InitInv ==
  ASSUME Init
  PROVE  ThreadInv
<1>1. /\ program \in Programs /\ input \in Inputs(program) /\ main \in Threads
      /\ started = 0 /\ released = {} /\ handle = [h \in Handles |-> Empty]
      /\ code = [t \in Threads |-> IF t = main THEN Code(program, input) ELSE <<>>]
      /\ dead = {} /\ faults = {} /\ ended = "no"
  BY MainIsNoWorker DEF Init
<1>2. \A h \in Handles : handle[h] = Empty
  BY <1>1
<1>3. Typing
  BY <1>1, ThreadProgramsAssumption DEF Typing, Empty
<1>4. Owned
  BY <1>1, <1>2 DEF Owned
<1>5. \A n \in Workers : code[n] = <<>>
  BY <1>1, MainIsNoWorker
<1>6. Unstarted /\ Joined /\ Outlived /\ GuardsNeverTerminate
  BY <1>1, <1>5 DEF Unstarted, Joined, Outlived, GuardsNeverTerminate
<1>7. Strict = TRUE
  BY <1>1 DEF Strict
<1>8. CodeFine(main)
  <2>1. Fresh \in Statuses
    BY HoldsTypes DEF Fresh
  <2>2. Safe(program, main, code[main], Fresh, Strict)
    BY <1>1, <1>7, ProgramsSafe
  <2>3. Meets(main, Fresh)
    <3>1. \A h \in HandlesOf(program, main) : Fresh[h] = "empty" /\ handle[h] = Empty
      BY <1>1, <1>2, ObjectsOf DEF Fresh, Holds
    <3> QED BY <1>1, <3>1 DEF Meets
  <2> QED BY <2>1, <2>2, <2>3 DEF Safe, CodeFine
<1>9. ASSUME NEW u \in Workers PROVE CodeFine(u)
  <2>1. u \in Threads /\ code[u] = <<>> /\ u # main
    BY <1>5, MainIsNoWorker
  <2>2. AllEmpty \in Statuses /\ Covers(AllEmpty, AllEmpty)
    BY CoversSelf DEF AllEmpty, Statuses
  <2>3. Runs(program, u, code[u], AllEmpty, AllEmpty, AllEmpty, Strict)
    BY <2>1, <2>2, RunsNone
  <2>4. \A h \in HandlesOf(program, u) : AllEmpty[h] = "empty" /\ handle[h] = Empty
    BY <1>2, <2>1, ObjectsOf DEF AllEmpty
  <2>5. Meets(u, AllEmpty) /\ Settled(program, u, AllEmpty)
    BY <2>1, <2>4 DEF Meets, Settled
  <2> QED BY <2>2, <2>3, <2>5 DEF CodeFine
<1> QED BY <1>3, <1>4, <1>6, <1>8, <1>9 DEF ThreadInv, Threads

(* What changes nothing but the memory. *)
LEMMA MemoryInv ==
  ASSUME ThreadInv, UNCHANGED <<program, input, objects, code, dead, faults, ended>>
  PROVE  ThreadInv'
<1>1. Typing' /\ Owned' /\ Unstarted' /\ Joined' /\ Outlived'
  BY DEF ThreadInv, Typing, Owned, Unstarted, Joined, Outlived, objects
<1>3. GuardsNeverTerminate'
  BY DEF ThreadInv, GuardsNeverTerminate, Instr
<1>2. ASSUME NEW u \in Threads PROVE CodeFine(u)'
  <2>1. Strict' => Strict
    BY DEF Strict
  <2>2. handle' = handle
    BY DEF objects
  <2> QED BY <2>1, <2>2, OthersFine DEF ThreadInv
<1> QED BY <1>1, <1>2, <1>3 DEF ThreadInv

(* An instruction without std::thread objects. *)
LEMMA AtomicInv ==
  ASSUME ThreadInv, NEW t \in Threads, code[t] # <<>>, ended = "no",
         UNCHANGED <<program, input, objects, dead, ended>>,
         faults' \in {faults, faults \cup {"spurious"}},
         Instr(t).op \in {"access", "store", "load", "await", "read_modify_write", "spin",
                          "exchange", "exchange_loop", "assert", "undefined", "work", "risk"},
         Continue(t)
  PROVE  ThreadInv'
<1>1. /\ faults \subseteq faults'
      /\ faults' \subseteq {"start", "not_joinable", "work", "spurious"}
      /\ faults' \cap {"start", "work"} = faults \cap {"start", "work"}
  BY DEF ThreadInv, Typing
<1> QED BY <1>1, GoOn

(* The steps that read or write memory. *)
LEMMA MemoryStepsInv ==
  ASSUME ThreadInv, NEW t \in Threads,
         \/ AccessData(t) \/ StoreAtomic(t) \/ LoadAtomic(t) \/ AwaitValue(t)
         \/ ReadModifyWrite(t) \/ SpinOnFlag(t) \/ CompareExchange(t) \/ ExchangeInLoop(t)
  PROVE  ThreadInv'
<1>1. CASE AccessData(t)
  <2>1. code[t] # <<>> /\ ended = "no" /\ Instr(t).op = "access" /\ Continue(t)
        /\ UNCHANGED <<program, input, objects, dead, faults, ended>>
    BY <1>1 DEF AccessData, At, Instr, MemoryStep
  <2> QED BY <2>1, AtomicInv
<1>2. CASE StoreAtomic(t)
  <2>1. code[t] # <<>> /\ ended = "no" /\ Instr(t).op = "store" /\ Continue(t)
        /\ UNCHANGED <<program, input, objects, dead, faults, ended>>
    BY <1>2 DEF StoreAtomic, At, Instr, MemoryStep
  <2> QED BY <2>1, AtomicInv
<1>3. CASE LoadAtomic(t)
  <2>1. code[t] # <<>> /\ ended = "no" /\ Instr(t).op = "load" /\ Continue(t)
        /\ UNCHANGED <<program, input, objects, dead, faults, ended>>
    BY <1>3 DEF LoadAtomic, At, Instr, MemoryStep
  <2> QED BY <2>1, AtomicInv
<1>4. CASE AwaitValue(t)
  <2>1. code[t] # <<>> /\ ended = "no" /\ Instr(t).op = "await"
        /\ (Continue(t) \/ UNCHANGED code)
        /\ UNCHANGED <<program, input, objects, dead, faults, ended>>
    BY <1>4 DEF AwaitValue, At, Instr, MemoryStep
  <2> QED BY <2>1, AtomicInv, MemoryInv
<1>5. CASE ReadModifyWrite(t)
  <2>1. code[t] # <<>> /\ ended = "no" /\ Instr(t).op = "read_modify_write" /\ Continue(t)
        /\ UNCHANGED <<program, input, objects, dead, faults, ended>>
    BY <1>5 DEF ReadModifyWrite, At, Instr, MemoryStep
  <2> QED BY <2>1, AtomicInv
<1>6. CASE SpinOnFlag(t)
  <2>1. code[t] # <<>> /\ ended = "no" /\ Instr(t).op = "spin"
        /\ (Continue(t) \/ UNCHANGED code)
        /\ UNCHANGED <<program, input, objects, dead, faults, ended>>
    BY <1>6 DEF SpinOnFlag, At, Instr, MemoryStep
  <2> QED BY <2>1, AtomicInv, MemoryInv
<1>7. CASE CompareExchange(t)
  <2>1. code[t] # <<>> /\ ended = "no" /\ Instr(t).op = "exchange" /\ Continue(t)
        /\ UNCHANGED <<program, input, objects, dead, ended>>
        /\ faults' \in {faults, faults \cup {"spurious"}}
    BY <1>7 DEF CompareExchange, At, Instr
  <2> QED BY <2>1, AtomicInv
<1>8. CASE ExchangeInLoop(t)
  <2>1. code[t] # <<>> /\ ended = "no" /\ Instr(t).op = "exchange_loop"
        /\ (Continue(t) \/ UNCHANGED code)
        /\ UNCHANGED <<program, input, objects, dead, faults, ended>>
    BY <1>8 DEF ExchangeInLoop, At, Instr, MemoryStep
  <2> QED BY <2>1, AtomicInv, MemoryInv
<1> QED BY <1>1, <1>2, <1>3, <1>4, <1>5, <1>6, <1>7, <1>8

(* Every step of a thread. *)
LEMMA StepInv ==
  ASSUME ThreadInv, NEW t \in Threads, Step(t)
  PROVE  ThreadInv'
<1>1. CASE StartThread(t)
  BY <1>1, StartInv
<1>2. CASE StartThrows(t)
  <2>1. code[t] # <<>> /\ ended = "no" /\ Instr(t).op = "start" /\ Raise(t, "start")
    BY <1>2 DEF StartThrows, At, Instr
  <2> QED BY <2>1, RaiseInv DEF Throwing
<1>3. CASE JoinThread(t)
  <2>1. /\ code[t] # <<>> /\ ended = "no" /\ Instr(t).op \in {"join", "join_if_joinable"}
        /\ Held(t) # Empty /\ code[Held(t)] = <<>>
        /\ released' = released \cup {Held(t)}
        /\ handle' = [handle EXCEPT ![Instr(t).handle] = Empty]
        /\ Continue(t) /\ UNCHANGED <<program, input, started, dead, faults, ended>>
    BY <1>3 DEF JoinThread, At, Instr
  <2> QED BY <2>1, ReleaseInv
<1>4. CASE DetachThread(t)
  <2>1. /\ code[t] # <<>> /\ ended = "no" /\ Instr(t).op = "detach"
        /\ Held(t) # Empty
        /\ released' = released \cup {Held(t)}
        /\ handle' = [handle EXCEPT ![Instr(t).handle] = Empty]
        /\ Continue(t) /\ UNCHANGED <<program, input, started, dead, faults, ended>>
    BY <1>4 DEF DetachThread, At, Instr
  <2> QED BY <2>1, ReleaseInv
<1>5. CASE NotJoinableThrows(t)
  <2>1. /\ code[t] # <<>> /\ ended = "no" /\ Instr(t).op \in {"join", "detach", "throw_if_empty"}
        /\ Held(t) = Empty /\ Raise(t, "not_joinable")
    BY <1>5 DEF NotJoinableThrows, At, Instr
  <2> QED BY <2>1, RaiseInv DEF Throwing
<1>6. CASE MoveThread(t)
  <2>1. /\ code[t] # <<>> /\ ended = "no" /\ Instr(t).op \in {"move", "assign"}
        /\ Held(t) = Empty
        /\ handle' = [handle EXCEPT ![Instr(t).handle] = handle[Instr(t).from],
                                    ![Instr(t).from] = Held(t)]
        /\ Continue(t) /\ UNCHANGED <<program, input, started, released, dead, faults, ended>>
    BY <1>6 DEF MoveThread, At, Instr
  <2> QED BY <2>1, ExchangeInv
<1>7. CASE SwapThreads(t)
  <2>1. /\ code[t] # <<>> /\ ended = "no" /\ Instr(t).op = "swap"
        /\ handle' = [handle EXCEPT ![Instr(t).handle] = handle[Instr(t).from],
                                    ![Instr(t).from] = Held(t)]
        /\ Continue(t) /\ UNCHANGED <<program, input, started, released, dead, faults, ended>>
    BY <1>7 DEF SwapThreads, At, Instr
  <2> QED BY <2>1, ExchangeInv
<1>8. CASE TerminateProgram(t)
  BY <1>8, TerminateInv
<1>9. CASE EditDocument(t)
  BY <1>9, EditInv
<1>10. CASE Pass(t)
  <2>1. /\ code[t] # <<>> /\ ended = "no" /\ Continue(t)
        /\ UNCHANGED <<program, input, objects, dead, faults, ended>>
        /\ Instr(t).op \in {"work", "risk", "join_if_joinable", "destroy", "throw_if_empty"}
        /\ Instr(t).op \in {"join_if_joinable", "destroy"} => Held(t) = Empty
        /\ Instr(t).op = "throw_if_empty" => Held(t) # Empty
    BY <1>10 DEF Pass, At, Instr, OnlyCode
  <2>2. faults' \subseteq {"start", "not_joinable", "work", "spurious"}
    BY <2>1 DEF ThreadInv, Typing
  <2>3. faults' \cap {"start", "work"} = faults \cap {"start", "work"}
    BY <2>1
  <2> QED BY <2>1, <2>2, <2>3, GoOn
<1>11. CASE WorkThrows(t)
  <2>1. code[t] # <<>> /\ ended = "no" /\ Instr(t).op = "risk" /\ Raise(t, "work")
    BY <1>11 DEF WorkThrows, At, Instr
  <2> QED BY <2>1, RaiseInv DEF Throwing
<1>12. CASE FlowOffTheEnd(t)
  <2>1. /\ code[t] # <<>> /\ ended = "no" /\ Instr(t).op = "undefined"
        /\ \/ End("undefined")
           \/ Continue(t) /\ UNCHANGED <<program, input, objects, dead, faults, ended>>
    BY <1>12 DEF FlowOffTheEnd, At, Instr, OnlyCode
  <2> QED BY <2>1, AtomicInv, EndInv DEF End
<1>13. CASE Leave(t)
  BY <1>13, LeaveInv
<1>14. CASE CheckAssertion(t)
  <2>1. /\ code[t] # <<>> /\ ended = "no" /\ Instr(t).op = "assert"
        /\ \/ End("assertion_failed")
           \/ Continue(t) /\ UNCHANGED <<program, input, objects, dead, faults, ended>>
    BY <1>14 DEF CheckAssertion, At, Instr, OnlyCode
  <2> QED BY <2>1, AtomicInv, EndInv DEF End
<1> QED
  BY <1>1, <1>2, <1>3, <1>4, <1>5, <1>6, <1>7, <1>8, <1>9, <1>10, <1>11, <1>12, <1>13, <1>14,
     MemoryStepsInv DEF Step

(* What every thread has left to execute is safe, in every reachable       *)
(* state: each instruction about a std::thread object finds it as the code *)
(* that precedes it has left it.                                           *)
THEOREM ThreadInvariant == Spec => []ThreadInv
<1>1. Init => ThreadInv
  BY InitInv
<1>2. ThreadInv /\ [Next]_vars => ThreadInv'
  <2>1. ASSUME ThreadInv, NEW t \in Threads, Step(t) PROVE ThreadInv'
    BY <2>1, StepInv
  <2>2. ASSUME ThreadInv, NEW h \in {1, 2}, NEW g \in {1, 2}, CallAutoJoining(h, g)
        PROVE  ThreadInv'
    BY <2>2, CallInv
  <2>3. ASSUME ThreadInv, UNCHANGED vars PROVE ThreadInv'
    <3>1. UNCHANGED <<program, input, objects, code, dead, faults, ended>>
      BY <2>3 DEF vars
    <3> QED BY <2>3, <3>1, MemoryInv
  <2> QED BY <2>1, <2>2, <2>3 DEF Next
<1> QED BY <1>1, <1>2, PTL DEF Spec

(* Through every sequence of moves, assignments, swaps, joins, detaches    *)
(* and exceptions of the guards and of AutoJoiningThread, a thread belongs *)
(* to exactly one std::thread object until it is joined or detached, and   *)
(* to none afterwards.                                                     *)
THEOREM OneOwnerTheorem == Spec => []OneOwner
<1>1. ThreadInv => OneOwner
  <2> SUFFICES ASSUME ThreadInv, NEW n \in 1 .. started
               PROVE  Cardinality({h \in Handles : handle[h] = n}) = IF n \in released THEN 0 ELSE 1
    BY DEF OneOwner
  <2> DEFINE S == {h \in Handles : handle[h] = n}
  <2>1. n # Empty
    BY DEF Empty, ThreadInv, Typing
  <2>2. CASE n \in released
    <3>1. S = {}
      BY <2>2 DEF ThreadInv, Owned
    <3> QED BY <2>2, <3>1, FS_EmptySet
  <2>3. CASE n \notin released
    <3>1. PICK h \in Handles : handle[h] = n
      BY <2>3 DEF ThreadInv, Owned
    <3>2. S = {h}
      BY <2>1, <3>1 DEF ThreadInv, Owned
    <3> HIDE DEF S
    <3>3. Cardinality(S) = 1
      BY <3>2, FS_Singleton
    <3> QED BY <2>3, <3>3 DEF S
  <2> QED BY <2>2, <2>3
<1> QED BY <1>1, ThreadInvariant, PTL

(* No path through better_oops, ThreadGuard, ScopedThreadGuard and         *)
(* AutoJoiningThread destroys or overwrites a joinable std::thread, unless *)
(* a client assigns to the one that as_thread() hands out; in the other    *)
(* programs only a thread that could not be started, or an exception of a  *)
(* stub, leads to std::terminate.                                          *)
THEOREM GuardsNeverTerminateTheorem == Spec => []GuardsNeverTerminate
<1>1. ThreadInv => GuardsNeverTerminate
  BY DEF ThreadInv
<1> QED BY <1>1, ThreadInvariant, PTL

(* No thread uses someLocalState or a result of parallel_accumulate after  *)
(* its lifetime, except the thread that oops detaches.                     *)
THEOREM LocalsOutliveUseTheorem == Spec => []LocalsOutliveUse
<1>1. ThreadInv => LocalsOutliveUse
  <2> SUFFICES ASSUME ThreadInv, NEW t \in Threads, At(t, "access"), Instr(t).at \in dead,
                      program # "oops"
               PROVE  FALSE
    BY DEF LocalsOutliveUse
  <2>1. code[t] # <<>> /\ Instr(t).op = "access" /\ dead # {}
    BY DEF At, Instr
  <2>2. CASE t = main
    <3>1. PICK x \in Statuses : Meets(t, x) /\ Fine(program, t, Instr(t), x, Strict)
      BY <2>1, NextInstruction DEF ThreadInv
    <3> QED BY <2>1, <2>2, <3>1 DEF Meets, Fine
  <2>3. CASE t # main
    BY <2>1, <2>3 DEF ThreadInv, Outlived, Threads
  <2> QED BY <2>2, <2>3
<1> QED BY <1>1, ThreadInvariant, PTL

-----------------------------------------------------------------------------
(* The memory *)

(* Places in a history. *)
Positive == Nat \ {0}
(* How much of each history a thread or a message knows. *)
Views    == [Locations -> Positive]
(* The heads of release sequences: who released, and what it knew then. *)
Heads    == [by : Threads, view : Views]
(* The writes to a location. *)
Messages == [val : Int, heads : SUBSET Heads]
(* The local variables of a thread. *)
Registers == [Fields -> Int]

(* v goes no further than the histories do. *)
Known(v, mem) == \A l \in Locations : v[l] <= Len(mem[l])

(* Every location has been written, and nobody, the heads of the release   *)
(* sequences included, knows of a write that has not been made.            *)
MemoryTyping ==
  /\ reg \in [Threads -> Registers]
  /\ memory \in [Locations -> Seq(Messages)]
  /\ \A l \in Locations : Len(memory[l]) >= 1
  /\ view \in [Threads -> Views]
  /\ \A t \in Threads : Known(view[t], memory)
  /\ \A l \in Locations : \A i \in 1 .. Len(memory[l]) :
       \A h \in memory[l][i].heads : Known(h.view, memory)

(* A bounded set of places has a greatest one. *)
LEMMA GreatestOfBounded ==
  ASSUME NEW S, S \subseteq Positive, S # {}, NEW n \in Nat, \A x \in S : x <= n
  PROVE  Max(S) \in S /\ \A x \in S : x <= Max(S)
<1> DEFINE N == {n - x : x \in S}
<1>1. N \subseteq Nat /\ N # {}
  <2>1. PICK x : x \in S
    OBVIOUS
  <2>2. n - x \in N
    BY <2>1
  <2>3. ASSUME NEW y \in S PROVE n - y \in Nat
    BY DEF Positive
  <2> QED BY <2>2, <2>3
<1>2. PICK m \in N : \A y \in N : m <= y
  BY <1>1, LeastOfNaturals
<1>3. PICK x \in S : m = n - x
  BY <1>2
<1>4. ASSUME NEW y \in S PROVE x >= y
  <2>1. n - x <= n - y
    BY <1>2, <1>3
  <2> QED BY <2>1 DEF Positive
<1>5. \E z \in S : \A y \in S : z >= y
  BY <1>4
<1>6. Max(S) \in S /\ \A y \in S : Max(S) >= y
  BY <1>5 DEF Max
<1> QED BY <1>6 DEF Positive

(* Joined views are a view, know what each of them knows, and no more than *)
(* was written.                                                            *)
LEMMA JoinViewsType ==
  ASSUME NEW v \in Views, NEW W \in SUBSET Views, NEW mem, \A l \in Locations : Len(mem[l]) \in Nat,
         Known(v, mem), \A w \in W : Known(w, mem)
  PROVE  /\ JoinViews(v, W) \in Views /\ Known(JoinViews(v, W), mem)
         /\ \A l \in Locations :
              /\ v[l] <= JoinViews(v, W)[l]
              /\ \A w \in W : w[l] <= JoinViews(v, W)[l]
<1> DEFINE J == JoinViews(v, W)
           S(l) == {v[l]} \cup {w[l] : w \in W}
<1>1. ASSUME NEW l \in Locations
      PROVE  Max(S(l)) \in S(l) /\ \A x \in S(l) : x <= Max(S(l))
  <2>1. S(l) \subseteq Positive /\ S(l) # {}
    BY DEF Views
  <2>2. \A x \in S(l) : x <= Len(mem[l])
    BY DEF Known
  <2> HIDE DEF S
  <2> QED BY <2>1, <2>2, GreatestOfBounded
<1>2. J = [l \in Locations |-> Max(S(l))]
  BY DEF JoinViews, Views
<1>3. ASSUME NEW l \in Locations
      PROVE  /\ J[l] \in Positive /\ J[l] <= Len(mem[l])
             /\ v[l] <= J[l] /\ \A w \in W : w[l] <= J[l]
  <2>1. J[l] \in S(l) /\ \A x \in S(l) : x <= J[l]
    BY <1>1, <1>2
  <2>2. S(l) \subseteq Positive /\ \A x \in S(l) : x <= Len(mem[l])
    BY DEF Views, Known
  <2> HIDE DEF J
  <2> QED BY <2>1, <2>2
<1> HIDE DEF S
<1>4. J \in [Locations -> Positive]
  BY <1>2, <1>3
<1> HIDE DEF J
<1> QED BY <1>3, <1>4 DEF Views, Known, J

(* A message appended to one history: what it is there, and what stays as  *)
(* it was.                                                                 *)
LEMMA AppendedMessage ==
  ASSUME MemoryTyping, NEW x \in Locations, NEW m \in Messages,
         memory' = [memory EXCEPT ![x] = Append(@, m)]
  PROVE  /\ memory' \in [Locations -> Seq(Messages)]
         /\ Len(memory[x]) \in Positive /\ Len(memory'[x]) = Len(memory[x]) + 1
         /\ memory'[x][Len(memory[x]) + 1] = m
         /\ \A i \in 1 .. Len(memory[x]) : memory'[x][i] = memory[x][i]
         /\ \A l \in Locations \ {x} : memory'[l] = memory[l]
         /\ \A l \in Locations : Len(memory'[l]) \in Positive /\ Len(memory[l]) <= Len(memory'[l])
         /\ \A v \in Views : Known(v, memory) => Known(v, memory')
<1>1. /\ memory \in [Locations -> Seq(Messages)]
      /\ \A l \in Locations : Len(memory[l]) >= 1
  BY DEF MemoryTyping
<1>2. memory[x] \in Seq(Messages) /\ memory'[x] = Append(memory[x], m)
      /\ \A l \in Locations \ {x} : memory'[l] = memory[l]
  BY <1>1
<1>3. /\ Len(memory'[x]) = Len(memory[x]) + 1
      /\ memory'[x][Len(memory[x]) + 1] = m
      /\ \A i \in 1 .. Len(memory[x]) : memory'[x][i] = memory[x][i]
      /\ Append(memory[x], m) \in Seq(Messages)
  BY <1>2
<1>4. memory' \in [Locations -> Seq(Messages)]
  BY <1>1, <1>2, <1>3
<1>5. \A l \in Locations : Len(memory[l]) \in Nat
  BY <1>1
<1>6. \A l \in Locations : Len(memory'[l]) \in Positive /\ Len(memory[l]) <= Len(memory'[l])
  BY <1>1, <1>2, <1>3, <1>5 DEF Positive
<1>7. ASSUME NEW v \in Views, Known(v, memory) PROVE Known(v, memory')
  BY <1>5, <1>6, <1>7 DEF Known, Views, Positive
<1>8. Len(memory[x]) \in Positive
  BY <1>1, <1>5 DEF Positive
<1> QED BY <1>2, <1>3, <1>4, <1>6, <1>7, <1>8

(* A step that appends a message whose heads, and whose writer, know only  *)
(* what was written.                                                       *)
LEMMA WriteTyping ==
  ASSUME MemoryTyping, NEW t \in Threads, NEW x \in Locations, NEW m \in Messages,
         NEW w \in Views, Known(w, memory'), \A h \in m.heads : Known(h.view, memory'),
         memory' = [memory EXCEPT ![x] = Append(@, m)], view' = [view EXCEPT ![t] = w],
         reg' \in [Threads -> Registers]
  PROVE  MemoryTyping'
<1>1. /\ memory \in [Locations -> Seq(Messages)]
      /\ view \in [Threads -> Views]
      /\ \A u \in Threads : Known(view[u], memory)
      /\ \A l \in Locations : \A i \in 1 .. Len(memory[l]) :
           \A h \in memory[l][i].heads : Known(h.view, memory)
  BY DEF MemoryTyping
<1>2. view' \in [Threads -> Views] /\ \A u \in Threads : view'[u] = IF u = t THEN w ELSE view[u]
  BY <1>1
<1>3. \A u \in Threads : Known(view'[u], memory')
  BY <1>1, <1>2, AppendedMessage
<1>4. ASSUME NEW l \in Locations, NEW i \in 1 .. Len(memory'[l]), NEW h \in memory'[l][i].heads
      PROVE  Known(h.view, memory')
  <2>1. CASE l = x /\ i = Len(memory[x]) + 1
    BY <2>1, <1>4, AppendedMessage
  <2>2. CASE ~(l = x /\ i = Len(memory[x]) + 1)
    <3>1. i \in 1 .. Len(memory[l]) /\ memory'[l][i] = memory[l][i]
      BY <2>2, <1>4, AppendedMessage DEF Positive
    <3>2. memory[l][i] \in Messages
      BY <1>1, <3>1
    <3>3. h.view \in Views
      BY <3>1, <3>2 DEF Messages, Heads
    <3> QED BY <1>1, <3>1, <3>3, AppendedMessage
  <2> QED BY <2>1, <2>2
<1>5. memory' \in [Locations -> Seq(Messages)] /\ \A l \in Locations : Len(memory'[l]) \in Positive
  BY AppendedMessage
<1>6. \A l \in Locations : Len(memory'[l]) >= 1
  BY <1>5 DEF Positive
<1> QED BY <1>6, <1>2, <1>3, <1>4, <1>5 DEF MemoryTyping

(* A step that writes nothing, after which one thread knows more. *)
LEMMA ReadTyping ==
  ASSUME MemoryTyping, NEW t \in Threads, NEW w \in Views, Known(w, memory),
         memory' = memory, view' = [view EXCEPT ![t] = w],
         reg' \in [Threads -> Registers]
  PROVE  MemoryTyping'
<1>1. view' \in [Threads -> Views] /\ \A u \in Threads : view'[u] = IF u = t THEN w ELSE view[u]
  BY DEF MemoryTyping
<1> QED BY <1>1 DEF MemoryTyping

(* The parts of a message. *)
LEMMA MessageFacts ==
  ASSUME MemoryTyping, NEW x \in Locations, NEW i \in 1 .. Len(memory[x])
  PROVE  /\ memory[x][i] \in Messages /\ memory[x][i].val \in Int
         /\ memory[x][i].heads \subseteq Heads
         /\ \A h \in memory[x][i].heads : h.view \in Views /\ Known(h.view, memory)
<1>1. memory[x] \in Seq(Messages)
  BY DEF MemoryTyping
<1>2. memory[x][i] \in Messages
  BY <1>1
<1>3. \A h \in memory[x][i].heads : h \in Heads
  BY <1>2 DEF Messages
<1> QED BY <1>2, <1>3 DEF MemoryTyping, Messages, Heads

(* What a thread knows after it has read a message: only what was written, *)
(* at least as much as before, and the message.                            *)
LEMMA ReadView ==
  ASSUME MemoryTyping, NEW t \in Threads, NEW x \in Locations, NEW i \in 1 .. Len(memory[x]),
         NEW order
  PROVE  LET r == AfterRead(view[t], x, i, memory[x][i], order)
         IN  /\ r \in Views /\ Known(r, memory) /\ r[x] >= i
             /\ \A l \in Locations \ {x} : r[l] >= view[t][l]
             /\ \A h \in memory[x][i].heads : Acquires(order) =>
                  \A l \in Locations : r[l] >= h.view[l]
<1> DEFINE v == [view[t] EXCEPT ![x] = i]
           W == IF Acquires(order) THEN {h.view : h \in memory[x][i].heads} ELSE {}
<1>1. /\ view[t] \in Views /\ Known(view[t], memory) /\ i \in Positive
      /\ \A l \in Locations : Len(memory[l]) \in Nat
  BY DEF MemoryTyping, Positive
<1>2. v \in Views /\ v[x] = i /\ \A l \in Locations \ {x} : v[l] = view[t][l]
  BY <1>1 DEF Views
<1>3. Known(v, memory)
  <2> HIDE DEF v
  <2> QED BY <1>1, <1>2 DEF Known
<1>4. W \in SUBSET Views /\ \A w \in W : Known(w, memory)
  BY MessageFacts
<1>5. Acquires(order) => \A h \in memory[x][i].heads : h.view \in W
  OBVIOUS
<1>6. AfterRead(view[t], x, i, memory[x][i], order) = JoinViews(v, W)
  BY DEF AfterRead
<1> HIDE DEF v, W
<1>7. /\ JoinViews(v, W) \in Views /\ Known(JoinViews(v, W), memory)
      /\ \A l \in Locations :
           /\ v[l] <= JoinViews(v, W)[l]
           /\ \A w \in W : w[l] <= JoinViews(v, W)[l]
  BY <1>1, <1>2, <1>3, <1>4, JoinViewsType
<1> DEFINE r == JoinViews(v, W)
<1>8. /\ r \in Views /\ Known(r, memory)
      /\ \A l \in Locations : v[l] <= r[l]
      /\ \A w \in W : \A k \in Locations : w[k] <= r[k]
  BY <1>7
<1> HIDE DEF r
<1>9. r[x] >= i /\ \A l \in Locations \ {x} : r[l] >= view[t][l]
  BY <1>1, <1>2, <1>8 DEF Views, Positive
<1>10. ASSUME NEW h \in memory[x][i].heads, Acquires(order), NEW l \in Locations
       PROVE  r[l] >= h.view[l]
  <2>1. h.view \in W /\ h.view \in Views
    BY <1>4, <1>5, <1>10
  <2>2. h.view[l] <= r[l]
    BY <1>8, <2>1
  <2>3. h.view[l] \in Nat /\ r[l] \in Nat
    BY <1>8, <2>1 DEF Views, Positive
  <2> QED BY <2>2, <2>3
<1> QED BY <1>6, <1>8, <1>9, <1>10 DEF r

(* What a thread knows that has written the next message. *)
LEMMA NextView ==
  ASSUME MemoryTyping, NEW v \in Views, Known(v, memory), NEW x \in Locations,
         NEW m \in Messages, memory' = [memory EXCEPT ![x] = Append(@, m)]
  PROVE  LET w == [v EXCEPT ![x] = Len(memory[x]) + 1]
         IN  /\ w \in Views /\ Known(w, memory') /\ w[x] = Len(memory'[x])
             /\ \A l \in Locations \ {x} : w[l] = v[l]
<1> DEFINE w == [v EXCEPT ![x] = Len(memory[x]) + 1]
<1>1. /\ Len(memory[x]) \in Positive /\ Len(memory'[x]) = Len(memory[x]) + 1
      /\ \A l \in Locations \ {x} : memory'[l] = memory[l]
  BY AppendedMessage
<1>2. Len(memory[x]) + 1 \in Positive
  BY <1>1 DEF Positive
<1>3. w \in Views /\ w[x] = Len(memory[x]) + 1 /\ \A l \in Locations \ {x} : w[l] = v[l]
  BY <1>2 DEF Views
<1> HIDE DEF w
<1>4. Known(w, memory')
  BY <1>1, <1>2, <1>3 DEF Known, Positive
<1> QED BY <1>1, <1>3, <1>4 DEF w

(* The histories, and what threads know of them. *)
LEMMA Histories ==
  ASSUME MemoryTyping, NEW x \in Locations
  PROVE  /\ Len(memory[x]) \in Positive /\ Len(memory[x]) \in 1 .. Len(memory[x])
         /\ \A t \in Threads : /\ view[t] \in Views /\ Known(view[t], memory)
                               /\ view[t][x] \in 1 .. Len(memory[x])
                               /\ reg[t] \in Registers
                               /\ \A f \in Fields : reg[t][f] \in Int
<1>1. Len(memory[x]) \in Nat /\ Len(memory[x]) >= 1
  BY DEF MemoryTyping
<1>2. ASSUME NEW t \in Threads
      PROVE  /\ view[t] \in Views /\ Known(view[t], memory)
             /\ view[t][x] \in 1 .. Len(memory[x])
             /\ reg[t] \in Registers
             /\ \A f \in Fields : reg[t][f] \in Int
  <2>1. view[t] \in Views /\ Known(view[t], memory) /\ reg[t] \in [Fields -> Int]
    BY DEF MemoryTyping, Registers
  <2>2. view[t][x] \in Positive /\ view[t][x] <= Len(memory[x])
    BY <2>1 DEF Known, Views
  <2> QED BY <1>1, <2>1, <2>2 DEF Positive, Registers
<1> QED BY <1>1, <1>2 DEF Positive

(* The locations have been initialised, and every thread knows of that. *)
LEMMA MemoryInit ==
  ASSUME Init
  PROVE  MemoryTyping
<1>1. input.initial \in Int
  <2>1. NoInput.initial = 0
    BY DEF NoInput
  <2>2. program = "release_sequence" => input.initial = 0
    BY <2>1 DEF Init, Inputs, NoInput
  <2>3. program \notin {"parallel_accumulate", "spinlock_mutex",
                        "multithread_compare_exchange_weak", "release_sequence"}
          => input = NoInput
    <3>1. ASSUME NEW p, p \notin {"parallel_accumulate", "spinlock_mutex",
                                  "multithread_compare_exchange_weak", "release_sequence"}
          PROVE  Inputs(p) = {NoInput}
      <4>1. /\ (p = "parallel_accumulate") = FALSE /\ (p = "spinlock_mutex") = FALSE
            /\ (p = "multithread_compare_exchange_weak") = FALSE /\ (p = "release_sequence") = FALSE
        BY <3>1
      <4> QED BY <4>1 DEF Inputs
    <3> QED BY <3>1 DEF Init
  <2> QED BY <2>1, <2>2, <2>3, InputTypes DEF Init
<1> DEFINE n(x) == IF x = "counter" THEN input.initial ELSE 0
<1>2. \A x \in Locations : memory[x] = <<Message(n(x), {})>>
  BY DEF Init
<1>3. \A x \in Locations : Message(n(x), {}) \in Messages /\ Message(n(x), {}).heads = {}
  BY <1>1 DEF Message, Messages
<1>4. /\ memory \in [Locations -> Seq(Messages)]
      /\ \A x \in Locations : Len(memory[x]) = 1 /\ memory[x][1].heads = {}
  <2>1. memory = [x \in Locations |-> <<Message(n(x), {})>>]
    BY DEF Init
  <2> HIDE DEF n
  <2> QED BY <2>1, <1>2, <1>3
<1>5. /\ view \in [Threads -> Views] /\ \A t \in Threads : \A x \in Locations : view[t][x] = 1
  BY DEF Init, Views, Positive
<1>6. reg \in [Threads -> Registers]
  BY <1>1 DEF Init, Registers, Fields
<1>7. \A t \in Threads : Known(view[t], memory)
  BY <1>4, <1>5 DEF Known
<1>8. \A l \in Locations : \A i \in 1 .. Len(memory[l]) : memory[l][i].heads = {}
  BY <1>4
<1>9. \A l \in Locations : Len(memory[l]) >= 1
  BY <1>4
<1> QED BY <1>4, <1>5, <1>6, <1>7, <1>8, <1>9 DEF MemoryTyping

(* A local variable that is assigned. *)
LEMMA SetType ==
  ASSUME MemoryTyping, NEW t \in Threads, NEW f \in Fields, NEW v \in Int, Set(t, f, v)
  PROVE  /\ reg' \in [Threads -> Registers] /\ reg'[t][f] = v
         /\ \A u \in Threads \ {t} : reg'[u] = reg[u]
         /\ \A g \in Fields \ {f} : reg'[t][g] = reg[t][g]
BY DEF MemoryTyping, Registers, Set

(* The next instruction has fields of the right type. *)
LEMMA TypedNext ==
  ASSUME ThreadInv, NEW t \in Threads, code[t] # <<>>
  PROVE  Typed(Instr(t))
BY NextInstruction DEF ThreadInv, Fine

(* An access to plain data: a message without heads, or the last one       *)
(* again.                                                                  *)
LEMMA AccessTyping ==
  ASSUME ThreadInv, MemoryTyping, NEW t \in Threads, AccessData(t)
  PROVE  MemoryTyping'
<1> DEFINE x == Loc(t)
<1>1. /\ code[t] # <<>> /\ Instr(t).op = "access"
      /\ view' = [view EXCEPT ![t] = [view[t] EXCEPT ![x] = Len(memory[x]) + 1]]
  BY DEF AccessData, At, Instr, Know, Newest
<1>2. x \in Locations /\ Instr(t).arg \in Int /\ Instr(t).how \in {"add", "write", "read", "collect"}
  BY <1>1, TypedNext DEF Typed, Loc
<1>3. /\ Len(memory[x]) \in 1 .. Len(memory[x])
      /\ view[t] \in Views /\ Known(view[t], memory) /\ view[t][x] \in 1 .. Len(memory[x])
      /\ "val" \in Fields /\ reg[t].val \in Int
  BY <1>2, Histories DEF Fields
<1>4. PICK i \in view[t][x] .. Len(memory[x]) :
        LET v == memory[x][i].val
            n == Instr(t).arg
        IN  CASE Instr(t).how = "add"     -> Write(t, Message(v + n, {})) /\ UNCHANGED reg
              [] Instr(t).how = "write"   -> Write(t, Message(n, {})) /\ UNCHANGED reg
              [] Instr(t).how = "read"    -> Write(t, Last(t)) /\ Set(t, "val", v)
              [] Instr(t).how = "collect" -> Write(t, Last(t)) /\ Set(t, "val", reg[t].val + v)
  BY DEF AccessData, Newest
<1>5. i \in 1 .. Len(memory[x])
  BY <1>3, <1>4
<1>6. PICK v \in Int : v = memory[x][i].val
  BY <1>2, <1>5, MessageFacts
<1>7. Last(t) \in Messages /\ \A h \in Last(t).heads : h.view \in Views /\ Known(h.view, memory)
  BY <1>2, <1>3, MessageFacts DEF Last, Newest
<1>8. PICK m \in Messages : /\ Write(t, m)
                            /\ \A h \in m.heads : h.view \in Views /\ Known(h.view, memory)
                            /\ reg' \in [Threads -> Registers]
  <2>1. CASE Instr(t).how = "add"
    <3>1. Write(t, Message(v + Instr(t).arg, {})) /\ reg' = reg
      BY <1>4, <1>6, <2>1
    <3>2. Message(v + Instr(t).arg, {}) \in Messages /\ Message(v + Instr(t).arg, {}).heads = {}
      BY <1>2 DEF Message, Messages
    <3> QED BY <3>1, <3>2 DEF MemoryTyping
  <2>2. CASE Instr(t).how = "write"
    <3>1. Write(t, Message(Instr(t).arg, {})) /\ reg' = reg
      BY <1>4, <2>2
    <3>2. Message(Instr(t).arg, {}) \in Messages /\ Message(Instr(t).arg, {}).heads = {}
      BY <1>2 DEF Message, Messages
    <3> QED BY <3>1, <3>2 DEF MemoryTyping
  <2>3. CASE Instr(t).how = "read"
    <3>1. Write(t, Last(t)) /\ Set(t, "val", v)
      BY <1>4, <1>6, <2>3
    <3> QED BY <1>3, <1>7, <3>1, SetType
  <2>4. CASE Instr(t).how = "collect"
    <3>1. Write(t, Last(t)) /\ Set(t, "val", reg[t].val + v)
      BY <1>4, <1>6, <2>4
    <3>2. reg[t].val + v \in Int
      BY <1>3
    <3> QED BY <1>3, <1>7, <3>1, <3>2, SetType
  <2> QED BY <1>2, <2>1, <2>2, <2>3, <2>4
<1>9. memory' = [memory EXCEPT ![x] = Append(@, m)]
  BY <1>8 DEF Write
<1> DEFINE w == [view[t] EXCEPT ![x] = Len(memory[x]) + 1]
<1>10. w \in Views /\ Known(w, memory')
  BY <1>2, <1>3, <1>9, NextView
<1>11. \A h \in m.heads : Known(h.view, memory')
  BY <1>2, <1>8, <1>9, AppendedMessage
<1>12. view' = [view EXCEPT ![t] = w]
  BY <1>1
<1> HIDE DEF w, x
<1> QED BY <1>2, <1>8, <1>9, <1>10, <1>11, <1>12, WriteTyping

(* A read-modify-write, which reads the last message and keeps its heads. *)
LEMMA ModifyTyping ==
  ASSUME MemoryTyping, NEW t \in Threads, NEW x \in Locations, x = Loc(t), NEW v \in Int, NEW order,
         Modify(t, v, order), reg' \in [Threads -> Registers]
  PROVE  MemoryTyping'
<1> DEFINE n == Len(memory[x])
           r == AfterRead(view[t], x, n, memory[x][n], order)
           w == [r EXCEPT ![x] = n + 1]
           m == Modified(t, w, v, memory[x][n], order)
<1>1. memory' = [memory EXCEPT ![x] = Append(@, m)] /\ view' = [view EXCEPT ![t] = w]
  BY DEF Modify, Write, Know, Newest, Last
<1>2. n \in 1 .. n /\ n \in Positive
  BY Histories
<1>3. r \in Views /\ Known(r, memory)
  BY <1>2, ReadView
<1>4. memory[x][n].heads \subseteq Heads
      /\ \A h \in memory[x][n].heads : h.view \in Views /\ Known(h.view, memory)
  BY <1>2, MessageFacts
<1> HIDE DEF r
<1>5. w \in Views
  BY <1>2, <1>3 DEF Views, Positive
<1>6. OwnHead(t, w, order) \subseteq Heads /\ \A h \in OwnHead(t, w, order) : h.view = w
  BY <1>5 DEF OwnHead, Heads
<1>7. m \in Messages /\ m.heads = OwnHead(t, w, order) \cup memory[x][n].heads
  BY <1>4, <1>6 DEF Modified, Message, Messages
<1> HIDE DEF m
<1>8. w \in Views /\ Known(w, memory')
  BY <1>1, <1>3, <1>7, NextView
<1>9. \A h \in m.heads : Known(h.view, memory')
  BY <1>1, <1>4, <1>6, <1>7, <1>8, AppendedMessage
<1> HIDE DEF w
<1> QED BY <1>1, <1>7, <1>8, <1>9, WriteTyping

(* A read of the last message. *)
LEMMA ObserveTyping ==
  ASSUME MemoryTyping, NEW t \in Threads, NEW x \in Locations, x = Loc(t), NEW order,
         Observe(t, order), reg' \in [Threads -> Registers]
  PROVE  MemoryTyping'
<1> DEFINE n == Len(memory[x])
           r == AfterRead(view[t], x, n, memory[x][n], order)
<1>1. memory' = memory /\ view' = [view EXCEPT ![t] = r]
  BY DEF Observe, Know, Newest, Last
<1>2. n \in 1 .. n
  BY Histories
<1>3. r \in Views /\ Known(r, memory)
  BY <1>2, ReadView
<1> HIDE DEF r
<1> QED BY <1>1, <1>3, ReadTyping

(* The last message of the location that is accessed next. *)
LEMMA LastValue ==
  ASSUME MemoryTyping, NEW t, Loc(t) \in Locations
  PROVE  Last(t).val \in Int /\ Last(t) \in Messages /\ Newest(t) \in 1 .. Newest(t)
BY Histories, MessageFacts DEF Last, Newest

(* A store, which starts a release sequence or ends one. *)
LEMMA StoreTyping ==
  ASSUME ThreadInv, MemoryTyping, NEW t \in Threads, StoreAtomic(t)
  PROVE  MemoryTyping'
<1> DEFINE x == Loc(t)
           n == Len(memory[x])
           w == [view[t] EXCEPT ![x] = n + 1]
           m == Stored(t, w, Instr(t).arg, memory[x][n], Instr(t).order, input.standard)
<1>1. /\ code[t] # <<>> /\ Instr(t).op = "store" /\ reg' = reg
      /\ memory' = [memory EXCEPT ![x] = Append(@, m)] /\ view' = [view EXCEPT ![t] = w]
  BY DEF StoreAtomic, At, Instr, Write, Know, Newest, Last
<1>2. x \in Locations /\ Instr(t).arg \in Int
  BY <1>1, TypedNext DEF Typed, Loc
<1>3. n \in 1 .. n /\ n \in Positive /\ view[t] \in Views /\ Known(view[t], memory)
  BY <1>2, Histories
<1>4. memory[x][n].heads \subseteq Heads
      /\ \A h \in memory[x][n].heads : h.view \in Views /\ Known(h.view, memory)
  BY <1>2, <1>3, MessageFacts
<1>5. w \in Views
  BY <1>2, <1>3 DEF Views, Positive
<1>6. OwnHead(t, w, Instr(t).order) \subseteq Heads
      /\ \A h \in OwnHead(t, w, Instr(t).order) : h.view = w
  BY <1>5 DEF OwnHead, Heads
<1>7. /\ m \in Messages
      /\ m.heads \subseteq OwnHead(t, w, Instr(t).order) \cup memory[x][n].heads
  BY <1>2, <1>4, <1>6 DEF Stored, Message, Messages
<1> HIDE DEF m, x, n
<1>8. Known(w, memory')
  BY <1>1, <1>2, <1>3, <1>7, NextView DEF n
<1>9. \A h \in m.heads : Known(h.view, memory')
  BY <1>1, <1>2, <1>4, <1>6, <1>7, <1>8, AppendedMessage
<1> HIDE DEF w
<1>10. reg' \in [Threads -> Registers]
  BY <1>1 DEF MemoryTyping
<1> QED BY <1>1, <1>2, <1>5, <1>7, <1>8, <1>9, <1>10, WriteTyping

(* A load. *)
LEMMA LoadTyping ==
  ASSUME ThreadInv, MemoryTyping, NEW t \in Threads, LoadAtomic(t)
  PROVE  MemoryTyping'
<1>1. code[t] # <<>> /\ Instr(t).op = "load" /\ Observe(t, "seq_cst")
  BY DEF LoadAtomic, At, Instr
<1>2. Loc(t) \in Locations
  BY <1>1, TypedNext DEF Typed, Loc
<1>3. PICK v \in Int : v = Last(t).val
  BY <1>2, LastValue
<1>4. reg' \in [Threads -> Registers]
  BY <1>3 DEF LoadAtomic, MemoryTyping, Registers, Fields
<1> QED BY <1>1, <1>2, <1>4, ObserveTyping

(* The end of a loop that waits for a value. *)
LEMMA AwaitTyping ==
  ASSUME ThreadInv, MemoryTyping, NEW t \in Threads, AwaitValue(t)
  PROVE  MemoryTyping'
<1>1. code[t] # <<>> /\ Instr(t).op = "await" /\ memory' = memory /\ reg' = reg
  BY DEF AwaitValue, At, Instr
<1>2. Loc(t) \in Locations
  BY <1>1, TypedNext DEF Typed, Loc
<1>3. PICK i \in view[t][Loc(t)] .. Newest(t) :
        Know(t, AfterRead(view[t], Loc(t), i, memory[Loc(t)][i], "acquire"))
  BY DEF AwaitValue
<1>4. i \in 1 .. Len(memory[Loc(t)])
  BY <1>2, <1>3, Histories DEF Newest
<1> DEFINE r == AfterRead(view[t], Loc(t), i, memory[Loc(t)][i], "acquire")
<1>5. r \in Views /\ Known(r, memory) /\ view' = [view EXCEPT ![t] = r]
  BY <1>2, <1>3, <1>4, ReadView DEF Know
<1> HIDE DEF r
<1>6. reg' \in [Threads -> Registers]
  BY <1>1 DEF MemoryTyping
<1> QED BY <1>1, <1>5, <1>6, ReadTyping

(* fetch_add, fetch_sub and their operators. *)
LEMMA ReadModifyWriteTyping ==
  ASSUME ThreadInv, MemoryTyping, NEW t \in Threads, ReadModifyWrite(t)
  PROVE  MemoryTyping'
<1>1. code[t] # <<>> /\ Instr(t).op = "read_modify_write"
  BY DEF ReadModifyWrite, At, Instr
<1>2. Loc(t) \in Locations /\ Instr(t).arg \in Int
  BY <1>1, TypedNext DEF Typed, Loc
<1>3. PICK old \in Int : old = Last(t).val
  BY <1>2, LastValue
<1>4. PICK new \in Int : new = IF Instr(t).how = "set" THEN 1 ELSE old + Instr(t).arg
  BY <1>2
<1>5. Modify(t, new, Instr(t).order) /\ Set(t, "val", IF Instr(t).how = "+=" THEN new ELSE old)
  BY <1>3, <1>4 DEF ReadModifyWrite
<1>6. reg' \in [Threads -> Registers]
  BY <1>5, SetType DEF Fields
<1> QED BY <1>2, <1>5, <1>6, ModifyTyping

(* test_and_set, which finds the flag clear or set. *)
LEMMA SpinTyping ==
  ASSUME ThreadInv, MemoryTyping, NEW t \in Threads, SpinOnFlag(t)
  PROVE  MemoryTyping'
<1>1. code[t] # <<>> /\ Instr(t).op = "spin" /\ reg' = reg
      /\ (Modify(t, 1, Instr(t).order) \/ Observe(t, Instr(t).order))
  BY DEF SpinOnFlag, At, Instr
<1>2. Loc(t) \in Locations
  BY <1>1, TypedNext DEF Typed, Loc
<1>3. reg' \in [Threads -> Registers]
  BY <1>1 DEF MemoryTyping
<1> QED BY <1>1, <1>2, <1>3, ModifyTyping, ObserveTyping

(* One local variable changes. *)
LEMMA FieldChanged ==
  ASSUME NEW f \in [Fields -> Int], NEW k, NEW v \in Int
  PROVE  [f EXCEPT ![k] = v] \in [Fields -> Int]
OBVIOUS

(* compare_exchange, which succeeds or loads the value. *)
LEMMA CompareExchangeTyping ==
  ASSUME ThreadInv, MemoryTyping, NEW t \in Threads, CompareExchange(t)
  PROVE  MemoryTyping'
<1>1. code[t] # <<>> /\ Instr(t).op = "exchange"
  BY DEF CompareExchange, At, Instr
<1>2. Loc(t) \in Locations /\ Instr(t).arg \in Int
  BY <1>1, TypedNext DEF Typed, Loc
<1>3. CASE Modify(t, Instr(t).arg, "seq_cst") /\ Set(t, "ok", 1)
  <2>1. reg' \in [Threads -> Registers]
    BY <1>3, SetType DEF Fields
  <2> QED BY <1>2, <1>3, <2>1, ModifyTyping
<1>4. CASE Observe(t, "seq_cst") /\ reg' = [reg EXCEPT ![t].ok = 0, ![t].expected = Last(t).val]
  <2>1. PICK v \in Int : v = Last(t).val
    BY <1>2, LastValue
  <2> DEFINE r == [[reg[t] EXCEPT !.ok = 0] EXCEPT !.expected = v]
  <2>a. reg' = [reg EXCEPT ![t] = [[reg[t] EXCEPT !.ok = 0] EXCEPT !.expected = v]]
    BY <1>4, <2>1, Zenon
  <2>b. reg[t] \in [Fields -> Int]
    BY DEF MemoryTyping, Registers
  <2>q. [reg[t] EXCEPT !.ok = 0] \in [Fields -> Int]
    BY <2>b, FieldChanged
  <2>c. r \in [Fields -> Int]
    BY <2>q, <2>1, FieldChanged
  <2>d. reg' = [reg EXCEPT ![t] = r]
    BY <2>a
  <2> HIDE DEF r
  <2>2. reg' \in [Threads -> Registers]
    BY <2>c, <2>d DEF MemoryTyping, Registers
  <2> QED BY <1>2, <1>4, <2>2, ObserveTyping
<1> QED BY <1>3, <1>4 DEF CompareExchange

(* One turn of a loop of compare_exchange_weak. *)
LEMMA ExchangeInLoopTyping ==
  ASSUME ThreadInv, MemoryTyping, NEW t \in Threads, ExchangeInLoop(t)
  PROVE  MemoryTyping'
<1>1. code[t] # <<>> /\ Instr(t).op = "exchange_loop"
  BY DEF ExchangeInLoop, At, Instr
<1>2. Loc(t) \in Locations /\ reg[t].expected + 1 \in Int /\ "expected" \in Fields
  <2>1. Loc(t) \in Locations
    BY <1>1, TypedNext DEF Typed, Loc
  <2> QED BY <2>1, Histories DEF Fields
<1>3. CASE Modify(t, reg[t].expected + 1, "seq_cst") /\ UNCHANGED reg
  <2>1. reg' \in [Threads -> Registers]
    BY <1>3 DEF MemoryTyping
  <2> QED BY <1>2, <1>3, <2>1, ModifyTyping
<1>4. CASE Observe(t, "seq_cst") /\ Set(t, "expected", Last(t).val)
  <2>1. PICK v \in Int : v = Last(t).val
    BY <1>2, LastValue
  <2>2. reg' \in [Threads -> Registers]
    BY <1>2, <1>4, <2>1, SetType
  <2> QED BY <1>2, <1>4, <2>2, ObserveTyping
<1> QED BY <1>3, <1>4 DEF ExchangeInLoop

(* A new thread knows what the thread that starts it knows. *)
LEMMA StartTyping ==
  ASSUME ThreadInv, MemoryTyping, NEW t \in Threads, StartThread(t)
  PROVE  MemoryTyping'
<1>1. /\ memory' = memory /\ reg' = reg /\ view' = [view EXCEPT ![started + 1] = view[t]]
      /\ started < MaxThreads
  BY DEF StartThread
<1>2. started + 1 \in Threads
  BY <1>1, ThreadProgramsAssumption DEF ThreadInv, Typing, Threads, Workers
<1>3. view[t] \in Views /\ Known(view[t], memory) /\ reg' \in [Threads -> Registers]
  BY <1>1 DEF MemoryTyping
<1> QED BY <1>1, <1>2, <1>3, ReadTyping

(* A join tells what the joined thread knew. *)
LEMMA JoinTyping ==
  ASSUME ThreadInv, MemoryTyping, NEW t \in Threads, JoinThread(t)
  PROVE  MemoryTyping'
<1>1. /\ memory' = memory /\ reg' = reg
      /\ view' = [view EXCEPT ![t] = JoinViews(view[t], {view[Held(t)]})]
      /\ code[t] # <<>> /\ Instr(t).op \in {"join", "join_if_joinable"} /\ Held(t) # Empty
  BY DEF JoinThread, At, Instr
<1>2. Held(t) \in Threads
  <2>1. Instr(t).handle \in Handles
    BY <1>1, NextInstruction, FieldsOfFine DEF ThreadInv, HandleOps
  <2>2. Held(t) \in 1 .. started
    BY <1>1, <2>1 DEF ThreadInv, Typing, Held, Empty
  <2> QED BY <2>2, ThreadProgramsAssumption DEF ThreadInv, Typing, Threads, Workers
<1>3. /\ view[t] \in Views /\ Known(view[t], memory) /\ reg' \in [Threads -> Registers]
      /\ view[Held(t)] \in Views /\ Known(view[Held(t)], memory)
      /\ \A l \in Locations : Len(memory[l]) \in Nat
  BY <1>1, <1>2 DEF MemoryTyping
<1> DEFINE r == JoinViews(view[t], {view[Held(t)]})
<1>4. r \in Views /\ Known(r, memory)
  BY <1>3, JoinViewsType
<1> HIDE DEF r
<1> QED BY <1>1, <1>3, <1>4, ReadTyping DEF r

(* Every step. *)
LEMMA MemoryTypingStep ==
  ASSUME ThreadInv, MemoryTyping, [Next]_vars
  PROVE  MemoryTyping'
<1>1. ASSUME NEW t \in Threads, Step(t) PROVE MemoryTyping'
  <2>1. CASE \/ StartThread(t) \/ JoinThread(t) \/ AccessData(t) \/ StoreAtomic(t)
             \/ LoadAtomic(t) \/ AwaitValue(t) \/ ReadModifyWrite(t) \/ SpinOnFlag(t)
             \/ CompareExchange(t) \/ ExchangeInLoop(t)
    BY <2>1, StartTyping, JoinTyping, AccessTyping, StoreTyping, LoadTyping, AwaitTyping,
       ReadModifyWriteTyping, SpinTyping, CompareExchangeTyping, ExchangeInLoopTyping
  <2>2. CASE \/ StartThrows(t) \/ DetachThread(t) \/ NotJoinableThrows(t) \/ MoveThread(t)
             \/ SwapThreads(t) \/ TerminateProgram(t) \/ EditDocument(t) \/ Pass(t)
             \/ WorkThrows(t) \/ FlowOffTheEnd(t) \/ Leave(t) \/ CheckAssertion(t)
    <3>1. UNCHANGED atomics
      BY <2>2 DEF StartThrows, DetachThread, NotJoinableThrows, MoveThread, SwapThreads,
         TerminateProgram, EditDocument, Pass, WorkThrows, FlowOffTheEnd, Leave,
         CheckAssertion, Raise, End, OnlyCode
    <3> QED BY <3>1 DEF atomics, MemoryTyping
  <2> QED BY <1>1, <2>1, <2>2 DEF Step
<1>2. ASSUME NEW h \in {1, 2}, NEW g \in {1, 2}, CallAutoJoining(h, g) PROVE MemoryTyping'
  BY <1>2 DEF CallAutoJoining, OnlyCode, atomics, MemoryTyping
<1>3. CASE UNCHANGED vars
  BY <1>3 DEF vars, atomics, MemoryTyping
<1> QED BY <1>1, <1>2, <1>3 DEF Next

(* No thread and no release sequence ever knows of a write that was not    *)
(* made.                                                                   *)
THEOREM MemoryTypingTheorem == Spec => []MemoryTyping
<1>1. Init => MemoryTyping
  BY MemoryInit
<1>2. ThreadInv /\ MemoryTyping /\ [Next]_vars => MemoryTyping'
  BY MemoryTypingStep
<1> QED BY <1>1, <1>2, ThreadInvariant, PTL DEF Spec

(* Every variable of every program has its type, in every reachable state: *)
(* a thread has its view of a history that is there, of every location.    *)
THEOREM TypeCorrect == Spec => []TypeOK
<1>1. ThreadInv /\ MemoryTyping => TypeOK
  <2> SUFFICES ASSUME ThreadInv, MemoryTyping PROVE TypeOK
    OBVIOUS
  <2>1. DOMAIN code = Threads
    BY DEF ThreadInv, Typing
  <2>2. \A l \in Locations : Len(memory[l]) >= 1
    BY DEF MemoryTyping
  <2>3. \A t \in Threads : \A l \in Locations : view[t][l] \in 1 .. Len(memory[l])
    BY Histories
  <2>4. reg \in [Threads -> [Fields -> Int]]
    BY DEF MemoryTyping, Registers
  <2> QED BY <2>1, <2>2, <2>3, <2>4 DEF TypeOK, ThreadInv, Typing
<1> QED BY <1>1, ThreadInvariant, MemoryTypingTheorem, PTL
=============================================================================
