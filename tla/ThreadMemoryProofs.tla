------------------------- MODULE ThreadMemoryProofs -------------------------
(***************************************************************************)
(* Proofs about what the programs of ThreadPrograms compute: no increment  *)
(* is lost, the assertions hold, parallel_accumulate adds every element    *)
(* once, and nothing races but what is documented to.                      *)
(*                                                                         *)
(* First it is shown where each thread can be in its code, whatever the    *)
(* others do: OnItsWay says that what is left is an end of the code, and   *)
(* while every thread could be started how many there are.  Programs that  *)
(* are not followed in this way need less: CalmInv and LocalInv say which  *)
(* operations are left.  The invariants about memory are stated by place:  *)
(* LockInv and CountInv for the threads that count, ReleaseSequenceInv for *)
(* the release sequence, PlaceInv for the programs with one thread, and    *)
(* AccumulateInv for the results of parallel_accumulate.                   *)
(***************************************************************************)
EXTENDS ThreadProgramsProofs

-----------------------------------------------------------------------------
(* Scopes and vectors, place by place *)

(* What destructors do. *)
Tidy(s) ==
  /\ IsSequence(s)
  /\ \A i \in 1 .. Len(s) : Formed(s[i]) /\ s[i].op \in {"destroy", "end_lifetime"}

(* d does what c does, and tidies up more when it throws. *)
Alike(d, c) ==
  /\ Formed(d) /\ d.op = c.op
  /\ c.op \notin Throwing => d = c
  /\ c.op \in HandleOps => d.handle = c.handle
  /\ c.op = "start" => d.body = c.body /\ (Tidy(c.unwind) => Tidy(d.unwind))

(* Two tidy sequences, one after the other. *)
LEMMA TidyConcat ==
  ASSUME NEW s, NEW r, Tidy(s), Tidy(r)
  PROVE  Tidy(s \o r)
<1>1. IsSequence(s) /\ IsSequence(r)
  BY DEF Tidy
<1>2. /\ IsSequence(s \o r) /\ Len(s \o r) = Len(s) + Len(r)
      /\ \A i \in 1 .. Len(s) : (s \o r)[i] = s[i]
      /\ \A i \in 1 .. Len(r) : (s \o r)[Len(s) + i] = r[i]
      /\ Len(s) \in Nat /\ Len(r) \in Nat
  BY <1>1, Concatenation DEF IsSequence
<1>3. ASSUME NEW i \in 1 .. Len(s) + Len(r)
      PROVE  Formed((s \o r)[i]) /\ (s \o r)[i].op \in {"destroy", "end_lifetime"}
  <2>1. CASE i \in 1 .. Len(s)
    BY <1>2, <2>1 DEF Tidy
  <2>2. CASE i \notin 1 .. Len(s)
    <3>1. i - Len(s) \in 1 .. Len(r) /\ i = Len(s) + (i - Len(s))
      BY <1>2, <2>2
    <3>2. (s \o r)[i] = r[i - Len(s)]
      BY <1>2, <3>1
    <3> QED BY <3>1, <3>2 DEF Tidy
  <2> QED BY <2>1, <2>2
<1> QED BY <1>2, <1>3 DEF Tidy

(* A noexcept body throws nothing, so it is tidy when its unwinding is. *)
LEMMA TidyNoExcept ==
  ASSUME NEW d, Tidy(d)
  PROVE  /\ Tidy(NoExcept(d)) /\ Len(NoExcept(d)) = Len(d)
         /\ \A i \in 1 .. Len(d) : NoExcept(d)[i] = d[i]
<1>1. IsSequence(d) /\ IsSequence(<<Terminate>>)
  BY OneElement DEF Tidy
<1>2. /\ IsSequence(NoExcept(d)) /\ Len(NoExcept(d)) = Len(d)
      /\ \A i \in 1 .. Len(d) : NoExcept(d)[i] = Caught(d[i], <<Terminate>>)
  BY <1>1, CatchElements DEF NoExcept
<1>3. \A i \in 1 .. Len(d) : Formed(d[i]) /\ d[i].op \in {"destroy", "end_lifetime"}
  BY DEF Tidy
<1>4. \A i \in 1 .. Len(d) : NoExcept(d)[i] = d[i]
  <2> TAKE i \in 1 .. Len(d)
  <2>1. Formed(d[i]) /\ d[i].op \notin Throwing
    BY <1>3 DEF Throwing
  <2>2. Caught(d[i], <<Terminate>>) = d[i]
    BY <2>1, <1>1, CaughtKeeps
  <2> QED BY <1>2, <2>2
<1> QED BY <1>2, <1>3, <1>4 DEF Tidy

(* A handler that only destroys makes an instruction that does more when   *)
(* it throws.                                                              *)
LEMMA AlikeCaught ==
  ASSUME NEW c, NEW u, Formed(c), Tidy(u)
  PROVE  Alike(Caught(c, u), c)
<1>1. IsSequence(u)
  BY DEF Tidy
<1> DEFINE d == Caught(c, u)
<1>2. /\ Formed(d) /\ d.op = c.op
      /\ c.op \notin Throwing => d = c
      /\ c.op \in HandleOps => d.handle = c.handle
      /\ c.op = "start" => d.body = c.body
      /\ c.op \in Throwing => d.unwind = c.unwind \o u
  BY <1>1, CaughtKeeps
<1> HIDE DEF d
<1>3. ASSUME c.op = "start", Tidy(c.unwind) PROVE Tidy(d.unwind)
  BY <1>2, <1>3, TidyConcat DEF Throwing
<1> QED BY <1>2, <1>3 DEF Alike, d

(* Two handlers, one around the other. *)
LEMMA AlikeTrans ==
  ASSUME NEW a, NEW b, NEW c, Alike(a, b), Alike(b, c)
  PROVE  Alike(a, c)
BY DEF Alike

(* The places of a scope. *)
IsScope(c, s, d) ==
  /\ IsSequence(c) /\ Len(c) = Len(s) + Len(d)
  /\ \A i \in 1 .. Len(s) : Alike(c[i], s[i])
  /\ \A i \in 1 .. Len(d) : c[Len(s) + i] = d[i]

(* What is at each place of a scope: its body, then its destructors. *)
LEMMA WithinPlaces ==
  ASSUME NEW s, NEW d, IsSequence(s), \A i \in 1 .. Len(s) : Formed(s[i]), Tidy(d)
  PROVE  IsScope(Within(s, d), s, d)
<1> DEFINE e == NoExcept(d)
           b == Catch(s, e)
<1>1. /\ Tidy(e) /\ Len(e) = Len(d) /\ IsSequence(e)
      /\ \A i \in 1 .. Len(d) : e[i] = d[i]
  BY TidyNoExcept DEF Tidy
<1>2. IsSequence(b) /\ Len(b) = Len(s) /\ \A i \in 1 .. Len(s) : b[i] = Caught(s[i], e)
  BY CatchElements
<1>3. Within(s, d) = b \o e
  BY DEF Within
<1> HIDE DEF b, e
<1>4. /\ IsSequence(b \o e) /\ Len(b \o e) = Len(b) + Len(e)
      /\ \A i \in 1 .. Len(b) : (b \o e)[i] = b[i]
      /\ \A i \in 1 .. Len(e) : (b \o e)[Len(b) + i] = e[i]
  BY <1>1, <1>2, Concatenation
<1>5. \A i \in 1 .. Len(s) : Alike((b \o e)[i], s[i])
  BY <1>1, <1>2, <1>4, AlikeCaught
<1> QED BY <1>1, <1>2, <1>3, <1>4, <1>5 DEF IsScope

(* Destructors are tidy. *)
LEMMA DestroysTidy ==
  ASSUME NEW n \in Nat
  PROVE  LET d == [i \in 1 .. n |-> Destroy(i)]
         IN  Tidy(d) /\ Len(d) = n /\ \A i \in 1 .. n : d[i].handle = i
<1> DEFINE d == [i \in 1 .. n |-> Destroy(i)]
<1>1. d = [i \in 1 .. n |-> d[i]]
  OBVIOUS
<1>2. \A i \in 1 .. n : Formed(d[i]) /\ d[i].op = "destroy" /\ d[i].handle = i
  BY GuardInstructions
<1> HIDE DEF d
<1>3. IsSequence(d) /\ Len(d) = n
  BY <1>1, FunctionSequence
<1> QED BY <1>2, <1>3 DEF Tidy, d

(* The places of a vector of threads. *)
IsVector(c, n, g, before, b, after, a) ==
  /\ IsSequence(c) /\ Len(c) = n + b + n + a + n
  /\ \A i \in 1 .. Len(c) : Formed(c[i])
  /\ \A i \in 1 .. n : /\ c[i].op = "start" /\ c[i].handle = i /\ c[i].body = g[i]
                        /\ Tidy(c[i].unwind)
  /\ \A i \in 1 .. b : Alike(c[n + i], before[i])
  /\ \A i \in 1 .. n : c[n + b + i].op = "join" /\ c[n + b + i].handle = i
  /\ \A i \in 1 .. a : Alike(c[n + b + n + i], after[i])
  /\ \A i \in 1 .. n : c[n + b + n + a + i].op = "destroy"

(* What is at each place of a vector of threads: before, the starts,       *)
(* between, the destructors, after.                                        *)
LEMMA VectorPlaces ==
  ASSUME NEW n \in Nat, NEW g, NEW p, NEW before, NEW after, Plain(p, before), Plain(p, after)
  PROVE  IsVector(Within([i \in 1 .. n |-> Start(i, g[i])] \o before
                           \o [i \in 1 .. n |-> Join(i)] \o after,
                         [i \in 1 .. n |-> Destroy(i)]),
                  n, g, before, Len(before), after, Len(after))
<1> DEFINE b == Len(before)
           a == Len(after)
           s == [i \in 1 .. n |-> Start(i, g[i])]
           j == [i \in 1 .. n |-> Join(i)]
           d == [i \in 1 .. n |-> Destroy(i)]
           x == s \o before
           y == x \o j
           z == y \o after
           c == Within(z, d)
<1>1. /\ IsSequence(before) /\ IsSequence(after) /\ a \in Nat /\ b \in Nat
      /\ \A i \in 1 .. b : Formed(before[i])
      /\ \A i \in 1 .. a : Formed(after[i])
  BY DEF Plain, IsSequence
<1>2. /\ \A i \in 1 .. n : /\ Formed(s[i]) /\ s[i].op = "start" /\ s[i].handle = i
                           /\ s[i].body = g[i] /\ s[i].unwind = <<>>
      /\ \A i \in 1 .. n : Formed(j[i]) /\ j[i].op = "join" /\ j[i].handle = i
  BY GuardInstructions
<1>3. IsSequence(s) /\ Len(s) = n /\ IsSequence(j) /\ Len(j) = n
  <2>1. s = [i \in 1 .. n |-> s[i]] /\ j = [i \in 1 .. n |-> j[i]]
    OBVIOUS
  <2> HIDE DEF s, j
  <2> QED BY <2>1, FunctionSequence
<1>4. Tidy(d) /\ Len(d) = n /\ \A i \in 1 .. n : d[i].op \in {"destroy", "end_lifetime"}
  BY DestroysTidy DEF Tidy
<1>5. \A i \in 1 .. n : d[i].op = "destroy" /\ Formed(d[i])
  BY GuardInstructions
<1>6. Tidy(<<>>)
  BY EmptySequence DEF Tidy
<1> HIDE DEF s, j, d, a, b
<1>7. /\ IsSequence(x) /\ Len(x) = n + b
      /\ \A i \in 1 .. n : x[i] = s[i]
      /\ \A i \in 1 .. b : x[n + i] = before[i]
  BY <1>1, <1>3, Concatenation DEF b
<1> HIDE DEF x
<1>8. /\ IsSequence(y) /\ Len(y) = n + b + n
      /\ \A i \in 1 .. n + b : y[i] = x[i]
      /\ \A i \in 1 .. n : y[n + b + i] = j[i]
  BY <1>3, <1>7, Concatenation
<1> HIDE DEF y
<1>9. /\ IsSequence(z) /\ Len(z) = n + b + n + a
      /\ \A i \in 1 .. n + b + n : z[i] = y[i]
      /\ \A i \in 1 .. a : z[n + b + n + i] = after[i]
  BY <1>1, <1>8, Concatenation DEF a
<1> HIDE DEF z
<1>10. /\ \A i \in 1 .. n : z[i] = s[i]
       /\ \A i \in 1 .. b : z[n + i] = before[i]
       /\ \A i \in 1 .. n : z[n + b + i] = j[i]
  <2>1. ASSUME NEW i \in 1 .. n PROVE z[i] = s[i]
    <3>1. i \in 1 .. n + b /\ i \in 1 .. n + b + n
      BY <1>1, <2>1
    <3> QED BY <1>7, <1>8, <1>9, <3>1
  <2>2. ASSUME NEW i \in 1 .. b PROVE z[n + i] = before[i]
    <3>1. n + i \in 1 .. n + b /\ n + i \in 1 .. n + b + n
      BY <1>1, <2>2
    <3> QED BY <1>7, <1>8, <1>9, <3>1
  <2>3. ASSUME NEW i \in 1 .. n PROVE z[n + b + i] = j[i]
    <3>1. n + b + i \in 1 .. n + b + n
      BY <1>1, <2>3
    <3> QED BY <1>8, <1>9, <3>1
  <2> QED BY <2>1, <2>2, <2>3
<1>11. \A i \in 1 .. Len(z) : Formed(z[i])
  <2> TAKE i \in 1 .. Len(z)
  <2>0. i \in 1 .. n + b + n + a
    BY <1>9
  <2>1. CASE i \in 1 .. n
    BY <2>1, <1>10, <1>2
  <2>2. CASE i - n \in 1 .. b
    <3>1. n + (i - n) = i
      BY <2>0
    <3> QED BY <3>1, <2>2, <1>10, <1>1
  <2>3. CASE i - n - b \in 1 .. n
    <3>1. n + b + (i - n - b) = i
      BY <2>0, <1>1
    <3> QED BY <3>1, <2>3, <1>10, <1>2
  <2>4. CASE i - n - b - n \in 1 .. a
    <3>1. n + b + n + (i - n - b - n) = i
      BY <2>0, <1>1
    <3> QED BY <3>1, <2>4, <1>9, <1>1
  <2> QED BY <1>1, <2>0, <2>1, <2>2, <2>3, <2>4
<1>12. /\ IsSequence(c) /\ Len(c) = Len(z) + Len(d)
       /\ \A i \in 1 .. Len(z) : Alike(c[i], z[i])
       /\ \A i \in 1 .. Len(d) : c[Len(z) + i] = d[i]
  <2>1. Tidy(d) /\ IsSequence(z)
    BY <1>4, <1>9
  <2>2. IsScope(c, z, d)
    BY <2>1, <1>11, WithinPlaces
  <2> QED BY <2>2 DEF IsScope
<1> HIDE DEF c
<1>13. ASSUME NEW i \in 1 .. n
       PROVE  /\ c[i].op = "start" /\ c[i].handle = i /\ c[i].body = g[i]
              /\ Tidy(c[i].unwind)
  <2>1. i \in 1 .. Len(z)
    BY <1>9, <1>1
  <2>2. Alike(c[i], s[i])
    BY <2>1, <1>12, <1>10
  <2> QED BY <2>2, <1>2, <1>6 DEF Alike, HandleOps
<1>14. ASSUME NEW i \in 1 .. b PROVE Alike(c[n + i], before[i])
  <2>1. n + i \in 1 .. Len(z)
    BY <1>9, <1>1
  <2> QED BY <2>1, <1>12, <1>10
<1>15. ASSUME NEW i \in 1 .. n PROVE c[n + b + i].op = "join" /\ c[n + b + i].handle = i
  <2>1. n + b + i \in 1 .. Len(z)
    BY <1>9, <1>1
  <2>2. Alike(c[n + b + i], j[i])
    BY <2>1, <1>12, <1>10
  <2> QED BY <2>2, <1>2 DEF Alike, HandleOps
<1>16. ASSUME NEW i \in 1 .. a PROVE Alike(c[n + b + n + i], after[i])
  <2>1. n + b + n + i \in 1 .. Len(z)
    BY <1>9, <1>1
  <2> QED BY <2>1, <1>12, <1>9
<1>17. ASSUME NEW i \in 1 .. n PROVE c[n + b + n + a + i].op = "destroy"
  BY <1>4, <1>5, <1>9, <1>12
<1>18. ASSUME NEW i \in 1 .. Len(c) PROVE Formed(c[i])
  <2>1. CASE i \in 1 .. Len(z)
    BY <2>1, <1>12 DEF Alike
  <2>2. CASE i - Len(z) \in 1 .. n
    <3>1. Len(z) + (i - Len(z)) = i
      BY <1>1, <1>9
    <3> QED BY <3>1, <2>2, <1>12, <1>4, <1>5
  <2> QED BY <1>1, <1>4, <1>9, <1>12, <2>1, <2>2
<1>19. Len(c) = n + b + n + a + n
  BY <1>4, <1>9, <1>12
<1>20. IsVector(c, n, g, before, b, after, a)
  BY <1>12, <1>13, <1>14, <1>15, <1>16, <1>17, <1>18, <1>19 DEF IsVector
<1> QED BY <1>20 DEF c, z, y, x, s, j, d, a, b

(* The programs with one thread. *)
Single == {"atomic_flag", "simple_compare_exchange_weak", "pointer_arithmetic"}

(* The programs whose main starts all of its threads, then joins them all  *)
(* and returns what they computed.                                         *)
Collecting ==
  {"spinlock_mutex", "multithread_compare_exchange_weak", "parallel_accumulate",
   "release_sequence"}

(* How many threads p starts, before it does anything else. *)
Starts(p, in) ==
  CASE p \in {"spinlock_mutex", "multithread_compare_exchange_weak"} -> in.cores
    [] p = "parallel_accumulate" -> IF in.length = 0 THEN 0 ELSE num_threads(in) - 1
    [] p = "release_sequence" -> 2
    [] OTHER -> 0

(* What the i-th of them executes. *)
Body(p, in, i) ==
  CASE p = "spinlock_mutex" -> Counting \o Counting
    [] p = "multithread_compare_exchange_weak" -> increment_with_loop
    [] p = "parallel_accumulate" -> accumulate_block(in, i - 1)
    [] p = "release_sequence" -> IF i = 1 THEN producer ELSE consumer

(* What main executes after that. *)
MainOps(p) ==
  CASE p \in Single -> PlainOps
    [] p = "parallel_accumulate" -> {"access", "join", "destroy", "end_lifetime"}
    [] OTHER -> {"join", "destroy"}

(* The program starts its threads at its first places, the i-th with the   *)
(* i-th body, and then executes only the operations of MainOps.            *)
StartsFirst(p, in) ==
  LET c == Code(p, in)
      n == Starts(p, in)
  IN  /\ IsSequence(c) /\ n \in 0 .. MaxThreads /\ n <= Len(c)
      /\ \A i \in 1 .. n : /\ c[i].op = "start" /\ c[i].body = Body(p, in, i)
                           /\ Tidy(c[i].unwind)
      /\ \A i \in n + 1 .. Len(c) : c[i].op \in MainOps(p)
      /\ \A i \in 1 .. n : Plain(p, Body(p, in, i))

(* A program that starts its threads in a loop and joins them. *)
StartsThenJoins(c, n, f) ==
  /\ IsSequence(c) /\ Len(c) = n + n + n
  /\ \A i \in 1 .. n : c[i].op = "start" /\ c[i].body = f /\ Tidy(c[i].unwind)
  /\ \A i \in n + 1 .. n + n + n : c[i].op \in {"join", "destroy"}

(* Starting threads into a vector and joining them starts them first. *)
LEMMA VectorStartsFirst ==
  ASSUME NEW n \in Nat, NEW f
  PROVE  StartsThenJoins(
           Within([i \in 1 .. n |-> Start(i, f)] \o <<>> \o [i \in 1 .. n |-> Join(i)] \o <<>>,
                  [i \in 1 .. n |-> Destroy(i)]), n, f)
<1> DEFINE g == [i \in 1 .. n |-> f]
           p == "containers"
           e == <<>>
           c == Within([i \in 1 .. n |-> Start(i, g[i])] \o e \o [i \in 1 .. n |-> Join(i)] \o e,
                       [i \in 1 .. n |-> Destroy(i)])
<1>1. [i \in 1 .. n |-> Start(i, f)] = [i \in 1 .. n |-> Start(i, g[i])]
  OBVIOUS
<1>2. \A i \in 1 .. n : g[i] = f
  OBVIOUS
<1>4. Plain(p, e) /\ Len(e) = 0
  BY NothingIsPlain
<1> HIDE DEF g, p, e
<1>3. IsVector(c, n, g, e, Len(e), e, Len(e))
  BY <1>4, VectorPlaces
<1> HIDE DEF c
<1>5. /\ IsSequence(c) /\ Len(c) = n + 0 + n + 0 + n
      /\ \A i \in 1 .. n : c[i].op = "start" /\ c[i].body = g[i] /\ Tidy(c[i].unwind)
      /\ \A i \in 1 .. n : c[n + 0 + i].op = "join"
      /\ \A i \in 1 .. n : c[n + 0 + n + 0 + i].op = "destroy"
  BY <1>3, <1>4 DEF IsVector
<1>6. ASSUME NEW i \in n + 1 .. n + n + n PROVE c[i].op \in {"join", "destroy"}
  <2>1. CASE i - n \in 1 .. n
    <3>1. n + 0 + (i - n) = i
      OBVIOUS
    <3> QED BY <1>5, <2>1, <3>1
  <2>2. CASE i - n - n \in 1 .. n
    <3>1. n + 0 + n + 0 + (i - n - n) = i
      OBVIOUS
    <3> QED BY <1>5, <2>2, <3>1
  <2> QED BY <2>1, <2>2
<1>7. StartsThenJoins(c, n, f)
  BY <1>2, <1>5, <1>6 DEF StartsThenJoins
<1> QED BY <1>1, <1>7 DEF c, e

(* Spinlock: the threads are started first. *)
LEMMA SpinlockStartsFirst ==
  ASSUME NEW in \in Inputs("spinlock_mutex")
  PROVE  StartsFirst("spinlock_mutex", in)
<1> DEFINE p == "spinlock_mutex"
           n == in.cores
           c == spinlock_mutex(in)
           f == Counting \o Counting
<1>1. n \in 0 .. MaxThreads /\ n \in Nat
  BY InputTypes
<1>2. Plain(p, f)
  BY PlainBodies, PlainConcat
<1>3. Code(p, in) = c /\ Starts(p, in) = n /\ MainOps(p) = {"join", "destroy"}
      /\ \A i \in 1 .. n : Body(p, in, i) = f
  BY DEF Code, Starts, MainOps, Single, Body
<1>4. c = Within([i \in 1 .. n |-> Start(i, f)] \o <<>> \o [i \in 1 .. n |-> Join(i)] \o <<>>,
                 [i \in 1 .. n |-> Destroy(i)])
  BY DEF spinlock_mutex, ThreadVector
<1> HIDE DEF c, f, n, p
<1>5. StartsThenJoins(c, n, f)
  BY <1>1, <1>4, VectorStartsFirst
<1>6. StartsFirst(p, in)
  BY <1>1, <1>2, <1>3, <1>5 DEF StartsFirst, StartsThenJoins
<1> QED BY <1>6 DEF p

(* The loops of compare_exchange_weak: the threads are started first. *)
LEMMA ExchangeStartsFirst ==
  ASSUME NEW in \in Inputs("multithread_compare_exchange_weak")
  PROVE  StartsFirst("multithread_compare_exchange_weak", in)
<1> DEFINE p == "multithread_compare_exchange_weak"
           n == in.cores
           c == multithread_compare_exchange_weak(in)
           f == increment_with_loop
<1>1. n \in 0 .. MaxThreads /\ n \in Nat
  BY InputTypes
<1>2. Plain(p, f)
  BY PlainBodies
<1>3. Code(p, in) = c /\ Starts(p, in) = n /\ MainOps(p) = {"join", "destroy"}
      /\ \A i \in 1 .. n : Body(p, in, i) = f
  BY DEF Code, Starts, MainOps, Single, Body
<1>4. c = Within([i \in 1 .. n |-> Start(i, f)] \o <<>> \o [i \in 1 .. n |-> Join(i)] \o <<>>,
                 [i \in 1 .. n |-> Destroy(i)])
  BY DEF multithread_compare_exchange_weak, ThreadVector
<1> HIDE DEF c, f, n, p
<1>5. StartsThenJoins(c, n, f)
  BY <1>1, <1>4, VectorStartsFirst
<1>6. StartsFirst(p, in)
  BY <1>1, <1>2, <1>3, <1>5 DEF StartsFirst, StartsThenJoins
<1> QED BY <1>6 DEF p

(* A program with one thread starts none. *)
LEMMA SingleStartsFirst ==
  ASSUME NEW p \in Single, NEW in \in Inputs(p)
  PROVE  StartsFirst(p, in)
<1>1. Starts(p, in) = 0 /\ MainOps(p) = PlainOps /\ p # "edit_document"
  BY DEF Single, Starts, MainOps
<1>2. Plain(p, Code(p, in))
  BY SingleThreaded DEF Single, Code
<1>3. IsSequence(Code(p, in)) /\ \A i \in 1 .. Len(Code(p, in)) : Code(p, in)[i].op \in PlainOps
  BY <1>1, <1>2 DEF Plain
<1> QED BY ThreadProgramsAssumption, <1>1, <1>3 DEF StartsFirst, IsSequence

(* The scope of one thread. *)
IsThreadScope(c, f, s) ==
  /\ IsSequence(c) /\ Len(c) = Len(s) + 2
  /\ \A i \in 1 .. Len(c) : Formed(c[i])
  /\ c[1].op = "start" /\ c[1].body = f /\ Tidy(c[1].unwind)
  /\ \A i \in 1 .. Len(s) : Alike(c[i + 1], s[i])
  /\ c[Len(s) + 2].op = "destroy"

(* What is at each place of the scope of one thread. *)
LEMMA ThreadPlaces ==
  ASSUME NEW h, NEW f, NEW s, IsSequence(s), \A i \in 1 .. Len(s) : Formed(s[i])
  PROVE  IsThreadScope(Thread(h, f, s), f, s)
<1> DEFINE d == <<Destroy(h)>>
           w == Within(s, d)
           e == Start(h, f)
           c == <<e>> \o w
<1>1. Tidy(d) /\ Len(d) = 1 /\ d[1].op = "destroy" /\ Formed(d[1])
  BY OneElement, GuardInstructions DEF Tidy
<1>2. Tidy(<<>>)
  BY EmptySequence DEF Tidy
<1>3. Formed(e) /\ e.op = "start" /\ e.body = f /\ e.unwind = <<>>
  BY GuardInstructions
<1> HIDE DEF d, e
<1>4. /\ IsSequence(w) /\ Len(w) = Len(s) + 1 /\ Len(s) \in Nat
      /\ \A i \in 1 .. Len(s) : Alike(w[i], s[i])
      /\ w[Len(s) + 1] = d[1]
  <2>1. IsScope(w, s, d)
    BY <1>1, WithinPlaces
  <2> QED BY <2>1, <1>1 DEF IsScope, IsSequence
<1> HIDE DEF w
<1>5. /\ IsSequence(c) /\ Len(c) = Len(w) + 1 /\ c[1] = e
      /\ \A i \in 1 .. Len(w) : c[1 + i] = w[i]
  BY <1>4, OneElement, Concatenation
<1>6. Thread(h, f, s) = c
  BY DEF Thread, w, d, e
<1> HIDE DEF c
<1>7. \A i \in 1 .. Len(s) : Alike(c[i + 1], s[i])
  <2> TAKE i \in 1 .. Len(s)
  <2>1. i \in 1 .. Len(w) /\ 1 + i = i + 1
    BY <1>4
  <2> QED BY <2>1, <1>4, <1>5
<1>8. c[Len(s) + 2] = d[1]
  <2>1. Len(s) + 1 \in 1 .. Len(w) /\ 1 + (Len(s) + 1) = Len(s) + 2
    BY <1>4
  <2> QED BY <2>1, <1>4, <1>5
<1>9. \A i \in 1 .. Len(s) + 2 : Formed(c[i])
  <2> TAKE i \in 1 .. Len(s) + 2
  <2>1. CASE i = 1
    BY <2>1, <1>3, <1>5
  <2>2. CASE i - 1 \in 1 .. Len(s)
    <3>1. (i - 1) + 1 = i
      OBVIOUS
    <3> QED BY <2>2, <3>1, <1>7 DEF Alike
  <2>3. CASE i = Len(s) + 2
    BY <2>3, <1>1, <1>8
  <2> QED BY <1>4, <2>1, <2>2, <2>3
<1>10. IsThreadScope(c, f, s)
  BY <1>1, <1>2, <1>3, <1>4, <1>5, <1>7, <1>8, <1>9 DEF IsThreadScope
<1> QED BY <1>6, <1>10

(* The release sequence: both threads are started first. *)
LEMMA ReleaseSequenceStartsFirst ==
  ASSUME NEW in
  PROVE  StartsFirst("release_sequence", in)
<1> DEFINE p == "release_sequence"
           j == <<Join(1), Join(2)>>
           b == Thread(2, consumer, j)
           c == Thread(1, producer, b)
<1>1. /\ IsSequence(j) /\ Len(j) = 2
      /\ \A i \in 1 .. 2 : Formed(j[i]) /\ j[i].op = "join"
  <2>1. IsSequence(<<Join(1)>> \o <<Join(2)>>) /\ j = <<Join(1)>> \o <<Join(2)>>
    BY OneElement, Concatenation
  <2>2. Formed(Join(1)) /\ Formed(Join(2)) /\ Join(1).op = "join" /\ Join(2).op = "join"
    BY GuardInstructions
  <2>3. Len(j) = 2 /\ j[1] = Join(1) /\ j[2] = Join(2)
    OBVIOUS
  <2> HIDE DEF j
  <2>4. \A i \in 1 .. 2 : i = 1 \/ i = 2
    OBVIOUS
  <2> QED BY <2>1, <2>2, <2>3, <2>4
<1> HIDE DEF j
<1>2. /\ IsSequence(b) /\ Len(b) = 4 /\ \A i \in 1 .. 4 : Formed(b[i])
      /\ b[1].op = "start" /\ b[1].body = consumer /\ Tidy(b[1].unwind)
      /\ \A i \in 1 .. 2 : Alike(b[i + 1], j[i])
      /\ b[4].op = "destroy"
  <2>1. IsThreadScope(b, consumer, j)
    BY <1>1, ThreadPlaces
  <2> QED BY <1>1, <2>1 DEF IsThreadScope
<1>3. /\ b[2].op = "join" /\ b[3].op = "join" /\ Len(b) = 4 /\ IsSequence(b)
      /\ b[1].op = "start" /\ b[1].body = consumer /\ Tidy(b[1].unwind) /\ b[4].op = "destroy"
      /\ \A i \in 1 .. 4 : Formed(b[i])
  <2>1. /\ Alike(b[1 + 1], j[1]) /\ Alike(b[2 + 1], j[2]) /\ 1 + 1 = 2 /\ 2 + 1 = 3
        /\ j[1].op = "join" /\ j[2].op = "join"
    BY <1>1, <1>2
  <2>2. b[2].op = "join" /\ b[3].op = "join"
    BY <2>1 DEF Alike
  <2> QED BY <2>2, <1>2
<1> HIDE DEF b
<1>4. /\ IsSequence(c) /\ Len(c) = 6
      /\ c[1].op = "start" /\ c[1].body = producer /\ Tidy(c[1].unwind)
      /\ \A i \in 1 .. 4 : Alike(c[i + 1], b[i])
      /\ c[6].op = "destroy"
  <2>1. IsThreadScope(c, producer, b)
    BY <1>3, ThreadPlaces
  <2> QED BY <1>3, <2>1 DEF IsThreadScope
<1>5. /\ Code(p, in) = c /\ Starts(p, in) = 2 /\ MainOps(p) = {"join", "destroy"}
      /\ Body(p, in, 1) = producer /\ Body(p, in, 2) = consumer
  BY DEF Code, Starts, MainOps, Single, Body, release_sequence, b, j
<1> HIDE DEF c
<1>6. Plain(p, producer) /\ Plain(p, consumer)
  BY PlainBodies
<1> HIDE DEF p
<1>7. /\ c[2].op = "start" /\ c[2].body = consumer /\ Tidy(c[2].unwind)
      /\ c[3].op = "join" /\ c[4].op = "join" /\ c[5].op = "destroy"
  <2>1. /\ Alike(c[1 + 1], b[1]) /\ Alike(c[2 + 1], b[2]) /\ Alike(c[3 + 1], b[3])
        /\ Alike(c[4 + 1], b[4]) /\ 1 + 1 = 2 /\ 2 + 1 = 3 /\ 3 + 1 = 4 /\ 4 + 1 = 5
    BY <1>4
  <2> QED BY <2>1, <1>3 DEF Alike
<1>8. \A i \in 1 .. 2 : /\ c[i].op = "start" /\ c[i].body = Body(p, in, i)
                        /\ Tidy(c[i].unwind) /\ Plain(p, Body(p, in, i))
  <2>1. \A i \in 1 .. 2 : i = 1 \/ i = 2
    OBVIOUS
  <2> QED BY <2>1, <1>4, <1>5, <1>6, <1>7
<1>9. \A i \in 2 + 1 .. 6 : c[i].op \in {"join", "destroy"}
  <2>1. \A i \in 2 + 1 .. 6 : i = 3 \/ i = 4 \/ i = 5 \/ i = 6
    OBVIOUS
  <2> QED BY <2>1, <1>4, <1>7
<1>10. StartsFirst(p, in)
  <2> DEFINE n == Starts(p, in)
             o == MainOps(p)
  <2>1. n = 2 /\ o = {"join", "destroy"} /\ n \in 0 .. MaxThreads /\ n <= Len(c)
    BY ThreadProgramsAssumption, <1>4, <1>5
  <2>2. \A i \in n + 1 .. Len(c) : c[i].op \in o
    BY <1>4, <1>9, <2>1
  <2>3. \A i \in 1 .. n : /\ c[i].op = "start" /\ c[i].body = Body(p, in, i)
                          /\ Tidy(c[i].unwind) /\ Plain(p, Body(p, in, i))
    BY <1>8, <2>1
  <2> HIDE DEF n, o
  <2> QED BY <1>4, <1>5, <2>1, <2>2, <2>3 DEF StartsFirst, n, o
<1> QED BY <1>10 DEF p

(* The places of parallel_accumulate. *)
IsAccumulate(c, in, n) ==
  /\ IsSequence(c) /\ Len(c) = n + (n - 1) + n + (n - 1) + n
  /\ \A i \in 1 .. n - 1 : /\ c[i].op = "start" /\ c[i].handle = i /\ c[i].body = accumulate_block(in, i - 1)
                           /\ Tidy(c[i].unwind)
  /\ c[n] = Access(results[n], "add", SumOf(block(in, n - 1)))
  /\ \A i \in 1 .. n - 1 : c[n + i].op = "join" /\ c[n + i].handle = i
  /\ \A i \in 1 .. n : c[n + (n - 1) + i] = Access(results[i], "collect", 0)
  /\ \A i \in n + (n - 1) + n + 1 .. n + (n - 1) + n + (n - 1) + n :
       c[i].op \in {"destroy", "end_lifetime"}

(* The end of the lifetimes of what parallel_accumulate declares. *)
LEMMA LifetimesTidy ==
  ASSUME NEW n \in 1 .. MaxThreads
  PROVE  LET d == [i \in 1 .. n |-> EndLifetime(results[i])] IN Tidy(d) /\ Len(d) = n
<1> DEFINE d == [i \in 1 .. n |-> EndLifetime(results[i])]
<1>1. d = [i \in 1 .. n |-> d[i]]
  OBVIOUS
<1>2. \A i \in 1 .. n : Formed(d[i]) /\ d[i].op = "end_lifetime"
  BY ThreadProgramsAssumption, ResultLocations, GuardInstructions
<1> HIDE DEF d
<1>3. IsSequence(d) /\ Len(d) = n
  BY <1>1, FunctionSequence
<1> QED BY <1>2, <1>3 DEF Tidy, d

(* What is at each place of parallel_accumulate. *)
LEMMA AccumulatePlaces ==
  ASSUME NEW in \in Inputs("parallel_accumulate"), in.length # 0
  PROVE  IsAccumulate(Code("parallel_accumulate", in), in, num_threads(in))
<1> DEFINE p == "parallel_accumulate"
           n == num_threads(in)
           m == n - 1
<1>1. n \in 1 .. MaxThreads /\ m \in Nat
  BY ThreadsOfAccumulate
<1> DEFINE g == [i \in 1 .. m |-> accumulate_block(in, i - 1)]
           before == accumulate_block(in, n - 1)
           after == [i \in 1 .. n |-> Access(results[i], "collect", 0)]
           u == [i \in 1 .. n |-> EndLifetime(results[i])]
           v == Within([i \in 1 .. m |-> Start(i, g[i])] \o before
                         \o [i \in 1 .. m |-> Join(i)] \o after,
                       [i \in 1 .. m |-> Destroy(i)])
           c == Within(v, u)
<1>2. Code(p, in) = c
  <2>1. [i \in 1 .. m |-> Start(i, g[i])] = [i \in 1 .. n - 1 |-> Start(i, accumulate_block(in, i - 1))]
    OBVIOUS
  <2>2. v = Within([i \in 1 .. n - 1 |-> Start(i, accumulate_block(in, i - 1))]
                     \o before \o [i \in 1 .. n - 1 |-> Join(i)] \o after,
                   [i \in 1 .. n - 1 |-> Destroy(i)])
    BY <2>1
  <2> HIDE DEF v
  <2>3. parallel_accumulate(in) = Within(v, u)
    BY <2>2 DEF parallel_accumulate, ThreadVector
  <2> QED BY <2>3 DEF Code
<1>3. Plain(p, before) /\ Plain(p, after)
  <2>1. n - 1 \in 0 .. n - 1
    BY <1>1
  <2> QED BY <2>1, <1>1, BlockBodies, CollectBody
<1>4. Len(before) = 1 /\ before[1] = Access(results[n], "add", SumOf(block(in, n - 1)))
  <2>1. (n - 1) + 1 = n
    BY <1>1
  <2> HIDE DEF n
  <2> QED BY <2>1 DEF accumulate_block
<1>5. Len(after) = n /\ \A i \in 1 .. n : after[i] = Access(results[i], "collect", 0)
  <2>1. after = [i \in 1 .. n |-> after[i]]
    OBVIOUS
  <2>2. \A i \in 1 .. n : after[i] = Access(results[i], "collect", 0)
    OBVIOUS
  <2> HIDE DEF after
  <2>3. n \in Nat
    BY <1>1
  <2> QED BY <2>1, <2>2, <2>3, FunctionSequence
<1>6. Tidy(u) /\ Len(u) = n
  BY <1>1, LifetimesTidy
<1>7. \A i \in 1 .. m : g[i] = accumulate_block(in, i - 1)
  OBVIOUS
<1>8. /\ before[1].op = "access" /\ \A i \in 1 .. n : after[i].op = "access"
  BY <1>4, <1>5 DEF Access
<1> HIDE DEF g, before, after, u, p, n
<1>9. IsVector(v, m, g, before, Len(before), after, Len(after))
  BY <1>1, <1>3, VectorPlaces
<1> HIDE DEF v
<1>10. /\ IsSequence(v) /\ Len(v) = m + 1 + m + n + m
       /\ \A i \in 1 .. Len(v) : Formed(v[i])
       /\ \A i \in 1 .. m : /\ v[i].op = "start" /\ v[i].handle = i /\ v[i].body = g[i]
                           /\ Tidy(v[i].unwind)
       /\ \A i \in 1 .. 1 : Alike(v[m + i], before[i])
       /\ \A i \in 1 .. m : v[m + 1 + i].op = "join" /\ v[m + 1 + i].handle = i
       /\ \A i \in 1 .. n : Alike(v[m + 1 + m + i], after[i])
       /\ \A i \in 1 .. m : v[m + 1 + m + n + i].op = "destroy"
  BY <1>4, <1>5, <1>9 DEF IsVector
<1>11. IsScope(c, v, u)
  BY <1>6, <1>10, WithinPlaces
<1> HIDE DEF c
<1>12. /\ IsSequence(c) /\ Len(c) = Len(v) + n
       /\ \A i \in 1 .. Len(v) : Alike(c[i], v[i])
       /\ \A i \in 1 .. n : c[Len(v) + i] = u[i]
  BY <1>6, <1>11 DEF IsScope
<1>13. m + 1 = n /\ m = n - 1
  BY <1>1
<1> HIDE DEF m
<1>b. Len(v) = n + m + n + m /\ n \in Nat /\ m \in Nat
  BY <1>1, <1>10, <1>13
<1>14. ASSUME NEW i \in 1 .. m
       PROVE  /\ c[i].op = "start" /\ c[i].handle = i /\ c[i].body = accumulate_block(in, i - 1)
              /\ Tidy(c[i].unwind)
  <2>1. i \in 1 .. Len(v)
    BY <1>1, <1>10
  <2>2. /\ Alike(c[i], v[i]) /\ v[i].op = "start" /\ v[i].handle = i /\ v[i].body = g[i]
        /\ Tidy(v[i].unwind)
    BY <2>1, <1>10, <1>12
  <2> QED BY <2>2, <1>7 DEF Alike, HandleOps
<1>15. c[n] = before[1]
  <2>1. n \in 1 .. Len(v)
    BY <1>1, <1>10, <1>13
  <2>2. Alike(c[n], v[n])
    BY <2>1, <1>12
  <2>3. 1 \in 1 .. 1
    OBVIOUS
  <2>4. Alike(v[m + 1], before[1])
    BY <1>10, <2>3
  <2> QED BY <2>2, <2>4, <1>8, <1>13 DEF Alike, Throwing
<1>16. ASSUME NEW i \in 1 .. m PROVE c[n + i].op = "join" /\ c[n + i].handle = i
  <2>1. n + i \in 1 .. Len(v)
    BY <1>b
  <2>2. Alike(c[n + i], v[n + i]) /\ v[n + i].op = "join" /\ v[n + i].handle = i
    BY <2>1, <1>10, <1>12, <1>13
  <2> QED BY <2>2 DEF Alike, HandleOps
<1>17. ASSUME NEW i \in 1 .. n PROVE c[n + m + i] = after[i]
  <2>1. n + m + i \in 1 .. Len(v)
    BY <1>b
  <2>2. Alike(c[n + m + i], v[n + m + i]) /\ Alike(v[n + m + i], after[i])
    BY <2>1, <1>10, <1>12, <1>13
  <2> QED BY <2>2, <1>8 DEF Alike, Throwing
<1>18. ASSUME NEW i \in n + m + n + 1 .. n + m + n + m + n
       PROVE  c[i].op \in {"destroy", "end_lifetime"}
  <2>0. Len(v) = n + m + n + m /\ n \in Nat /\ m \in Nat
    BY <1>b
  <2>1. CASE i - n - m - n \in 1 .. m
    <3>0. i \in Int
      BY <2>0
    <3>1. n + m + n + (i - n - m - n) = i /\ i \in 1 .. Len(v)
      BY <2>0, <2>1, <3>0
    <3>2. Alike(c[i], v[i])
      BY <3>1, <1>12
    <3>3. v[m + 1 + m + n + (i - n - m - n)].op = "destroy"
      BY <2>1, <1>10
    <3>4. m + 1 + m + n + (i - n - m - n) = i
      BY <2>0, <1>13
    <3> QED BY <3>2, <3>3, <3>4 DEF Alike
  <2>2. CASE i - Len(v) \in 1 .. n
    <3>1. Len(v) + (i - Len(v)) = i
      BY <2>0
    <3>2. c[i] = u[i - Len(v)]
      BY <3>1, <2>2, <1>12
    <3> QED BY <3>2, <2>2, <1>6 DEF Tidy
  <2> QED BY <2>0, <2>1, <2>2
<1>19. Len(c) = n + m + n + m + n
  BY <1>1, <1>10, <1>12, <1>13
<1>20. IsAccumulate(c, in, n)
  BY <1>4, <1>5, <1>12, <1>14, <1>15, <1>16, <1>17, <1>18, <1>19 DEF IsAccumulate, m
<1> QED BY <1>2, <1>20 DEF p, n

(* parallel_accumulate starts the threads of the blocks first. *)
LEMMA AccumulateStartsFirst ==
  ASSUME NEW in \in Inputs("parallel_accumulate")
  PROVE  StartsFirst("parallel_accumulate", in)
<1> DEFINE p == "parallel_accumulate"
           c == Code(p, in)
           k == Starts(p, in)
           o == {"access", "join", "destroy", "end_lifetime"}
<1>1. MainOps(p) = o
  BY DEF MainOps, Single
<1>2. \A i : Body(p, in, i) = accumulate_block(in, i - 1)
  BY DEF Body
<1>3. CASE in.length = 0
  <2>1. c = <<>> /\ k = 0
    BY <1>3 DEF Code, parallel_accumulate, Starts
  <2> HIDE DEF c, k
  <2>2. IsSequence(c) /\ Len(c) = 0
    BY <2>1, EmptySequence
  <2> HIDE DEF p
  <2> QED BY ThreadProgramsAssumption, <2>1, <2>2 DEF StartsFirst, c, k, p
<1>4. CASE in.length # 0
  <2> DEFINE n == num_threads(in)
  <2>1. n \in 1 .. MaxThreads /\ k = n - 1
    BY <1>4, ThreadsOfAccumulate DEF Starts
  <2>2. IsAccumulate(c, in, n)
    BY <1>4, AccumulatePlaces
  <2>3. ASSUME NEW i \in 1 .. k PROVE Plain(p, accumulate_block(in, i - 1))
    <3>1. i - 1 \in 0 .. n - 1
      BY <2>1
    <3> QED BY <3>1, <1>4, BlockBodies
  <2> HIDE DEF p, c, k, n
  <2>4. ASSUME NEW i \in k + 1 .. Len(c) PROVE c[i].op \in o
    <3>1. i \in n .. n + (n - 1) + n + (n - 1) + n
      BY <2>1, <2>2 DEF IsAccumulate
    <3>2. CASE i = n
      BY <3>2, <2>2 DEF IsAccumulate, Access
    <3>3. CASE i - n \in 1 .. n - 1
      <4>1. n + (i - n) = i
        BY <2>1
      <4> QED BY <4>1, <3>3, <2>2 DEF IsAccumulate
    <3>4. CASE i - n - (n - 1) \in 1 .. n
      <4>1. n + (n - 1) + (i - n - (n - 1)) = i
        BY <2>1
      <4>2. c[i] = Access(results[i - n - (n - 1)], "collect", 0)
        BY <4>1, <3>4, <2>2 DEF IsAccumulate
      <4> QED BY <4>2 DEF Access
    <3>5. CASE i \in n + (n - 1) + n + 1 .. n + (n - 1) + n + (n - 1) + n
      BY <3>5, <2>2 DEF IsAccumulate
    <3> QED BY <2>1, <3>1, <3>2, <3>3, <3>4, <3>5
  <2>5. k \in 0 .. MaxThreads /\ k <= Len(c)
    BY ThreadProgramsAssumption, <2>1, <2>2 DEF IsAccumulate
  <2>6. \A i \in 1 .. k : c[i].op = "start" /\ c[i].body = accumulate_block(in, i - 1)
                          /\ Tidy(c[i].unwind)
    BY <2>1, <2>2 DEF IsAccumulate
  <2>7. IsSequence(c)
    BY <2>2 DEF IsAccumulate
  <2>8. /\ MainOps(p) = o /\ \A i : Body(p, in, i) = accumulate_block(in, i - 1)
    BY <1>1, <1>2 DEF p
  <2>9. StartsFirst(p, in)
    BY <2>3, <2>4, <2>5, <2>6, <2>7, <2>8 DEF StartsFirst, c, k
  <2> QED BY <2>9 DEF p
<1> QED BY <1>3, <1>4

(* All of these programs start their threads first. *)
LEMMA AllStartFirst ==
  ASSUME NEW p \in Single \cup Collecting, NEW in \in Inputs(p)
  PROVE  StartsFirst(p, in)
<1>1. CASE p \in Single
  BY <1>1, SingleStartsFirst
<1>2. CASE p \in Collecting
  BY <1>2, SpinlockStartsFirst, ExchangeStartsFirst, AccumulateStartsFirst,
     ReleaseSequenceStartsFirst DEF Collecting
<1> QED BY <1>1, <1>2

-----------------------------------------------------------------------------
(* Where each thread is in its code *)

(* s is what is left of c. *)
Suffix(s, c) ==
  /\ IsSequence(s) /\ Len(s) <= Len(c)
  /\ \A i \in 1 .. Len(s) : s[i] = c[Len(c) - Len(s) + i]

(* A sequence is left of itself. *)
LEMMA SuffixSelf ==
  ASSUME NEW c, IsSequence(c)
  PROVE  Suffix(c, c)
BY DEF Suffix, IsSequence

(* What is left after one more instruction. *)
LEMMA SuffixTail ==
  ASSUME NEW s, NEW c, IsSequence(c), Suffix(s, c), s # <<>>
  PROVE  /\ Len(c) \in Nat /\ Len(s) \in 1 .. Len(c)
         /\ Head(s) = c[Len(c) - Len(s) + 1]
         /\ Suffix(Tail(s), c) /\ Len(Tail(s)) = Len(s) - 1
<1>1. /\ IsSequence(s) /\ Len(s) <= Len(c) /\ Len(s) \in Nat /\ Len(c) \in Nat
      /\ \A i \in 1 .. Len(s) : s[i] = c[Len(c) - Len(s) + i]
  BY DEF Suffix, IsSequence
<1>2. /\ Len(s) >= 1
      /\ IsSequence(Tail(s)) /\ Len(Tail(s)) = Len(s) - 1
      /\ Head(s) = s[1]
      /\ \A i \in 1 .. Len(s) - 1 : Tail(s)[i] = s[i + 1]
  BY <1>1, TailSequence
<1>3. ASSUME NEW i \in 1 .. Len(s) - 1 PROVE Tail(s)[i] = c[Len(c) - (Len(s) - 1) + i]
  <2>1. i + 1 \in 1 .. Len(s) /\ Len(c) - Len(s) + (i + 1) = Len(c) - (Len(s) - 1) + i
    BY <1>1, <1>2
  <2> QED BY <2>1, <1>1, <1>2
<1>4. 1 \in 1 .. Len(s)
  BY <1>1, <1>2
<1> QED BY <1>1, <1>2, <1>3, <1>4 DEF Suffix

(* What is left of a tidy sequence is tidy. *)
LEMMA TidyTail ==
  ASSUME NEW s, Tidy(s), s # <<>>
  PROVE  Tidy(Tail(s)) /\ Head(s).op \in {"destroy", "end_lifetime"}
<1>1. /\ Len(s) >= 1 /\ Len(s) \in Nat
      /\ IsSequence(Tail(s)) /\ Len(Tail(s)) = Len(s) - 1
      /\ Head(s) = s[1]
      /\ \A i \in 1 .. Len(s) - 1 : Tail(s)[i] = s[i + 1]
  BY TailSequence DEF Tidy, IsSequence
<1>2. \A i \in 1 .. Len(s) - 1 : i + 1 \in 1 .. Len(s)
  BY <1>1
<1>3. 1 \in 1 .. Len(s)
  BY <1>1
<1> QED BY <1>1, <1>2, <1>3 DEF Tidy

(* The place in c of the first element of what is left. *)
LEMMA Position ==
  ASSUME NEW l \in Nat, NEW s \in 1 .. l, NEW n \in Nat, n <= l,
         NEW z, z = IF s + n > l THEN l - s ELSE n
  PROVE  /\ l - s + 1 <= n => z = l - s + 1 - 1
         /\ l - s + 1 > n => z = n
         /\ l - s + 1 \in 1 .. n \/ l - s + 1 \in n + 1 .. l
         /\ l - s + 1 \in 1 .. n => l - s + 1 <= n /\ ~ (l - s + 1 > n)
         /\ l - s + 1 \in n + 1 .. l => l - s + 1 > n /\ ~ (l - s + 1 <= n)
OBVIOUS

(* The programs that are followed place by place. *)
Placed == Single \cup Collecting

(* How many threads have been started when s is left of c, which starts n. *)
StartedAt(s, c, n) == IF Len(s) + n > Len(c) THEN Len(c) - Len(s) ELSE n

(* The programs of Chapter 5 and parallel_accumulate go through their code *)
(* from its beginning to its end, unless a thread could not be started.    *)
OnItsWay ==
  program \in Placed =>
    LET c == Code(program, input)
        n == Starts(program, input)
    IN  /\ started <= n
        /\ \A i \in 1 .. started : Suffix(code[i], Body(program, input, i))
        /\ "start" \notin faults => Suffix(code[main], c) /\ started = StartedAt(code[main], c, n)
        /\ "start" \in faults => Tidy(code[main]) /\ started < n

(* They start their threads first. *)
LEMMA PlacedPrograms ==
  ASSUME NEW p \in Placed
  PROVE  p \notin Guarded /\ p \notin {"edit_document", "containers", "auto_joining"}
BY DEF Placed, Single, Collecting, Guarded

(* What a step does to code. *)
LEMMA CodeChange ==
  ASSUME ThreadInv, program \in Placed, NEW t \in Threads, Step(t)
  PROVE  /\ program' = program /\ input' = input
         /\ \/ /\ code' = code /\ started' = started
               /\ "start" \in faults' <=> "start" \in faults
            \/ /\ code[t] # <<>> /\ Instr(t).op # "start" /\ Continue(t) /\ started' = started
               /\ "start" \in faults' <=> "start" \in faults
            \/ StartThread(t)
            \/ StartThrows(t)
<1>1. program' = program /\ input' = input
  BY DEF Step, StartThread, StartThrows, JoinThread, DetachThread, NotJoinableThrows,
     MoveThread, SwapThreads, TerminateProgram, EditDocument, Pass, WorkThrows, FlowOffTheEnd,
     Leave, CheckAssertion, AccessData, StoreAtomic, LoadAtomic, AwaitValue, ReadModifyWrite,
     SpinOnFlag, CompareExchange, ExchangeInLoop, Raise, End, OnlyCode, MemoryStep
<1>2. program \notin Guarded \cup {"edit_document", "containers"}
  BY PlacedPrograms
<1>3. code[t] # <<>> =>
        /\ Instr(t).op \notin {"edit", "risk"}
        /\ Instr(t).op \in {"join", "detach", "throw_if_empty"} => Held(t) # Empty
  <2> SUFFICES ASSUME code[t] # <<>>
               PROVE  /\ Instr(t).op \notin {"edit", "risk"}
                      /\ Instr(t).op \in {"join", "detach", "throw_if_empty"} => Held(t) # Empty
    OBVIOUS
  <2>1. PICK x, exc \in Statuses :
           /\ Meets(t, x) /\ Fine(program, t, Instr(t), x, Strict)
           /\ \/ Steady(Instr(t), x)
              \/ Instr(t).op \in Throwing /\ Throws(program, t, Instr(t), x, exc)
    BY NextInstruction DEF ThreadInv
  <2>2. Steady(Instr(t), x) \/ Instr(t).op = "start"
    BY <2>1, <1>2 DEF Throws
  <2>3. Instr(t).op \notin {"edit", "risk"}
    BY <2>1, <2>2, <1>2 DEF Steady, Fine
  <2>4. ASSUME Instr(t).op \in {"join", "detach", "throw_if_empty"} PROVE Held(t) # Empty
    <3>1. x[Instr(t).handle] = "held" /\ Instr(t).handle \in HandlesOf(program, t)
      BY <2>1, <2>2, <2>4 DEF Steady, Fine, HandleOps
    <3> QED BY <2>1, <3>1 DEF Meets, Held
  <2> QED BY <2>3, <2>4
<1>4. ~ EditDocument(t) /\ ~ WorkThrows(t) /\ ~ NotJoinableThrows(t)
  BY <1>3 DEF EditDocument, WorkThrows, NotJoinableThrows, At, Instr
<1>5. CASE \/ AccessData(t) \/ StoreAtomic(t) \/ LoadAtomic(t) \/ ReadModifyWrite(t)
  BY <1>1, <1>5 DEF AccessData, StoreAtomic, LoadAtomic, ReadModifyWrite, MemoryStep, objects,
     At, Instr
<1>6. CASE \/ AwaitValue(t) \/ SpinOnFlag(t) \/ ExchangeInLoop(t)
  BY <1>1, <1>6 DEF AwaitValue, SpinOnFlag, ExchangeInLoop, MemoryStep, objects, At, Instr
<1>7. CASE CompareExchange(t)
  BY <1>1, <1>7 DEF CompareExchange, objects, At, Instr
<1>8. CASE \/ JoinThread(t) \/ DetachThread(t) \/ MoveThread(t) \/ SwapThreads(t)
  BY <1>1, <1>8 DEF JoinThread, DetachThread, MoveThread, SwapThreads, At, Instr
<1>9. CASE \/ TerminateProgram(t) \/ Pass(t) \/ FlowOffTheEnd(t) \/ Leave(t) \/ CheckAssertion(t)
  BY <1>1, <1>9 DEF TerminateProgram, Pass, FlowOffTheEnd, Leave, CheckAssertion, End, OnlyCode,
     objects, At, Instr
<1> QED BY <1>1, <1>4, <1>5, <1>6, <1>7, <1>8, <1>9 DEF Step

(* The facts about where a thread is that its next step depends on. *)
LEMMA WhereItIs ==
  ASSUME ThreadInv, OnItsWay, program \in Placed, NEW t \in Threads, code[t] # <<>>
  PROVE  LET p == program
             n == Starts(p, input)
             c == IF t = main THEN Code(p, input) ELSE Body(p, input, t)
             k == Len(c) - Len(code[t]) + 1
         IN  /\ StartsFirst(p, input)
             /\ t # main => /\ t \in 1 .. started /\ t \in 1 .. n
                            /\ Plain(p, c) /\ Instr(t).op \in PlainOps
             /\ t = main /\ "start" \in faults => Instr(t).op \in {"destroy", "end_lifetime"}
             /\ t # main \/ "start" \notin faults =>
                  /\ IsSequence(c) /\ Suffix(code[t], c)
                  /\ Len(c) \in Nat /\ k \in 1 .. Len(c) /\ Instr(t) = c[k]
             /\ t = main /\ "start" \notin faults =>
                  /\ k <= n => started = k - 1 /\ Instr(t).op = "start"
                  /\ k > n => started = n /\ Instr(t).op \in MainOps(p)
<1> DEFINE p == program
           n == Starts(p, input)
           c == IF t = main THEN Code(p, input) ELSE Body(p, input, t)
           k == Len(c) - Len(code[t]) + 1
<1>1. StartsFirst(p, input)
  BY AllStartFirst DEF ThreadInv, Typing, Placed
<1>2. /\ n \in 0 .. MaxThreads /\ IsSequence(Code(p, input)) /\ n <= Len(Code(p, input))
      /\ \A i \in 1 .. n : Plain(p, Body(p, input, i))
      /\ started \in Nat /\ started <= n
  BY <1>1 DEF StartsFirst, ThreadInv, Typing, OnItsWay
<1>3. ASSUME t # main
      PROVE  /\ t \in 1 .. started /\ t \in 1 .. n /\ Plain(p, c) /\ IsSequence(c)
             /\ Suffix(code[t], c)
  <2>0. t \in Workers
    BY <1>3 DEF Threads
  <2>a. t \in Nat /\ started \in Nat
    BY <1>2, <2>0, ThreadProgramsAssumption DEF Workers
  <2>b. t > started => code[t] = <<>>
    BY <2>0 DEF ThreadInv, Unstarted
  <2>1. t \in Workers /\ t <= started
    BY <2>0, <2>a, <2>b
  <2>2. t \in 1 .. started
    BY <2>1 DEF Workers
  <2>3. t \in 1 .. n /\ c = Body(p, input, t)
    BY <1>2, <1>3, <2>2
  <2> HIDE DEF c, p, n
  <2>4. Plain(p, c) /\ IsSequence(c)
    BY <1>2, <2>3 DEF Plain
  <2>5. Suffix(code[t], c)
    BY <2>2, <2>3 DEF OnItsWay, p
  <2> QED BY <2>2, <2>3, <2>4, <2>5
<1>4. ASSUME t = main, "start" \notin faults
      PROVE  IsSequence(c) /\ Suffix(code[t], c) /\ started = StartedAt(code[t], c, n)
  BY <1>2, <1>4 DEF OnItsWay
<1>5. ASSUME t # main \/ "start" \notin faults
      PROVE  /\ IsSequence(c) /\ Suffix(code[t], c) /\ Len(c) \in Nat /\ k \in 1 .. Len(c)
             /\ Len(code[t]) \in 1 .. Len(c) /\ Instr(t) = c[k]
  <2>1. IsSequence(c) /\ Suffix(code[t], c)
    BY <1>3, <1>4, <1>5
  <2> HIDE DEF c
  <2>2. Len(c) \in Nat /\ Len(code[t]) \in 1 .. Len(c) /\ Instr(t) = c[Len(c) - Len(code[t]) + 1]
    BY <2>1, SuffixTail DEF Instr
  <2> QED BY <2>1, <2>2
<1>6. ASSUME t # main PROVE Instr(t).op \in PlainOps
  <2>1. p # "edit_document"
    BY PlacedPrograms
  <2> HIDE DEF p, c, k
  <2> QED BY <1>3, <1>5, <1>6, <2>1 DEF Plain
<1>7. ASSUME t = main, "start" \in faults PROVE Instr(t).op \in {"destroy", "end_lifetime"}
  BY <1>7, TidyTail DEF OnItsWay, Instr
<1>8. ASSUME t = main, "start" \notin faults
      PROVE  /\ k <= n => started = k - 1 /\ Instr(t).op = "start"
             /\ k > n => started = n /\ Instr(t).op \in MainOps(p)
  <2>1. c = Code(p, input)
    BY <1>8
  <2>2. /\ \A i \in 1 .. n : c[i].op = "start"
        /\ \A i \in n + 1 .. Len(c) : c[i].op \in MainOps(p)
    BY <2>1, <1>1 DEF StartsFirst
  <2>3. /\ Len(c) \in Nat /\ k \in 1 .. Len(c) /\ Len(code[t]) \in 1 .. Len(c) /\ Instr(t) = c[k]
        /\ started = StartedAt(code[t], c, n) /\ k = Len(c) - Len(code[t]) + 1
    BY <1>4, <1>5, <1>8
  <2>4. n \in Nat
    BY <1>2
  <2> HIDE DEF p, c, k, n
  <2>5. PICK l : l = Len(c)
    OBVIOUS
  <2>6. PICK s : s = Len(code[t])
    OBVIOUS
  <2>7. /\ l \in Nat /\ s \in 1 .. l /\ k = l - s + 1
        /\ started = IF s + n > l THEN l - s ELSE n
    BY <2>3, <2>5, <2>6 DEF StartedAt
  <2>8. n <= l
    BY <1>2, <2>1, <2>5 DEF p
  <2>9. /\ k <= n => started = k - 1
        /\ k > n => started = n
        /\ k \in 1 .. n \/ k \in n + 1 .. Len(c)
        /\ k \in 1 .. n => k <= n /\ ~ (k > n)
        /\ k \in n + 1 .. Len(c) => k > n /\ ~ (k <= n)
    BY <2>4, <2>5, <2>7, <2>8, Position
  <2>10. CASE k \in 1 .. n
    <3>1. Instr(t).op = "start"
      BY <2>2, <2>3, <2>10
    <3> QED BY <2>9, <2>10, <3>1
  <2>11. CASE k \in n + 1 .. Len(c)
    <3>1. Instr(t).op \in MainOps(p)
      BY <2>2, <2>3, <2>11
    <3> QED BY <2>9, <2>11, <3>1
  <2> QED BY <2>9, <2>10, <2>11
<1> HIDE DEF p, n, c, k
<1> QED BY <1>1, <1>3, <1>5, <1>6, <1>7, <1>8 DEF p, n, c, k

(* Neither the program nor its input ever changes. *)
LEMMA SameProgram ==
  ASSUME NEW t \in Threads, Step(t)
  PROVE  program' = program /\ input' = input
BY DEF Step, StartThread, StartThrows, JoinThread, DetachThread, NotJoinableThrows,
     MoveThread, SwapThreads, TerminateProgram, EditDocument, Pass, WorkThrows, FlowOffTheEnd,
     Leave, CheckAssertion, AccessData, StoreAtomic, LoadAtomic, AwaitValue, ReadModifyWrite,
     SpinOnFlag, CompareExchange, ExchangeInLoop, Raise, End, OnlyCode, MemoryStep

(* At the beginning everything is left of main. *)
LEMMA OnItsWayInit == Init => OnItsWay
<1> SUFFICES ASSUME Init, program \in Placed PROVE OnItsWay
  BY DEF OnItsWay
<1> DEFINE c == Code(program, input)
           n == Starts(program, input)
<1>1. StartsFirst(program, input)
  BY AllStartFirst DEF Init, Placed
<1>2. IsSequence(c) /\ Len(c) \in Nat /\ n \in 0 .. MaxThreads
  BY <1>1 DEF StartsFirst, IsSequence
<1>3. started = 0 /\ faults = {} /\ code[main] = c
  BY MainIsNoWorker DEF Init
<1> HIDE DEF c, n
<1>4. Suffix(c, c) /\ StartedAt(c, c, n) = 0
  <2>1. Suffix(c, c)
    BY <1>2, SuffixSelf
  <2>2. PICK l : l = Len(c)
    OBVIOUS
  <2>3. IF l + n > l THEN l - l = 0 ELSE n = 0
    BY <1>2, <2>2
  <2>4. StartedAt(c, c, n) = IF l + n > l THEN l - l ELSE n
    BY <2>2 DEF StartedAt
  <2> QED BY <2>1, <2>3, <2>4
<1>5. started <= n
  BY <1>2, <1>3
<1>6. \A i \in 1 .. started : FALSE
  BY <1>3
<1>7. "start" \notin faults
  BY <1>3
<1> QED BY <1>3, <1>4, <1>5, <1>6, <1>7 DEF OnItsWay, c, n

(* The place that main is at, before and after one instruction. *)
LEMMA Forward ==
  ASSUME NEW l \in Nat, NEW s \in 1 .. l, NEW n \in Nat, n <= l
  PROVE  /\ l - s + 1 <= n => (IF s - 1 + n > l THEN l - (s - 1) ELSE n) = l - s + 1
         /\ l - s + 1 > n => (IF s - 1 + n > l THEN l - (s - 1) ELSE n) = n
OBVIOUS

(* main starts a thread. *)
LEMMA WayStart ==
  ASSUME ThreadInv, OnItsWay, program \in Placed, NEW t \in Threads, StartThread(t)
  PROVE  OnItsWay'
<1> DEFINE p == program
           n == Starts(p, input)
           c == Code(p, input)
           k == Len(c) - Len(code[main]) + 1
<1>1. code[t] # <<>> /\ Instr(t).op = "start"
  BY DEF StartThread, At, Instr
<1>2. t = main /\ "start" \notin faults
  BY <1>1, WhereItIs DEF PlainOps
<1>3. /\ StartsFirst(p, input)
      /\ IsSequence(c) /\ Suffix(code[main], c)
      /\ Len(c) \in Nat /\ k \in 1 .. Len(c) /\ Instr(main) = c[k]
      /\ k <= n => started = k - 1
      /\ k > n => Instr(main).op \in MainOps(p)
  BY <1>1, <1>2, WhereItIs
<1>4. "start" \notin MainOps(p)
  BY DEF MainOps, PlainOps
<1>5. n \in 0 .. MaxThreads /\ n \in Nat /\ n <= Len(c)
  BY <1>3 DEF StartsFirst
<1>6. k <= n /\ k \in 1 .. n /\ started = k - 1 /\ started + 1 = k
  <2>1. k \in 1 .. Len(c) /\ ~ (k > n)
    BY <1>1, <1>2, <1>3, <1>4
  <2> HIDE DEF k, n, c
  <2>2. k <= n
    BY <2>1, <1>3, <1>5
  <2> QED BY <1>3, <1>5, <2>1, <2>2
<1>7. c[k].body = Body(p, input, k) /\ IsSequence(Body(p, input, k))
  BY <1>3, <1>6 DEF StartsFirst, Plain
<1>8. /\ Len(code[main]) \in 1 .. Len(c) /\ Suffix(Tail(code[main]), c)
      /\ Len(Tail(code[main])) = Len(code[main]) - 1
  BY <1>1, <1>2, <1>3, SuffixTail
<1>9. StartedAt(Tail(code[main]), c, n) = k
  <2>1. PICK l : l = Len(c)
    OBVIOUS
  <2>2. PICK s : s = Len(code[main])
    OBVIOUS
  <2>3. l \in Nat /\ s \in 1 .. l /\ k = l - s + 1
    BY <2>1, <2>2, <1>3, <1>8
  <2>4. StartedAt(Tail(code[main]), c, n) = IF s - 1 + n > l THEN l - (s - 1) ELSE n
    BY <2>1, <2>2, <1>8 DEF StartedAt
  <2> HIDE DEF k, n, c
  <2>5. n \in Nat /\ n <= l /\ l - s + 1 <= n
    BY <1>5, <1>6, <2>1, <2>3
  <2> QED BY <2>3, <2>4, <2>5, Forward
<1>10. code = [u \in Threads |-> code[u]] /\ started + 1 \in Workers /\ started + 1 # main
  BY ThreadProgramsAssumption DEF ThreadInv, Typing, StartThread, Workers, main
<1>11. /\ code' = [code EXCEPT ![main] = Tail(code[main]), ![started + 1] = Instr(main).body]
       /\ started' = started + 1 /\ faults' = faults /\ program' = program /\ input' = input
  BY <1>2 DEF StartThread, Rest
<1>12. code'[main] = Tail(code[main])
  BY <1>10, <1>11 DEF Threads
<1>13. code'[k] = Body(p, input, k)
  BY <1>3, <1>6, <1>7, <1>10, <1>11 DEF Threads
<1>14. \A i \in 1 .. started : code'[i] = code[i]
  <2> TAKE i \in 1 .. started
  <2>1. i # started + 1 /\ i # main /\ i \in Threads
    BY <1>10, ThreadProgramsAssumption DEF Threads, Workers, main, ThreadInv, Typing
  <2> QED BY <2>1, <1>10, <1>11
<1>15. ASSUME NEW i \in 1 .. k PROVE Suffix(code'[i], Body(p, input, i))
  <2>1. CASE i = k
    <3>1. Suffix(Body(p, input, k), Body(p, input, k))
      BY <1>7, SuffixSelf
    <3> QED BY <2>1, <3>1, <1>13
  <2>2. CASE i # k
    <3>1. i \in 1 .. started
      <4> HIDE DEF p, n, c, k
      <4>1. k \in Nat /\ started = k - 1 /\ i \in Nat
        BY <1>5, <1>6
      <4> QED BY <2>2, <4>1
    <3> QED BY <3>1, <1>14 DEF OnItsWay
  <2> QED BY <2>1, <2>2
<1> HIDE DEF p, n, c, k
<1>16. \A i \in 1 .. started' : Suffix(code'[i], Body(p, input, i))
  BY <1>6, <1>11, <1>15
<1>17. started' <= n /\ started' = StartedAt(code'[main], c, n) /\ Suffix(code'[main], c)
  BY <1>6, <1>8, <1>9, <1>11, <1>12
<1> QED BY <1>2, <1>11, <1>16, <1>17 DEF OnItsWay, p, n, c

(* A thread could not be started: main unwinds, and only destroys. *)
LEMMA WayThrows ==
  ASSUME ThreadInv, OnItsWay, program \in Placed, NEW t \in Threads, StartThrows(t)
  PROVE  OnItsWay'
<1> DEFINE p == program
           n == Starts(p, input)
           c == Code(p, input)
           k == Len(c) - Len(code[main]) + 1
<1>1. code[t] # <<>> /\ Instr(t).op = "start"
  BY DEF StartThrows, At, Instr
<1>2. t = main /\ "start" \notin faults
  BY <1>1, WhereItIs DEF PlainOps
<1>3. /\ StartsFirst(p, input)
      /\ Len(c) \in Nat /\ k \in 1 .. Len(c) /\ Instr(main) = c[k]
      /\ k <= n => started = k - 1
      /\ k > n => Instr(main).op \in MainOps(p)
  BY <1>1, <1>2, WhereItIs
<1>4. "start" \notin MainOps(p)
  BY DEF MainOps, PlainOps
<1>5. n \in 0 .. MaxThreads /\ n \in Nat /\ n <= Len(c)
  BY <1>3 DEF StartsFirst
<1>6. k \in 1 .. n /\ started = k - 1 /\ started < n /\ started <= n
  <2>1. k \in 1 .. Len(c) /\ ~ (k > n)
    BY <1>1, <1>2, <1>3, <1>4
  <2> HIDE DEF k, n, c
  <2>2. k <= n
    BY <2>1, <1>3, <1>5
  <2> QED BY <1>3, <1>5, <2>1, <2>2
<1>7. Tidy(c[k].unwind)
  BY <1>3, <1>6 DEF StartsFirst
<1>8. /\ code' = [code EXCEPT ![main] = Instr(main).unwind]
      /\ started' = started /\ faults' = faults \cup {"start"}
      /\ program' = program /\ input' = input
  BY <1>2 DEF StartThrows, Raise, Become, objects
<1>9. code = [u \in Threads |-> code[u]]
  BY DEF ThreadInv, Typing
<1>10. code'[main] = c[k].unwind
  BY <1>3, <1>8, <1>9 DEF Threads
<1>11. ASSUME NEW i \in 1 .. started PROVE Suffix(code'[i], Body(p, input, i))
  <2>1. i # main /\ i \in Threads
    BY ThreadProgramsAssumption DEF Threads, Workers, main, ThreadInv, Typing
  <2>2. code'[i] = code[i]
    BY <2>1, <1>8, <1>9
  <2> QED BY <2>2 DEF OnItsWay
<1> HIDE DEF p, n, c, k
<1> QED BY <1>6, <1>7, <1>8, <1>10, <1>11 DEF OnItsWay, p, n, c

(* A thread executes an instruction that starts nothing. *)
LEMMA WayContinue ==
  ASSUME ThreadInv, OnItsWay, program \in Placed, NEW t \in Threads,
         code[t] # <<>>, Instr(t).op # "start", Continue(t),
         program' = program, input' = input, started' = started,
         "start" \in faults' <=> "start" \in faults
  PROVE  OnItsWay'
<1> DEFINE p == program
           n == Starts(p, input)
           c == Code(p, input)
           k == Len(c) - Len(code[main]) + 1
<1>1. code = [u \in Threads |-> code[u]] /\ code' = [code EXCEPT ![t] = Tail(code[t])]
  BY DEF ThreadInv, Typing, Continue, Become, Rest
<1>2. code'[t] = Tail(code[t]) /\ \A u \in Threads : u # t => code'[u] = code[u]
  BY <1>1
<1>3. started \in Nat /\ 1 .. started \subseteq Workers
  BY ThreadProgramsAssumption DEF ThreadInv, Typing, Workers
<1>4. CASE t # main
  <2>1. /\ t \in 1 .. started /\ IsSequence(Body(p, input, t)) /\ Suffix(code[t], Body(p, input, t))
    BY <1>4, WhereItIs
  <2>2. Suffix(Tail(code[t]), Body(p, input, t))
    BY <2>1, SuffixTail
  <2>3. code'[main] = code[main]
    BY <1>2, <1>4 DEF Threads
  <2>4. ASSUME NEW i \in 1 .. started PROVE Suffix(code'[i], Body(p, input, i))
    <3>1. CASE i = t
      BY <3>1, <2>2, <1>2
    <3>2. CASE i # t
      BY <3>2, <1>2, <1>3, MainIsNoWorker DEF OnItsWay
    <3> QED BY <3>1, <3>2
  <2> HIDE DEF p, n, c, k
  <2> QED BY <2>3, <2>4 DEF OnItsWay, p, n, c
<1>5. CASE t = main
  <2>1. ASSUME NEW i \in 1 .. started PROVE Suffix(code'[i], Body(p, input, i))
    <3>1. i \in Threads /\ i # main
      BY <1>3, MainIsNoWorker
    <3> QED BY <3>1, <1>2, <1>5 DEF OnItsWay
  <2>2. CASE "start" \in faults
    <3>1. Tidy(Tail(code[main]))
      BY <1>5, <2>2, TidyTail DEF OnItsWay
    <3> HIDE DEF p, n, c, k
    <3> QED BY <2>1, <2>2, <3>1, <1>2, <1>5 DEF OnItsWay, p, n, c
  <2>3. CASE "start" \notin faults
    <3>1. /\ StartsFirst(p, input)
          /\ IsSequence(c) /\ Suffix(code[main], c)
          /\ Len(c) \in Nat /\ k \in 1 .. Len(c) /\ Instr(main) = c[k]
          /\ k <= n => Instr(main).op = "start"
          /\ k > n => started = n
      BY <1>5, <2>3, WhereItIs
    <3>2. n \in Nat /\ n <= Len(c)
      BY <3>1 DEF StartsFirst
    <3>3. /\ Len(code[main]) \in 1 .. Len(c) /\ Suffix(Tail(code[main]), c)
          /\ Len(Tail(code[main])) = Len(code[main]) - 1
      BY <1>5, <3>1, SuffixTail
    <3>4. StartedAt(Tail(code[main]), c, n) = n /\ started = n
      <4>1. PICK l : l = Len(c)
        OBVIOUS
      <4>2. PICK s : s = Len(code[main])
        OBVIOUS
      <4>3. l \in Nat /\ s \in 1 .. l /\ k = l - s + 1 /\ ~ (k <= n)
        BY <4>1, <4>2, <3>1, <3>3, <1>5
      <4>4. StartedAt(Tail(code[main]), c, n) = IF s - 1 + n > l THEN l - (s - 1) ELSE n
        BY <4>1, <4>2, <3>3 DEF StartedAt
      <4> HIDE DEF k, n, c
      <4>5. n \in Nat /\ n <= l /\ l - s + 1 > n /\ k > n
        BY <3>2, <4>1, <4>3
      <4> QED BY <3>1, <4>3, <4>4, <4>5, Forward
    <3> HIDE DEF p, n, c, k
    <3>5. started' <= n
      BY <3>2, <3>4
    <3> QED BY <2>1, <2>3, <3>3, <3>4, <3>5, <1>2, <1>5 DEF OnItsWay, p, n, c
  <2> QED BY <2>2, <2>3
<1> QED BY <1>4, <1>5

(* Every step of a thread. *)
LEMMA OnItsWayStep ==
  ASSUME ThreadInv, OnItsWay, [Next]_vars
  PROVE  OnItsWay'
<1>1. CASE UNCHANGED vars
  BY <1>1 DEF OnItsWay, vars, objects
<1>2. ASSUME NEW h \in {1, 2}, NEW g \in {1, 2}, CallAutoJoining(h, g) PROVE OnItsWay'
  BY <1>2 DEF CallAutoJoining, OnlyCode, OnItsWay, Placed, Single, Collecting
<1>3. ASSUME NEW t \in Threads, Step(t) PROVE OnItsWay'
  <2>1. CASE program \notin Placed
    BY <2>1, <1>3, SameProgram DEF OnItsWay
  <2>2. CASE program \in Placed
    <3>1. program' = program /\ input' = input
      BY <1>3, SameProgram
    <3>2. CASE code' = code /\ started' = started /\ ("start" \in faults' <=> "start" \in faults)
      BY <3>1, <3>2 DEF OnItsWay
    <3> QED BY <2>2, <1>3, <3>1, <3>2, CodeChange, WayStart, WayThrows, WayContinue
  <2> QED BY <2>1, <2>2
<1> QED BY <1>1, <1>2, <1>3 DEF Next

(* What each thread has left of its code is an end of its code. *)
LEMMA OnItsWayAlways == Spec => []OnItsWay
<1>1. ThreadInv /\ OnItsWay /\ [Next]_vars => OnItsWay'
  BY OnItsWayStep
<1> QED BY <1>1, OnItsWayInit, ThreadInvariant, PTL DEF Spec

(* What main calls has returned: all threads were started and have ended. *)
LEMMA AllEnded ==
  ASSUME ThreadInv, OnItsWay, NEW p \in Collecting, Returned(p)
  PROVE  /\ started = Starts(p, input) /\ started \in 0 .. MaxThreads
         /\ \A n \in Workers : code[n] = <<>>
<1>1. program = p /\ code[main] = <<>> /\ "start" \notin faults /\ program \in Placed
  BY DEF Returned, Placed
<1> DEFINE c == Code(p, input)
           n == Starts(p, input)
<1>2. /\ IsSequence(c) /\ n \in 0 .. MaxThreads /\ n <= Len(c)
  <2>1. input \in Inputs(p)
    BY <1>1 DEF ThreadInv, Typing
  <2> QED BY <2>1, <1>1, AllStartFirst DEF StartsFirst, Placed
<1>3. started = StartedAt(<<>>, c, n)
  BY <1>1 DEF OnItsWay
<1> HIDE DEF c, n
<1>4. started = n
  <2>1. PICK l \in Nat : l = Len(c)
    BY <1>2 DEF IsSequence
  <2>2. ~ (0 + n > l) /\ Len(<<>>) = 0
    BY <1>2, <2>1
  <2> QED BY <1>3, <2>1, <2>2 DEF StartedAt
<1>5. \A h \in Handles : handle[h] = Empty
  <2>1. PICK st, st2, exc \in Statuses :
          /\ Runs(program, main, <<>>, st, st2, exc, Strict)
          /\ Meets(main, st) /\ Settled(program, main, st2)
    BY <1>1, MainIsNoWorker DEF ThreadInv, CodeFine
  <2>2. Covers(st2, st)
    BY <2>1, RunsEmpty
  <2>3. Meets(main, st2)
    BY <2>1, <2>2, MainIsNoWorker, MeetsLess
  <2>4. HandlesOf(program, main) = Handles /\ program \notin Detaching
    BY <1>1 DEF HandlesOf, Collecting, Detaching
  <2>5. program # "auto_joining"
    BY <1>1 DEF Collecting
  <2>6. \A h \in Handles : st2[h] = "empty"
    BY <2>1, <2>4, <2>5 DEF Settled
  <2> QED BY <2>3, <2>4, <2>6 DEF Meets
<1>6. ASSUME NEW i \in Workers PROVE code[i] = <<>>
  <2>1. started \in Nat /\ i \in Nat \ {0} /\ released \subseteq 1 .. started
    BY ThreadProgramsAssumption DEF ThreadInv, Typing, Workers
  <2>2. CASE i > started
    BY <2>2 DEF ThreadInv, Unstarted
  <2>3. CASE i <= started
    <3>1. i \in 1 .. started /\ i # Empty
      BY <2>1, <2>3 DEF Empty
    <3>2. i \in released
      BY <3>1, <1>5 DEF ThreadInv, Owned
    <3> QED BY <3>2, <1>1 DEF ThreadInv, Joined, Detaching, Collecting
  <2> QED BY <2>1, <2>2, <2>3
<1> QED BY <1>2, <1>4, <1>6 DEF n

-----------------------------------------------------------------------------
(* What a step does to code and memory *)

(* The operation of the next instruction says which action a step is. *)
LEMMA StepAt ==
  ASSUME NEW t \in Threads, Step(t)
  PROVE  /\ code[t] # <<>> /\ ended = "no"
         /\ Instr(t).op = "access" => AccessData(t)
         /\ Instr(t).op = "store" => StoreAtomic(t)
         /\ Instr(t).op = "load" => LoadAtomic(t)
         /\ Instr(t).op = "await" => AwaitValue(t)
         /\ Instr(t).op = "read_modify_write" => ReadModifyWrite(t)
         /\ Instr(t).op = "spin" => SpinOnFlag(t)
         /\ Instr(t).op = "exchange" => CompareExchange(t)
         /\ Instr(t).op = "exchange_loop" => ExchangeInLoop(t)
         /\ Instr(t).op = "assert" => CheckAssertion(t)
         /\ Instr(t).op = "start" => StartThread(t) \/ StartThrows(t)
         /\ Instr(t).op = "join" => JoinThread(t) \/ NotJoinableThrows(t)
<1> USE DEF At, Instr
<1>1. CASE StartThread(t) \/ StartThrows(t)
  BY <1>1 DEF StartThread, StartThrows
<1>2. CASE JoinThread(t) \/ NotJoinableThrows(t)
  BY <1>2 DEF JoinThread, NotJoinableThrows
<1>3. CASE DetachThread(t) \/ MoveThread(t) \/ SwapThreads(t) \/ TerminateProgram(t)
  BY <1>3 DEF DetachThread, MoveThread, SwapThreads, TerminateProgram
<1>4. CASE EditDocument(t) \/ Pass(t) \/ WorkThrows(t) \/ FlowOffTheEnd(t) \/ Leave(t)
  BY <1>4 DEF EditDocument, Pass, WorkThrows, FlowOffTheEnd, Leave
<1>5. CASE CheckAssertion(t) \/ AccessData(t) \/ StoreAtomic(t) \/ LoadAtomic(t) \/ AwaitValue(t)
  BY <1>5 DEF CheckAssertion, AccessData, StoreAtomic, LoadAtomic, AwaitValue
<1>6. CASE ReadModifyWrite(t) \/ SpinOnFlag(t) \/ CompareExchange(t) \/ ExchangeInLoop(t)
  BY <1>6 DEF ReadModifyWrite, SpinOnFlag, CompareExchange, ExchangeInLoop
<1> QED BY <1>1, <1>2, <1>3, <1>4, <1>5, <1>6 DEF Step

(* The operations on memory. *)
MemoryOps ==
  {"access", "store", "load", "await", "read_modify_write", "spin", "exchange", "exchange_loop"}

(* Without an operation on memory, threads learn only by starts and joins. *)
LEMMA SilentStep ==
  ASSUME MemoryTyping, NEW t \in Threads, Step(t), Instr(t).op \notin MemoryOps
  PROVE  /\ memory' = memory /\ reg' = reg
         /\ view' = view \/ StartThread(t) \/ JoinThread(t)
<1> USE DEF At, Instr, MemoryOps
<1>1. CASE StartThread(t) \/ JoinThread(t)
  BY <1>1 DEF StartThread, JoinThread
<1>2. CASE StartThrows(t) \/ NotJoinableThrows(t)
  BY <1>2 DEF StartThrows, NotJoinableThrows, Raise, atomics
<1>3. CASE DetachThread(t) \/ MoveThread(t) \/ SwapThreads(t) \/ TerminateProgram(t)
  BY <1>3 DEF DetachThread, MoveThread, SwapThreads, TerminateProgram, End, atomics
<1>4. CASE EditDocument(t) \/ Pass(t) \/ WorkThrows(t) \/ FlowOffTheEnd(t) \/ Leave(t)
  BY <1>4 DEF EditDocument, Pass, WorkThrows, FlowOffTheEnd, Leave, End, Raise, OnlyCode, atomics
<1>5. CASE CheckAssertion(t) \/ AccessData(t) \/ StoreAtomic(t) \/ LoadAtomic(t) \/ AwaitValue(t)
  BY <1>5 DEF CheckAssertion, AccessData, StoreAtomic, LoadAtomic, AwaitValue, End, OnlyCode, atomics
<1>6. CASE ReadModifyWrite(t) \/ SpinOnFlag(t) \/ CompareExchange(t) \/ ExchangeInLoop(t)
  BY <1>6 DEF ReadModifyWrite, SpinOnFlag, CompareExchange, ExchangeInLoop
<1> QED BY <1>1, <1>2, <1>3, <1>4, <1>5, <1>6 DEF Step

(* Where a thread other than main is. *)
LEMMA WorkerAt ==
  ASSUME ThreadInv, OnItsWay, program \in Placed, NEW t \in Threads, t # main, code[t] # <<>>
  PROVE  LET b == Body(program, input, t)
         IN  /\ t \in 1 .. started /\ t \in 1 .. Starts(program, input) /\ t \in 1 .. MaxThreads
             /\ IsSequence(b) /\ Len(code[t]) \in 1 .. Len(b)
             /\ Instr(t) = b[Len(b) - Len(code[t]) + 1]
             /\ Len(Tail(code[t])) = Len(code[t]) - 1
             /\ Instr(t).op \in PlainOps
<1> DEFINE b == Body(program, input, t)
<1>1. /\ t \in 1 .. started /\ t \in 1 .. Starts(program, input)
      /\ IsSequence(b) /\ Suffix(code[t], b) /\ Instr(t).op \in PlainOps
      /\ StartsFirst(program, input)
  BY WhereItIs
<1>2. t \in 1 .. MaxThreads
  <2>1. Starts(program, input) \in 0 .. MaxThreads
    BY <1>1 DEF StartsFirst
  <2> QED BY ThreadProgramsAssumption, <1>1, <2>1
<1> HIDE DEF b
<1>3. /\ Len(code[t]) \in 1 .. Len(b) /\ Instr(t) = b[Len(b) - Len(code[t]) + 1]
      /\ Len(Tail(code[t])) = Len(code[t]) - 1
  BY <1>1, SuffixTail DEF Instr
<1> QED BY <1>1, <1>2, <1>3 DEF b

Counters == {"spinlock_mutex", "multithread_compare_exchange_weak"}

(* Programs that count are followed place by place, and wait for their     *)
(* threads.                                                                *)
LEMMA CountersPlaced == Counters \subseteq Placed /\ Counters \subseteq Collecting
BY DEF Counters, Placed, Collecting

(* The code of a thread that counts twice, each time between lock and      *)
(* unlock.                                                                 *)
LEMMA LockBody ==
  LET b == Counting \o Counting
  IN  /\ Len(b) = 6
      /\ b[1] = Spin("flag", "acquire") /\ b[4] = Spin("flag", "acquire")
      /\ b[2] = Access("counter", "add", 1) /\ b[5] = Access("counter", "add", 1)
      /\ b[3] = Store("flag", 0, "release") /\ b[6] = Store("flag", 0, "release")
<1> DEFINE x == Spin("flag", "acquire")
           y == Access("counter", "add", 1)
           z == Store("flag", 0, "release")
<1>1. Counting = <<x>> \o <<y>> \o <<z>>
  BY DEF Counting, lock, unlock
<1> HIDE DEF x, y, z
<1> DEFINE s == <<x, y, z>>
           b == s \o s
<1>2. Counting = s
  BY <1>1, ShortSequences
<1>3. IsSequence(s) /\ Len(s) = 3 /\ s[1] = x /\ s[2] = y /\ s[3] = z
  BY DEF IsSequence
<1> HIDE DEF s
<1>4. /\ Len(b) = 6
      /\ \A i \in 1 .. 3 : b[i] = s[i]
      /\ \A i \in 1 .. 3 : b[3 + i] = s[i]
  <2>1. /\ Len(b) = Len(s) + Len(s)
        /\ \A i \in 1 .. Len(s) : b[i] = s[i]
        /\ \A i \in 1 .. Len(s) : b[Len(s) + i] = s[i]
    <3>1. IsSequence(s)
      BY <1>3
    <3> QED BY <3>1, Concatenation, Zenon
  <2> HIDE DEF b
  <2> QED BY <1>3, <2>1
<1>5. Counting \o Counting = b
  BY <1>2
<1> HIDE DEF b
<1>6. /\ Len(b) = 6
      /\ b[1] = x /\ b[4] = x /\ b[2] = y /\ b[5] = y /\ b[3] = z /\ b[6] = z
  BY <1>3, <1>4
<1> QED BY <1>5, <1>6 DEF x, y, z

(* The code of a thread that counts once with compare_exchange_weak. *)
LEMMA LoopBody ==
  LET b == increment_with_loop
  IN  Len(b) = 2 /\ b[1] = Load("counter") /\ b[2] = ExchangeLoop("counter")
BY DEF increment_with_loop

(* How often a thread has counted that has l instructions left. *)
Counted(p, l) ==
  IF p = "multithread_compare_exchange_weak" THEN IF l = 0 THEN 1 ELSE 0
  ELSE IF l >= 5 THEN 0 ELSE IF l >= 2 THEN 1 ELSE 2

(* How often thread i has counted. *)
CountOf(i) == IF i <= started THEN Counted(program, Len(code[i])) ELSE 0
(* The threads that have counted c times, and how often all have counted:  *)
(* none counts more than twice.                                            *)
AtLeast(c)  == {i \in 1 .. MaxThreads : CountOf(i) >= c}
Total       == Cardinality(AtLeast(1)) + Cardinality(AtLeast(2))
(* The last write to x. *)
NewestOf(x) == memory[x][Len(memory[x])]

(* Every count is in the counter. *)
CountInv == program \in Counters => NewestOf("counter").val = input.initial + Total

(* No thread counts more than twice. *)
LEMMA CountTypes == \A i : CountOf(i) \in 0 .. 2
BY DEF CountOf, Counted

(* The threads can be counted. *)
LEMMA TotalType ==
  /\ \A c : IsFiniteSet(AtLeast(c)) /\ Cardinality(AtLeast(c)) \in Nat
  /\ Total \in Int
<1>1. IsFiniteSet(1 .. MaxThreads)
  <2>1. 1 \in Int /\ MaxThreads \in Int
    BY ThreadProgramsAssumption
  <2> QED BY <2>1, FS_Interval
<1>2. ASSUME NEW c PROVE IsFiniteSet(AtLeast(c)) /\ Cardinality(AtLeast(c)) \in Nat
  <2>1. AtLeast(c) \subseteq 1 .. MaxThreads
    BY DEF AtLeast
  <2> QED BY <1>1, <2>1, FS_Subset, FS_CardinalityType
<1> QED BY <1>2 DEF Total

(* One thread counts, and the others do not. *)
LEMMA OneCounts ==
  ASSUME NEW t \in 1 .. MaxThreads, CountOf(t)' = CountOf(t) + 1,
         \A u \in 1 .. MaxThreads : u # t => CountOf(u)' = CountOf(u)
  PROVE  Total' = Total + 1
<1>1. CountOf(t) \in 0 .. 2
  BY CountTypes
<1>2. CountOf(t)' \in 0 .. 2
  BY DEF CountOf, Counted
<1>3. CountOf(t) \in {0, 1}
  BY <1>1, <1>2
<1>4. \A i \in 1 .. MaxThreads : CountOf(i) \in 0 .. 2 /\ (i = t \/ CountOf(i)' = CountOf(i))
  BY CountTypes
<1>6. ASSUME NEW c \in {1, 2}
      PROVE  \A i \in 1 .. MaxThreads :
               CountOf(i)' >= c <=> CountOf(i) >= c \/ (i = t /\ CountOf(t) + 1 = c)
  <2> TAKE i \in 1 .. MaxThreads
  <2>1. CASE i = t
    BY <2>1, <1>1
  <2>2. CASE i # t
    BY <2>2, <1>4
  <2> QED BY <2>1, <2>2
<1>7. ASSUME NEW c \in {1, 2}
      PROVE  AtLeast(c)' = IF CountOf(t) + 1 = c THEN AtLeast(c) \cup {t} ELSE AtLeast(c)
  BY <1>6 DEF AtLeast
<1>8. ASSUME NEW c \in {1, 2}, CountOf(t) + 1 = c
      PROVE  Cardinality(AtLeast(c)') = Cardinality(AtLeast(c)) + 1
  <2>1. t \notin AtLeast(c)
    BY <1>1, <1>8 DEF AtLeast
  <2> QED BY <2>1, <1>7, <1>8, TotalType, FS_AddElement
<1>9. CASE CountOf(t) = 0
  <2>1. Cardinality(AtLeast(1)') = Cardinality(AtLeast(1)) + 1 /\ AtLeast(2)' = AtLeast(2)
    BY <1>7, <1>8, <1>9
  <2> QED BY <2>1, TotalType DEF Total
<1>10. CASE CountOf(t) = 1
  <2>1. Cardinality(AtLeast(2)') = Cardinality(AtLeast(2)) + 1 /\ AtLeast(1)' = AtLeast(1)
    BY <1>7, <1>8, <1>10
  <2> QED BY <2>1, TotalType DEF Total
<1> QED BY <1>3, <1>9, <1>10

(* Nobody counts. *)
LEMMA NoneCounts ==
  ASSUME \A u \in 1 .. MaxThreads : CountOf(u)' = CountOf(u)
  PROVE  Total' = Total
<1>1. AtLeast(1)' = AtLeast(1) /\ AtLeast(2)' = AtLeast(2)
  BY DEF AtLeast
<1> QED BY <1>1 DEF Total

(* Every thread that was started has counted once, or twice. *)
LEMMA AllCounted ==
  ASSUME started \in 0 .. MaxThreads, NEW c \in {1, 2},
         \A i \in 1 .. MaxThreads : CountOf(i) = IF i <= started THEN c ELSE 0
  PROVE  Total = c * started
<1>1. AtLeast(1) = 1 .. started /\ AtLeast(2) = IF c = 2 THEN 1 .. started ELSE {}
  BY ThreadProgramsAssumption DEF AtLeast
<1>2. Cardinality(1 .. started) = started
  <2>1. 1 \in Int /\ started \in Int /\ (1 > started => started = 0)
    BY ThreadProgramsAssumption
  <2>2. Cardinality(1 .. started) = IF 1 > started THEN 0 ELSE started - 1 + 1
    BY <2>1, FS_Interval
  <2> QED BY <2>1, <2>2
<1>3. Cardinality({}) = 0
  BY FS_EmptySet
<1>4. started \in Nat
  BY ThreadProgramsAssumption
<1> QED BY <1>1, <1>2, <1>3, <1>4 DEF Total

(* The counts change with code and started only. *)
LEMMA CountsFixed ==
  ASSUME NEW i, program' = program, started' = started, code'[i] = code[i]
  PROVE  CountOf(i)' = CountOf(i)
BY DEF CountOf

(* A thread learns by its own steps only, or when it is started. *)
LEMMA OwnView ==
  ASSUME MemoryTyping, NEW t \in Threads, Step(t), NEW u \in Threads, u # t
  PROVE  view'[u] = view[u] \/ (StartThread(t) /\ u = started + 1)
<1> USE DEF MemoryTyping
<1>1. CASE StartThread(t)
  BY <1>1 DEF StartThread
<1>2. CASE JoinThread(t)
  BY <1>2 DEF JoinThread
<1>3. CASE Instr(t).op \notin MemoryOps
  BY <1>1, <1>2, <1>3, SilentStep
<1>4. CASE AccessData(t) \/ StoreAtomic(t)
  BY <1>4 DEF AccessData, StoreAtomic, Know
<1>5. CASE LoadAtomic(t) \/ AwaitValue(t) \/ ReadModifyWrite(t)
  BY <1>5 DEF LoadAtomic, AwaitValue, ReadModifyWrite, Observe, Modify, Know
<1>6. CASE SpinOnFlag(t) \/ CompareExchange(t) \/ ExchangeInLoop(t)
  BY <1>6 DEF SpinOnFlag, CompareExchange, ExchangeInLoop, Observe, Modify, Know
<1> QED BY <1>3, <1>4, <1>5, <1>6, StepAt DEF MemoryOps

(* A step of main: the other threads stay where they are, or one is started. *)
LEMMA MainMoves ==
  ASSUME ThreadInv, OnItsWay, MemoryTyping, program \in Placed, Step(main)
  PROVE  /\ program' = program /\ input' = input
         /\ \A i \in 1 .. started : code'[i] = code[i] /\ view'[i] = view[i]
         /\ \/ started' = started
            \/ /\ started' = started + 1 /\ started + 1 \in Workers
               /\ started + 1 \in 1 .. Starts(program, input)
               /\ code'[started + 1] = Body(program, input, started + 1)
               /\ view'[started + 1] = view[main]
<1>1. code[main] # <<>> /\ main \in Threads
  BY StepAt, MainIsNoWorker
<1>2. program' = program /\ input' = input
  BY <1>1, SameProgram
<1>3. started \in Nat /\ code = [u \in Threads |-> code[u]] /\ view \in [Threads -> Views]
  BY DEF ThreadInv, Typing, MemoryTyping
<1>4. \A u \in 1 .. started : u # main /\ u \in Threads /\ u # started + 1
  BY ThreadProgramsAssumption DEF main, Threads, Workers, ThreadInv, Typing
<1>5. \A i \in 1 .. started : view'[i] = view[i]
  BY <1>1, <1>4, OwnView
<1>6. CASE StartThread(main)
  <2> DEFINE k == started + 1
             b == Instr(main).body
  <2>1. /\ k \in Threads /\ k \in Workers /\ k # main /\ started' = k
        /\ code' = [code EXCEPT ![main] = Rest(main), ![k] = b]
        /\ view' = [view EXCEPT ![k] = view[main]]
    BY <1>3, <1>6, ThreadProgramsAssumption DEF StartThread, Threads, Workers, main
  <2>2. code'[k] = b /\ \A u \in Threads : u # main /\ u # k => code'[u] = code[u]
    BY <1>3, <2>1
  <2>3. view'[k] = view[main]
    BY <1>3, <2>1
  <2>4. StartsFirst(program, input)
    BY AllStartFirst DEF ThreadInv, Typing, Placed
  <2>5. b = Body(program, input, k) /\ k \in 1 .. Starts(program, input)
    <3> DEFINE n == Starts(program, input)
               c == Code(program, input)
               j == Len(c) - Len(code[main]) + 1
    <3>1. Instr(main).op = "start" /\ "start" \notin MainOps(program)
      BY <1>6 DEF StartThread, At, Instr, MainOps, PlainOps
    <3>2. "start" \notin faults
      BY <3>1, <1>1, WhereItIs
    <3>3. /\ j <= n => started = j - 1
          /\ j > n => Instr(main).op \in MainOps(program)
          /\ Instr(main) = c[j] /\ j \in 1 .. Len(c) /\ Len(c) \in Nat
      BY <3>2, <1>1, WhereItIs
    <3>4. n \in 0 .. MaxThreads
      BY <2>4 DEF StartsFirst
    <3> HIDE DEF n, c, j
    <3>5. j = k /\ j \in 1 .. n
      BY <3>1, <3>3, <3>4, <1>3
    <3>6. c[j].body = Body(program, input, j)
      BY <3>5, <2>4 DEF StartsFirst, n, c
    <3> QED BY <3>3, <3>5, <3>6 DEF n
  <2> HIDE DEF b
  <2> QED BY <1>2, <1>4, <1>5, <2>1, <2>2, <2>3, <2>5
<1>7. CASE ~ StartThread(main)
  <2>1. started' = started /\ \A u \in Threads : u # main => code'[u] = code[u]
    <3>1. CASE code' = code /\ started' = started
      BY <3>1
    <3>2. CASE Continue(main) /\ started' = started
      BY <3>2, <1>3 DEF Continue, Become
    <3>3. CASE StartThrows(main)
      BY <3>3, <1>3 DEF StartThrows, Raise, Become, objects
    <3> QED BY <1>1, <1>7, <3>1, <3>2, <3>3, CodeChange
  <2> QED BY <2>1, <1>2, <1>4, <1>5
<1> QED BY <1>6, <1>7

(* A step of another thread. *)
LEMMA WorkerMoves ==
  ASSUME ThreadInv, OnItsWay, MemoryTyping, program \in Placed,
         NEW t \in Threads, t # main, Step(t)
  PROVE  /\ program' = program /\ input' = input /\ started' = started
         /\ code' = code \/ (code'[t] = Tail(code[t]) /\ Len(code'[t]) = Len(code[t]) - 1)
         /\ Continue(t) => code'[t] = Tail(code[t]) /\ Len(code'[t]) = Len(code[t]) - 1
         /\ \A u \in Threads : u # t => code'[u] = code[u] /\ view'[u] = view[u]
<1>1. code[t] # <<>>
  BY StepAt
<1>2. Instr(t).op \in PlainOps /\ Len(Tail(code[t])) = Len(code[t]) - 1
  BY <1>1, WorkerAt
<1>3. ~ StartThread(t) /\ ~ StartThrows(t)
  BY <1>2 DEF StartThread, StartThrows, At, Instr, PlainOps
<1>4. code = [u \in Threads |-> code[u]]
  BY DEF ThreadInv, Typing
<1>5. Continue(t) => code'[t] = Tail(code[t]) /\ \A u \in Threads : u # t => code'[u] = code[u]
  BY <1>4 DEF Continue, Become, Rest
<1>6. /\ program' = program /\ input' = input /\ started' = started
      /\ code' = code \/ Continue(t)
  BY <1>3, CodeChange
<1>7. \A u \in Threads : u # t => view'[u] = view[u]
  BY <1>3, OwnView
<1> QED BY <1>2, <1>5, <1>6, <1>7

(* Without memory operations in main, only the threads it starts change memory. *)
LEMMA QuietMain ==
  ASSUME ThreadInv, OnItsWay, MemoryTyping, program \in Placed, MainOps(program) = {"join", "destroy"},
         Step(main)
  PROVE  memory' = memory /\ reg' = reg
<1>1. code[main] # <<>> /\ main \in Threads
  BY StepAt, MainIsNoWorker
<1>2. Instr(main).op \in {"start", "join", "destroy", "end_lifetime"}
  <2>2. CASE "start" \in faults
    BY <2>2, <1>1, WhereItIs
  <2>3. CASE "start" \notin faults
    <3> DEFINE n == Starts(program, input)
               k == Len(Code(program, input)) - Len(code[main]) + 1
    <3>1. /\ k \in 1 .. Len(Code(program, input)) /\ StartsFirst(program, input)
          /\ k <= n => Instr(main).op = "start"
          /\ k > n => Instr(main).op \in MainOps(program)
      BY <2>3, <1>1, WhereItIs
    <3>2. n \in Nat
      BY <3>1 DEF StartsFirst
    <3> HIDE DEF n, k
    <3>3. k <= n \/ k > n
      BY <3>1, <3>2
    <3> QED BY <3>1, <3>3
  <2> QED BY <2>2, <2>3
<1> QED BY <1>1, <1>2, SilentStep DEF MemoryOps

(* The last write has its type. *)
LEMMA NewestFacts ==
  ASSUME MemoryTyping, NEW x \in Locations
  PROVE  /\ NewestOf(x) \in Messages /\ NewestOf(x).val \in Int
         /\ NewestOf(x).heads \subseteq Heads
         /\ \A h \in NewestOf(x).heads : h.view \in Views /\ Known(h.view, memory)
<1>1. Len(memory[x]) \in 1 .. Len(memory[x])
  BY Histories
<1> QED BY <1>1, MessageFacts DEF NewestOf

(* A read-modify-write adds a message that continues the newest one. *)
LEMMA ModifyEffect ==
  ASSUME MemoryTyping, NEW t \in Threads, NEW x \in Locations, x = Loc(t), NEW v \in Int, NEW order,
         Modify(t, v, order)
  PROVE  /\ Len(memory'[x]) = Len(memory[x]) + 1
         /\ \A i \in 1 .. Len(memory[x]) : memory'[x][i] = memory[x][i]
         /\ \A l \in Locations \ {x} : memory'[l] = memory[l]
         /\ NewestOf(x)' \in Messages /\ (NewestOf(x)').val = v
         /\ (NewestOf(x)').heads = OwnHead(t, view'[t], order) \cup NewestOf(x).heads
         /\ view'[t] \in Views /\ view'[t][x] = Len(memory'[x])
         /\ \A l \in Locations \ {x} : view[t][l] <= view'[t][l] /\ view'[t][l] <= Len(memory[l])
         /\ Acquires(order) => \A h \in NewestOf(x).heads : \A l \in Locations \ {x} :
                                 h.view[l] <= view'[t][l]
<1> DEFINE n == Len(memory[x])
           r == AfterRead(view[t], x, n, memory[x][n], order)
           w == [r EXCEPT ![x] = n + 1]
           m == Modified(t, w, v, memory[x][n], order)
<1>1. memory' = [memory EXCEPT ![x] = Append(@, m)] /\ view' = [view EXCEPT ![t] = w]
  BY DEF Modify, Write, Know, Newest, Last
<1>2. n \in 1 .. n /\ n \in Positive
  BY Histories
<1>3. /\ r \in Views /\ Known(r, memory)
      /\ \A l \in Locations \ {x} : r[l] >= view[t][l]
      /\ \A h \in memory[x][n].heads : Acquires(order) =>
           \A l \in Locations : r[l] >= h.view[l]
  BY <1>2, ReadView
<1>4. memory[x][n].heads \subseteq Heads /\ NewestOf(x) = memory[x][n]
      /\ \A h \in memory[x][n].heads : h.view \in Views
  BY <1>2, MessageFacts DEF NewestOf
<1>5. \A l \in Locations : r[l] \in Nat /\ view[t][l] \in Nat /\ r[l] <= Len(memory[l])
  BY <1>3 DEF Known, Views, Positive, MemoryTyping
<1> HIDE DEF r
<1>6. w \in Views /\ w[x] = n + 1 /\ \A l \in Locations \ {x} : w[l] = r[l]
  BY <1>2, <1>3 DEF Views, Positive
<1> HIDE DEF w
<1>7. OwnHead(t, w, order) \subseteq Heads
  BY <1>6 DEF OwnHead, Heads
<1>8. m \in Messages /\ m.val = v /\ m.heads = OwnHead(t, w, order) \cup memory[x][n].heads
  BY <1>4, <1>7 DEF Modified, Message, Messages
<1> HIDE DEF m
<1>9. /\ Len(memory'[x]) = n + 1 /\ memory'[x][n + 1] = m
      /\ \A i \in 1 .. n : memory'[x][i] = memory[x][i]
      /\ \A l \in Locations \ {x} : memory'[l] = memory[l]
  BY <1>1, <1>8, AppendedMessage
<1>10. NewestOf(x)' = m
  BY <1>9 DEF NewestOf
<1>11. view'[t] = w
  BY <1>1 DEF MemoryTyping
<1>12. \A l \in Locations \ {x} : view[t][l] <= w[l] /\ w[l] <= Len(memory[l])
  BY <1>3, <1>5, <1>6
<1>13. ASSUME Acquires(order), NEW h \in NewestOf(x).heads, NEW l \in Locations \ {x}
       PROVE  h.view[l] <= w[l]
  <2>1. r[l] >= h.view[l] /\ h.view \in Views
    BY <1>13, <1>3, <1>4
  <2> QED BY <2>1, <1>5, <1>6 DEF Views, Positive
<1> HIDE DEF n
<1> QED BY <1>4, <1>6, <1>8, <1>9, <1>10, <1>11, <1>12, <1>13 DEF n

(* A step of main counts nothing. *)
LEMMA MainCounts ==
  ASSUME ThreadInv, OnItsWay, MemoryTyping, program \in Counters, Step(main)
  PROVE  Total' = Total /\ memory' = memory
<1>1. program \in Placed /\ MainOps(program) = {"join", "destroy"}
  BY CountersPlaced DEF Counters, MainOps, Single
<1>2. memory' = memory
  BY <1>1, QuietMain
<1>3. /\ program' = program /\ started \in Nat
      /\ \A i \in 1 .. started : code'[i] = code[i]
      /\ \/ started' = started
         \/ started' = started + 1 /\ code'[started + 1] = Body(program, input, started + 1)
  BY <1>1, MainMoves DEF ThreadInv, Typing
<1>4. \A i : Counted(program, Len(Body(program, input, i))) = 0
  <2> TAKE i
  <2>1. PICK l : l = Len(Body(program, input, i))
    OBVIOUS
  <2>2. l = 6 \/ (l = 2 /\ program = "multithread_compare_exchange_weak")
    BY <2>1, LockBody, LoopBody DEF Counters, Body
  <2> QED BY <2>1, <2>2 DEF Counted
<1>5. ASSUME NEW u \in 1 .. MaxThreads PROVE CountOf(u)' = CountOf(u)
  <2>1. CASE u \in 1 .. started
    <3>1. u <= started /\ u <= started'
      BY <2>1, <1>3
    <3> QED BY <3>1, <2>1, <1>3 DEF CountOf
  <2>2. CASE u > started
    <3>1. ~ (u <= started)
      BY <2>2, <1>3
    <3>2. CASE started' = started
      BY <3>1, <3>2 DEF CountOf
    <3>3. CASE started' = started + 1 /\ code'[started + 1] = Body(program, input, started + 1)
      <4>1. CASE u = started + 1
        BY <1>3, <1>4, <3>1, <3>3, <4>1 DEF CountOf
      <4>2. CASE u # started + 1
        <5>1. ~ (u <= started')
          BY <4>2, <3>3, <2>2, <1>3
        <5> QED BY <3>1, <5>1 DEF CountOf
      <4> QED BY <4>1, <4>2
    <3> QED BY <1>3, <3>2, <3>3
  <2> QED BY <1>3, <2>1, <2>2
<1> QED BY <1>2, <1>5, NoneCounts

(* What a step of a counting thread does to the counter. *)
LEMMA LoopCounts ==
  ASSUME ThreadInv, OnItsWay, MemoryTyping, CountInv,
         program = "multithread_compare_exchange_weak", NEW t \in Threads, t # main, Step(t)
  PROVE  CountInv'
<1>1. program \in Placed /\ program \in Counters /\ code[t] # <<>>
  BY CountersPlaced, StepAt DEF Counters
<1>2. Body(program, input, t) = increment_with_loop
  BY DEF Body
<1>3. /\ t \in 1 .. started /\ t \in 1 .. MaxThreads /\ Len(code[t]) \in 1 .. 2
      /\ Instr(t) = increment_with_loop[2 - Len(code[t]) + 1]
  BY <1>1, <1>2, WorkerAt, LoopBody
<1>4. /\ program' = program /\ input' = input /\ started' = started
      /\ code' = code \/ Len(code'[t]) = Len(code[t]) - 1
      /\ Continue(t) => Len(code'[t]) = Len(code[t]) - 1
      /\ \A u \in Threads : u # t => code'[u] = code[u]
  BY <1>1, WorkerMoves
<1>5. \A u \in 1 .. MaxThreads : u # t => CountOf(u)' = CountOf(u)
  <2>1. \A u \in 1 .. MaxThreads : u \in Threads
    BY DEF Threads, Workers
  <2> QED BY <2>1, <1>4, CountsFixed
<1>6. started \in Nat /\ t <= started /\ t <= started'
  BY <1>3, <1>4 DEF ThreadInv, Typing
<1>7. /\ CountOf(t) = IF Len(code[t]) = 0 THEN 1 ELSE 0
      /\ CountOf(t)' = IF Len(code'[t]) = 0 THEN 1 ELSE 0
  BY <1>4, <1>6 DEF CountOf, Counted
<1>8. "counter" \in Locations
  BY NamedLocations
<1>9. CASE Len(code[t]) = 2
  <2>1. Instr(t) = Load("counter")
    BY <1>3, <1>9, LoopBody
  <2>2. LoadAtomic(t)
    BY <2>1, StepAt DEF Load
  <2>3. memory' = memory /\ Len(code'[t]) = 1
    BY <2>2, <1>4, <1>9 DEF LoadAtomic, Observe
  <2>4. CountOf(t)' = CountOf(t)
    BY <1>7, <1>9, <2>3
  <2>5. Total' = Total
    BY <1>5, <2>4, NoneCounts
  <2> QED BY <2>3, <2>5, <1>4 DEF CountInv, NewestOf
<1>10. CASE Len(code[t]) = 1
  <2>1. Instr(t) = ExchangeLoop("counter") /\ Loc(t) = "counter"
    BY <1>3, <1>10, LoopBody DEF Loc, ExchangeLoop
  <2>2. ExchangeInLoop(t)
    BY <2>1, StepAt DEF ExchangeLoop
  <2>3. CASE Observe(t, "seq_cst") /\ UNCHANGED code
    <3>1. memory' = memory /\ CountOf(t)' = CountOf(t)
      BY <2>3, <1>7 DEF Observe
    <3>2. Total' = Total
      BY <1>5, <3>1, NoneCounts
    <3> QED BY <3>1, <3>2, <1>4 DEF CountInv, NewestOf
  <2>4. CASE /\ Last(t).val = reg[t].expected
             /\ Modify(t, reg[t].expected + 1, "seq_cst") /\ Continue(t)
    <3> DEFINE v == Last(t).val
    <3>1. v \in Int /\ v = NewestOf("counter").val
      BY <2>1, <1>8, LastValue DEF Last, Newest, NewestOf
    <3> HIDE DEF v
    <3>2. Modify(t, v + 1, "seq_cst")
      BY <2>4 DEF v
    <3>3. NewestOf("counter").val' = v + 1
      BY <3>1, <3>2, <2>1, <1>8, ModifyEffect
    <3>4. CountOf(t)' = CountOf(t) + 1
      <4>1. Len(code'[t]) = 0
        BY <2>4, <1>4, <1>10
      <4> QED BY <4>1, <1>7, <1>10
    <3>5. Total' = Total + 1
      BY <1>3, <1>5, <3>4, OneCounts
    <3>6. Total \in Int /\ input.initial \in Int
      BY TotalType, InputTypes DEF ThreadInv, Typing
    <3> QED BY <3>1, <3>3, <3>5, <3>6, <1>1, <1>4 DEF CountInv
  <2> QED BY <2>2, <2>3, <2>4 DEF ExchangeInLoop
<1> QED BY <1>3, <1>9, <1>10

(* A store adds a message; with release it carries what the thread knows,  *)
(* otherwise it keeps the heads of its own thread.                         *)
LEMMA StoreEffect ==
  ASSUME ThreadInv, MemoryTyping, NEW t \in Threads, StoreAtomic(t), NEW x, x = Loc(t)
  PROVE  /\ x \in Locations /\ reg' = reg
         /\ Len(memory'[x]) = Len(memory[x]) + 1
         /\ \A i \in 1 .. Len(memory[x]) : memory'[x][i] = memory[x][i]
         /\ \A l \in Locations \ {x} : memory'[l] = memory[l]
         /\ NewestOf(x)' \in Messages /\ (NewestOf(x)').val = Instr(t).arg
         /\ (NewestOf(x)').heads =
              OwnHead(t, view'[t], Instr(t).order)
                \cup IF input.standard < 20 THEN {h \in NewestOf(x).heads : h.by = t} ELSE {}
         /\ view'[t] \in Views /\ view'[t][x] = Len(memory'[x])
         /\ \A l \in Locations \ {x} : view'[t][l] = view[t][l]
<1> DEFINE n == Len(memory[x])
           w == [view[t] EXCEPT ![x] = n + 1]
           m == Stored(t, w, Instr(t).arg, memory[x][n], Instr(t).order, input.standard)
<1>1. /\ code[t] # <<>> /\ Instr(t).op = "store" /\ reg' = reg
      /\ memory' = [memory EXCEPT ![x] = Append(@, m)] /\ view' = [view EXCEPT ![t] = w]
  BY DEF StoreAtomic, At, Instr, Write, Know, Newest, Last
<1>2. x \in Locations /\ Instr(t).arg \in Int
  BY <1>1, TypedNext DEF Typed, Loc
<1>3. n \in 1 .. n /\ n \in Positive /\ view[t] \in Views
  BY <1>2, Histories
<1>4. memory[x][n].heads \subseteq Heads /\ NewestOf(x) = memory[x][n]
  BY <1>2, <1>3, MessageFacts DEF NewestOf
<1>5. w \in Views /\ w[x] = n + 1 /\ \A l \in Locations \ {x} : w[l] = view[t][l]
  BY <1>2, <1>3 DEF Views, Positive
<1> HIDE DEF w
<1>6. OwnHead(t, w, Instr(t).order) \subseteq Heads
  BY <1>5 DEF OwnHead, Heads
<1>7. /\ m \in Messages /\ m.val = Instr(t).arg
      /\ m.heads = OwnHead(t, w, Instr(t).order)
                     \cup IF input.standard < 20 THEN {h \in memory[x][n].heads : h.by = t} ELSE {}
  BY <1>2, <1>4, <1>6 DEF Stored, Message, Messages
<1> HIDE DEF m
<1>8. /\ Len(memory'[x]) = n + 1 /\ memory'[x][n + 1] = m
      /\ \A i \in 1 .. n : memory'[x][i] = memory[x][i]
      /\ \A l \in Locations \ {x} : memory'[l] = memory[l]
  BY <1>1, <1>2, <1>7, AppendedMessage
<1>9. NewestOf(x)' = m
  BY <1>8 DEF NewestOf
<1>10. view'[t] = w
  BY <1>1 DEF MemoryTyping
<1> HIDE DEF n
<1> QED BY <1>1, <1>2, <1>4, <1>5, <1>7, <1>8, <1>9, <1>10 DEF n

(* An access by a thread that knows the newest message. *)
LEMMA AccessEffect ==
  ASSUME ThreadInv, MemoryTyping, NEW t \in Threads, AccessData(t), NEW x, x = Loc(t),
         view[t][x] = Len(memory[x])
  PROVE  /\ x \in Locations
         /\ Len(memory'[x]) = Len(memory[x]) + 1
         /\ \A l \in Locations \ {x} : memory'[l] = memory[l]
         /\ view'[t][x] = Len(memory'[x])
         /\ \A l \in Locations \ {x} : view'[t][l] = view[t][l]
         /\ \A u \in Threads \ {t} : reg'[u] = reg[u]
         /\ Instr(t).how = "add" =>
              (NewestOf(x)').val = NewestOf(x).val + Instr(t).arg /\ reg' = reg
         /\ Instr(t).how = "write" => (NewestOf(x)').val = Instr(t).arg /\ reg' = reg
         /\ Instr(t).how = "read" => NewestOf(x)' = NewestOf(x) /\ reg'[t].val = NewestOf(x).val
         /\ Instr(t).how = "collect" =>
              NewestOf(x)' = NewestOf(x) /\ reg'[t].val = reg[t].val + NewestOf(x).val
<1> DEFINE n == Len(memory[x])
<1>1. /\ code[t] # <<>> /\ Instr(t).op = "access"
      /\ view' = [view EXCEPT ![t] = [view[t] EXCEPT ![x] = n + 1]]
  BY DEF AccessData, At, Instr, Know, Newest
<1>2. x \in Locations /\ Instr(t).arg \in Int /\ Instr(t).how \in {"add", "write", "read", "collect"}
  BY <1>1, TypedNext DEF Typed, Loc
<1>3. /\ n \in 1 .. n /\ n \in Positive /\ view[t] \in Views
      /\ "val" \in Fields /\ reg[t].val \in Int
  BY <1>2, Histories DEF Fields
<1>4. PICK i \in view[t][x] .. n :
        LET v == memory[x][i].val
            k == Instr(t).arg
        IN  CASE Instr(t).how = "add"     -> Write(t, Message(v + k, {})) /\ UNCHANGED reg
              [] Instr(t).how = "write"   -> Write(t, Message(k, {})) /\ UNCHANGED reg
              [] Instr(t).how = "read"    -> Write(t, Last(t)) /\ Set(t, "val", v)
              [] Instr(t).how = "collect" -> Write(t, Last(t)) /\ Set(t, "val", reg[t].val + v)
  BY DEF AccessData, Newest
<1>5. i = n
  BY <1>3, <1>4
<1>6. PICK v \in Int : v = NewestOf(x).val
  BY <1>2, NewestFacts
<1>7. v = memory[x][i].val /\ Last(t) = NewestOf(x) /\ NewestOf(x) \in Messages
  BY <1>2, <1>5, <1>6, NewestFacts DEF NewestOf, Last, Newest
<1>8. ASSUME NEW m \in Messages, Write(t, m)
      PROVE  /\ Len(memory'[x]) = n + 1 /\ NewestOf(x)' = m
             /\ \A l \in Locations \ {x} : memory'[l] = memory[l]
  <2>1. memory' = [memory EXCEPT ![x] = Append(@, m)]
    BY <1>8 DEF Write
  <2>2. /\ Len(memory'[x]) = n + 1 /\ memory'[x][n + 1] = m
        /\ \A l \in Locations \ {x} : memory'[l] = memory[l]
    BY <2>1, <1>2, AppendedMessage
  <2> QED BY <2>2 DEF NewestOf
<1>9. view'[t][x] = n + 1 /\ \A l \in Locations \ {x} : view'[t][l] = view[t][l]
  BY <1>1, <1>2, <1>3 DEF MemoryTyping, Views
<1> HIDE DEF n
<1>10. CASE Instr(t).how = "add"
  <2> DEFINE m == Message(v + Instr(t).arg, {})
  <2>1. Write(t, m) /\ reg' = reg
    BY <1>4, <1>7, <1>10
  <2>2. m \in Messages /\ m.val = v + Instr(t).arg
    BY <1>2 DEF Message, Messages
  <2> HIDE DEF m
  <2> QED BY <2>1, <2>2, <1>2, <1>6, <1>8, <1>9, <1>10 DEF n
<1>11. CASE Instr(t).how = "write"
  <2> DEFINE m == Message(Instr(t).arg, {})
  <2>1. Write(t, m) /\ reg' = reg
    BY <1>4, <1>11
  <2>2. m \in Messages /\ m.val = Instr(t).arg
    BY <1>2 DEF Message, Messages
  <2> HIDE DEF m
  <2> QED BY <2>1, <2>2, <1>2, <1>8, <1>9, <1>11 DEF n
<1>12. CASE Instr(t).how = "read"
  <2>1. Write(t, NewestOf(x)) /\ Set(t, "val", v)
    BY <1>4, <1>7, <1>12
  <2>2. reg'[t].val = v /\ \A u \in Threads \ {t} : reg'[u] = reg[u]
    BY <2>1, <1>3, SetType
  <2> QED BY <2>1, <2>2, <1>2, <1>6, <1>7, <1>8, <1>9, <1>12 DEF n
<1>13. CASE Instr(t).how = "collect"
  <2>1. Write(t, NewestOf(x)) /\ Set(t, "val", reg[t].val + v)
    BY <1>4, <1>7, <1>13
  <2>2. reg'[t].val = reg[t].val + v /\ \A u \in Threads \ {t} : reg'[u] = reg[u]
    <3>1. reg[t].val + v \in Int
      BY <1>3
    <3> QED BY <3>1, <2>1, <1>3, SetType
  <2> QED BY <2>1, <2>2, <1>2, <1>6, <1>7, <1>8, <1>9, <1>13 DEF n
<1> QED BY <1>2, <1>10, <1>11, <1>12, <1>13

-----------------------------------------------------------------------------
(* The spinlock, and counting *)

(* A thread that has taken the lock and not yet cleared the flag. *)
Inside(i) == Len(code[i]) \in {5, 4, 2, 1}

(* One thread is inside, and the lock hands on what is known of counter. *)
LockInv ==
  program = "spinlock_mutex" =>
    /\ \A i, j \in 1 .. started : Inside(i) /\ Inside(j) => i = j
    /\ NewestOf("flag").val # 0 <=> \E i \in 1 .. started : Inside(i)
    /\ \A i \in 1 .. started : Inside(i) => view[i]["counter"] = Len(memory["counter"])
    /\ NewestOf("flag").val = 0 =>
         \/ Len(memory["counter"]) = 1
         \/ \E h \in NewestOf("flag").heads : h.view["counter"] = Len(memory["counter"])

(* The instruction at each place of a thread of Spinlock. *)
LEMMA LockPlaces ==
  ASSUME NEW t, NEW l \in 1 .. 6, Len(code[t]) = l, Instr(t) = (Counting \o Counting)[6 - l + 1]
  PROVE  /\ l \in {6, 3} => Instr(t) = Spin("flag", "acquire") /\ ~ Inside(t)
         /\ l \in {5, 2} => Instr(t) = Access("counter", "add", 1) /\ Inside(t)
         /\ l \in {4, 1} => Instr(t) = Store("flag", 0, "release") /\ Inside(t)
<1> DEFINE b == Counting \o Counting
<1>1. /\ b[1] = Spin("flag", "acquire") /\ b[4] = Spin("flag", "acquire")
      /\ b[2] = Access("counter", "add", 1) /\ b[5] = Access("counter", "add", 1)
      /\ b[3] = Store("flag", 0, "release") /\ b[6] = Store("flag", 0, "release")
  BY LockBody
<1>2. Instr(t) = b[6 - l + 1]
  OBVIOUS
<1> HIDE DEF b
<1>3. CASE l = 6
  BY <1>1, <1>2, <1>3 DEF Inside
<1>4. CASE l = 5
  BY <1>1, <1>2, <1>4 DEF Inside
<1>5. CASE l = 4
  BY <1>1, <1>2, <1>5 DEF Inside
<1>6. CASE l = 3
  BY <1>1, <1>2, <1>6 DEF Inside
<1>7. CASE l = 2
  BY <1>1, <1>2, <1>7 DEF Inside
<1>8. CASE l = 1
  BY <1>1, <1>2, <1>8 DEF Inside
<1> QED BY <1>3, <1>4, <1>5, <1>6, <1>7, <1>8

(* What one instruction changes. *)
LEMMA LockNext ==
  ASSUME NEW t, NEW l \in 1 .. 6, Len(code[t]) = l, Len(code'[t]) = l - 1,
         NEW p, p = "spinlock_mutex"
  PROVE  /\ l \in {6, 3} => Inside(t)' /\ Counted(p, l - 1) = Counted(p, l)
         /\ l \in {5, 2} => Inside(t)' /\ Counted(p, l - 1) = Counted(p, l) + 1
         /\ l \in {4, 1} => ~ Inside(t)' /\ Counted(p, l - 1) = Counted(p, l)
<1>1. PICK k : k = Len(code'[t])
  OBVIOUS
<1>2. /\ l \in {6, 3, 5, 2} => k \in {5, 4, 2, 1}
      /\ l \in {4, 1} => k \notin {5, 4, 2, 1}
  BY <1>1
<1>3. /\ l \in {6, 3, 4, 1} => Counted(p, l - 1) = Counted(p, l)
      /\ l \in {5, 2} => Counted(p, l - 1) = Counted(p, l) + 1
  BY DEF Counted
<1> QED BY <1>1, <1>2, <1>3 DEF Inside

(* A step of main keeps the lock invariant. *)
LEMMA LockMain ==
  ASSUME ThreadInv, OnItsWay, MemoryTyping, LockInv, program = "spinlock_mutex", Step(main)
  PROVE  LockInv'
<1>1. program \in Placed /\ MainOps(program) = {"join", "destroy"}
  BY CountersPlaced DEF Counters, MainOps, Single
<1>2. memory' = memory
  BY <1>1, QuietMain
<1>3. /\ program' = program /\ started \in Nat
      /\ \A i \in 1 .. started : code'[i] = code[i] /\ view'[i] = view[i]
      /\ \/ started' = started
         \/ started' = started + 1 /\ code'[started + 1] = Body(program, input, started + 1)
  BY <1>1, MainMoves DEF ThreadInv, Typing
<1>4. \A i : Len(Body(program, input, i)) = 6
  BY LockBody DEF Body
<1>5. \A i \in 1 .. started' : i \in 1 .. started \/ ~ Inside(i)'
  <2> TAKE i \in 1 .. started'
  <2>1. CASE started' = started
    BY <2>1
  <2>2. CASE started' = started + 1 /\ code'[started + 1] = Body(program, input, started + 1)
    <3>1. CASE i = started + 1
      BY <3>1, <2>2, <1>4 DEF Inside
    <3>2. CASE i # started + 1
      BY <3>2, <2>2, <1>3
    <3> QED BY <3>1, <3>2
  <2> QED BY <1>3, <2>1, <2>2
<1>6. \A i \in 1 .. started : /\ i \in 1 .. started' /\ Inside(i)' = Inside(i)
                              /\ view'[i] = view[i]
  BY <1>3 DEF Inside
<1>7. NewestOf("flag")' = NewestOf("flag")
  BY <1>2 DEF NewestOf
<1>8. \A i, j \in 1 .. started' : Inside(i)' /\ Inside(j)' => i = j
  BY <1>5, <1>6 DEF LockInv
<1>9. (NewestOf("flag").val # 0 <=> \E i \in 1 .. started : Inside(i))'
  <2>1. (\E i \in 1 .. started' : Inside(i)') <=> \E i \in 1 .. started : Inside(i)
    BY <1>5, <1>6
  <2> QED BY <2>1, <1>7 DEF LockInv
<1>10. \A i \in 1 .. started' : Inside(i)' => view'[i]["counter"] = Len(memory'["counter"])
  BY <1>2, <1>5, <1>6 DEF LockInv
<1> QED BY <1>2, <1>7, <1>8, <1>9, <1>10 DEF LockInv

(* So does every step of a thread that counts. *)
LEMMA LockWorker ==
  ASSUME ThreadInv, OnItsWay, MemoryTyping, CountInv, LockInv,
         program = "spinlock_mutex", NEW t \in Threads, t # main, Step(t)
  PROVE  CountInv' /\ LockInv'
<1>1. program \in Placed /\ program \in Counters /\ code[t] # <<>>
  BY CountersPlaced, StepAt DEF Counters
<1>2. Body(program, input, t) = Counting \o Counting
  BY DEF Body
<1>3. /\ t \in 1 .. started /\ t \in 1 .. MaxThreads /\ Len(code[t]) \in 1 .. 6
      /\ Instr(t) = (Counting \o Counting)[6 - Len(code[t]) + 1]
  BY <1>1, <1>2, WorkerAt, LockBody
<1>4. /\ program' = program /\ input' = input /\ started' = started
      /\ Continue(t) => Len(code'[t]) = Len(code[t]) - 1
      /\ \A u \in Threads : u # t => code'[u] = code[u] /\ view'[u] = view[u]
  BY <1>1, WorkerMoves
<1>5. \A u \in 1 .. MaxThreads : u # t => CountOf(u)' = CountOf(u)
  <2>1. \A u \in 1 .. MaxThreads : u \in Threads
    BY DEF Threads, Workers
  <2> QED BY <2>1, <1>4, CountsFixed
<1>6. started \in Nat /\ t <= started /\ t <= started'
  BY <1>3, <1>4 DEF ThreadInv, Typing
<1>7. /\ CountOf(t) = Counted(program, Len(code[t]))
      /\ CountOf(t)' = Counted(program, Len(code'[t]))
  BY <1>4, <1>6 DEF CountOf
<1>8. "counter" \in Locations /\ "flag" \in Locations /\ "counter" # "flag"
  BY NamedLocations
<1>9. \A u \in 1 .. started : u # t => Inside(u)' = Inside(u) /\ view'[u] = view[u]
  <2>1. \A u \in 1 .. started : u \in Threads
    BY ThreadProgramsAssumption DEF Threads, Workers, ThreadInv, Typing
  <2> QED BY <2>1, <1>4 DEF Inside
<1>10. Total \in Int /\ input.initial \in Int
  BY TotalType, InputTypes DEF ThreadInv, Typing
<1>11. NewestOf("counter").val = input.initial + Total
  BY <1>1 DEF CountInv
<1>12. PICK l \in 1 .. 6 : l = Len(code[t])
  BY <1>3
<1>13. /\ Len(memory["counter"]) \in Nat
       /\ view[t]["counter"] \in 1 .. Len(memory["counter"])
  BY <1>8, Histories DEF Positive
<1>14. CASE l \in {6, 3}
  <2>1. Instr(t) = Spin("flag", "acquire") /\ Loc(t) = "flag" /\ ~ Inside(t)
    <3>1. Instr(t) = Spin("flag", "acquire") /\ ~ Inside(t)
      BY <1>3, <1>12, <1>14, LockPlaces
    <3> QED BY <3>1 DEF Loc, Spin
  <2>2. SpinOnFlag(t)
    BY <2>1, StepAt DEF Spin
  <2>3. Last(t) = NewestOf("flag") /\ Instr(t).order = "acquire"
    BY <2>1 DEF Last, Newest, NewestOf, Spin
  <2>4. CASE Last(t).val = 0 /\ Modify(t, 1, "acquire") /\ Continue(t)
    <3>1. /\ memory'["counter"] = memory["counter"]
          /\ (NewestOf("flag")').val = 1
          /\ view[t]["counter"] <= view'[t]["counter"]
          /\ view'[t]["counter"] <= Len(memory["counter"])
          /\ view'[t]["counter"] \in Nat
          /\ \A h \in NewestOf("flag").heads : h.view["counter"] <= view'[t]["counter"]
      <4>1. Acquires("acquire")
        BY DEF Acquires
      <4>2. 1 \in Int
        OBVIOUS
      <4> DEFINE E == /\ \A k \in Locations \ {"flag"} : memory'[k] = memory[k]
                      /\ (NewestOf("flag")').val = 1
                      /\ view'[t] \in Views
                      /\ \A k \in Locations \ {"flag"} :
                           view[t][k] <= view'[t][k] /\ view'[t][k] <= Len(memory[k])
                      /\ \A h \in NewestOf("flag").heads : \A k \in Locations \ {"flag"} :
                           h.view[k] <= view'[t][k]
      <4>3. E
        BY <4>1, <4>2, <2>1, <2>4, <1>8, ModifyEffect
      <4> QED BY <4>3, <1>8 DEF Views, Positive
    <3>2. Len(code'[t]) = l - 1 /\ Inside(t)'
      <4>1. Len(code'[t]) = l - 1
        BY <2>4, <1>4, <1>12
      <4> QED BY <4>1, <1>12, <1>14, LockNext
    <3>3. CountOf(t)' = CountOf(t)
      BY <3>2, <1>4, <1>7, <1>12, <1>14, LockNext
    <3>4. Total' = Total
      BY <1>5, <3>3, NoneCounts
    <3>5. NewestOf("counter")' = NewestOf("counter")
      BY <3>1 DEF NewestOf
    <3>6. CountInv'
      BY <3>4, <3>5, <1>4, <1>11 DEF CountInv
    <3>7. \A u \in 1 .. started : ~ Inside(u)
      BY <2>3, <2>4 DEF LockInv
    <3>8. view'[t]["counter"] = Len(memory'["counter"])
      <4>1. CASE Len(memory["counter"]) = 1
        <5>1. view[t]["counter"] = 1
          BY <4>1, <1>13
        <5>2. 1 <= view'[t]["counter"] /\ view'[t]["counter"] <= 1
          BY <4>1, <5>1, <3>1
        <5>3. view'[t]["counter"] = 1
          BY <5>2, <3>1
        <5> QED BY <4>1, <5>3, <3>1
      <4>2. CASE \E h \in NewestOf("flag").heads : h.view["counter"] = Len(memory["counter"])
        <5>1. Len(memory["counter"]) <= view'[t]["counter"]
          BY <4>2, <3>1
        <5> QED BY <5>1, <3>1, <1>13
      <4> QED BY <4>1, <4>2, <2>3, <2>4 DEF LockInv
    <3>9. \A u \in 1 .. started : Inside(u)' => u = t
      BY <3>7, <1>9
    <3>10. LockInv'
      <4>1. \A u \in 1 .. started' : Inside(u)' => u = t
        BY <3>9, <1>4
      <4>2. t \in 1 .. started'
        BY <1>3, <1>4
      <4>3. (NewestOf("flag").val)' = 1
        BY <3>1
      <4> QED BY <4>1, <4>2, <4>3, <3>2, <3>8 DEF LockInv
    <3> QED BY <3>6, <3>10
  <2>5. CASE Last(t).val # 0 /\ Observe(t, "acquire") /\ UNCHANGED code
    <3>1. memory' = memory /\ code' = code
      BY <2>5 DEF Observe
    <3>2. Total' = Total
      BY <1>5, <1>7, <3>1, NoneCounts
    <3>3. NewestOf("counter")' = NewestOf("counter") /\ NewestOf("flag")' = NewestOf("flag")
      BY <3>1 DEF NewestOf
    <3>4. CountInv'
      BY <3>2, <3>3, <1>4, <1>11 DEF CountInv
    <3>5. \A u \in 1 .. started : Inside(u)' = Inside(u)
      BY <3>1 DEF Inside
    <3>6. LockInv'
      BY <3>1, <3>3, <3>5, <2>1, <1>4, <1>9 DEF LockInv
    <3> QED BY <3>4, <3>6
  <2> QED BY <2>2, <2>3, <2>4, <2>5 DEF SpinOnFlag
<1>15. CASE l \in {5, 2}
  <2>1. Instr(t) = Access("counter", "add", 1) /\ Loc(t) = "counter" /\ Inside(t)
    <3>1. Instr(t) = Access("counter", "add", 1) /\ Inside(t)
      BY <1>3, <1>12, <1>15, LockPlaces
    <3> QED BY <3>1 DEF Loc, Access
  <2>2. AccessData(t) /\ Instr(t).how = "add" /\ Instr(t).arg = 1
    BY <2>1, StepAt DEF Access
  <2>3. view[t]["counter"] = Len(memory["counter"])
    BY <2>1, <1>3 DEF LockInv
  <2>4. /\ memory'["flag"] = memory["flag"]
        /\ (NewestOf("counter")').val = NewestOf("counter").val + 1
        /\ view'[t]["counter"] = Len(memory'["counter"])
    BY <2>1, <2>2, <2>3, <1>8, AccessEffect
  <2>5. Continue(t)
    BY <2>2 DEF AccessData
  <2>6. Len(code'[t]) = l - 1 /\ Inside(t)'
    <3>1. Len(code'[t]) = l - 1
      BY <2>5, <1>4, <1>12
    <3> QED BY <3>1, <1>12, <1>15, LockNext
  <2>7. CountOf(t)' = CountOf(t) + 1
    BY <2>6, <1>7, <1>12, <1>15, LockNext
  <2>8. Total' = Total + 1
    BY <1>3, <1>5, <2>7, OneCounts
  <2>9. CountInv'
    BY <2>4, <2>8, <1>4, <1>10, <1>11 DEF CountInv
  <2>10. \A u \in 1 .. started : Inside(u)' => u = t
    BY <2>1, <1>3, <1>9 DEF LockInv
  <2>11. NewestOf("flag")' = NewestOf("flag") /\ NewestOf("flag").val # 0
    BY <2>1, <2>4, <1>3 DEF LockInv, NewestOf
  <2>12. LockInv'
    <3>1. \A u \in 1 .. started' : Inside(u)' => u = t
      BY <2>10, <1>4
    <3>2. t \in 1 .. started'
      BY <1>3, <1>4
    <3>3. (NewestOf("flag").val)' # 0
      BY <2>11
    <3> QED BY <3>1, <3>2, <3>3, <2>4, <2>6 DEF LockInv
  <2> QED BY <2>9, <2>12
<1>16. CASE l \in {4, 1}
  <2>1. Instr(t) = Store("flag", 0, "release") /\ Loc(t) = "flag" /\ Inside(t)
    <3>1. Instr(t) = Store("flag", 0, "release") /\ Inside(t)
      BY <1>3, <1>12, <1>16, LockPlaces
    <3> QED BY <3>1 DEF Loc, Store
  <2>2. StoreAtomic(t) /\ Instr(t).arg = 0 /\ Instr(t).order = "release"
    BY <2>1, StepAt DEF Store
  <2>3. view[t]["counter"] = Len(memory["counter"])
    BY <2>1, <1>3 DEF LockInv
  <2>4. /\ memory'["counter"] = memory["counter"]
        /\ (NewestOf("flag")').val = 0
        /\ view'[t]["counter"] = view[t]["counter"]
        /\ OwnHead(t, view'[t], "release") \subseteq (NewestOf("flag")').heads
    BY <2>1, <2>2, <1>8, StoreEffect
  <2>5. \E h \in (NewestOf("flag")').heads : h.view["counter"] = Len(memory'["counter"])
    <3>1. [by |-> t, view |-> view'[t]] \in OwnHead(t, view'[t], "release")
      BY DEF OwnHead, Releases
    <3> QED BY <3>1, <2>3, <2>4
  <2>6. Continue(t)
    BY <2>2 DEF StoreAtomic
  <2>7. Len(code'[t]) = l - 1 /\ ~ Inside(t)'
    <3>1. Len(code'[t]) = l - 1
      BY <2>6, <1>4, <1>12
    <3> QED BY <3>1, <1>12, <1>16, LockNext
  <2>8. CountOf(t)' = CountOf(t)
    BY <2>7, <1>7, <1>12, <1>16, LockNext
  <2>9. Total' = Total
    BY <1>5, <2>8, NoneCounts
  <2>10. NewestOf("counter")' = NewestOf("counter")
    BY <2>4 DEF NewestOf
  <2>11. CountInv'
    BY <2>9, <2>10, <1>4, <1>11 DEF CountInv
  <2>12. \A u \in 1 .. started : ~ Inside(u)'
    BY <2>1, <2>7, <1>3, <1>9 DEF LockInv
  <2>13. LockInv'
    <3>1. \A u \in 1 .. started' : ~ Inside(u)'
      BY <2>12, <1>4
    <3>2. (NewestOf("flag").val)' = 0
      BY <2>4
    <3> QED BY <3>1, <3>2, <2>5 DEF LockInv
  <2> QED BY <2>11, <2>13
<1> QED BY <1>14, <1>15, <1>16

(* The counter holds every increment, and the spinlock excludes. *)
CountingInv == CountInv /\ LockInv

(* Nobody has counted or taken the lock at the beginning. *)
LEMMA CountingInit == Init => CountingInv
<1> SUFFICES ASSUME Init PROVE CountingInv
  OBVIOUS
<1>1. /\ started = 0
      /\ memory = [x \in Locations |-> <<Message(IF x = "counter" THEN input.initial ELSE 0, {})>>]
  BY DEF Init
<1>2. "counter" \in Locations /\ "flag" \in Locations
  BY NamedLocations
<1>3. /\ NewestOf("counter").val = input.initial /\ Len(memory["counter"]) = 1
      /\ NewestOf("flag").val = 0
  <2>1. memory["counter"] = <<Message(input.initial, {})>> /\ memory["flag"] = <<Message(0, {})>>
    BY <1>1, <1>2
  <2> QED BY <2>1 DEF NewestOf, Message
<1>4. Total = 0
  <2>1. \A i \in 1 .. MaxThreads : CountOf(i) = IF i <= started THEN 1 ELSE 0
    BY <1>1 DEF CountOf
  <2>2. started \in 0 .. MaxThreads
    BY <1>1, ThreadProgramsAssumption
  <2> QED BY <1>1, <2>1, <2>2, AllCounted
<1>5. CountInv
  <2>1. program \in Counters => input.initial \in Int
    BY InputTypes DEF Init, Counters
  <2> QED BY <2>1, <1>3, <1>4 DEF CountInv
<1>6. LockInv
  <2>1. \A i \in 1 .. started : FALSE
    BY <1>1
  <2> QED BY <2>1, <1>3 DEF LockInv
<1> QED BY <1>5, <1>6 DEF CountingInv

(* Every step. *)
LEMMA CountingStep ==
  ASSUME ThreadInv, OnItsWay, MemoryTyping, CountingInv, [Next]_vars
  PROVE  CountingInv'
<1> USE DEF CountingInv
<1>1. CASE UNCHANGED vars
  <2>1. UNCHANGED <<program, input, started, code, memory, view>>
    BY <1>1 DEF vars, objects, atomics
  <2>2. CountInv'
    <3>1. Total' = Total
      BY <2>1, NoneCounts DEF CountOf
    <3> QED BY <2>1, <3>1 DEF CountInv, NewestOf
  <2>3. LockInv'
    BY <2>1 DEF LockInv, Inside, NewestOf
  <2> QED BY <2>2, <2>3
<1>2. ASSUME NEW h \in {1, 2}, NEW g \in {1, 2}, CallAutoJoining(h, g) PROVE CountingInv'
  BY <1>2 DEF CallAutoJoining, OnlyCode, CountInv, LockInv, Counters
<1>3. ASSUME NEW t \in Threads, Step(t) PROVE CountingInv'
  <2>1. program' = program /\ input' = input
    BY <1>3, SameProgram
  <2>2. CASE program \notin Counters
    BY <2>1, <2>2 DEF CountInv, LockInv, Counters
  <2>3. CASE t = main /\ program \in Counters
    <3>1. Total' = Total /\ memory' = memory
      BY <1>3, <2>3, MainCounts
    <3>2. CountInv'
      BY <3>1, <2>1, <2>3 DEF CountInv, NewestOf
    <3>3. LockInv'
      <4>1. CASE program = "spinlock_mutex"
        BY <4>1, <1>3, <2>3, LockMain
      <4>2. CASE program # "spinlock_mutex"
        BY <4>2, <2>1 DEF LockInv
      <4> QED BY <4>1, <4>2
    <3> QED BY <3>2, <3>3
  <2>4. CASE t # main /\ program = "spinlock_mutex"
    BY <2>4, <1>3, LockWorker
  <2>5. CASE t # main /\ program = "multithread_compare_exchange_weak"
    <3>1. CountInv'
      BY <2>5, <1>3, LoopCounts
    <3>2. LockInv'
      BY <2>1, <2>5 DEF LockInv
    <3> QED BY <3>1, <3>2
  <2> QED BY <2>2, <2>3, <2>4, <2>5 DEF Counters
<1> QED BY <1>1, <1>2, <1>3 DEF Next

(* In every reachable state of the programs that count, the newest value   *)
(* of the counter is its initial value plus the increments so far, and at  *)
(* most one thread is between lock and unlock of the spinlock; when it is  *)
(* free, its last message announces the whole history of the counter.      *)
THEOREM CountingTheorem == Spec => [](CountInv /\ LockInv)
<1>1. ThreadInv /\ OnItsWay /\ MemoryTyping /\ CountingInv /\ [Next]_vars => CountingInv'
  BY CountingStep
<1>2. Spec => []CountingInv
  BY <1>1, CountingInit, OnItsWayAlways, ThreadInvariant, MemoryTypingTheorem, PTL DEF Spec
<1> QED BY <1>2, PTL DEF CountingInv

(* No increment is lost: when main has joined the threads of Spinlock, or  *)
(* of the loops of compare_exchange_weak, the counter is its initial value *)
(* plus one for each increment, for every interleaving, every spurious     *)
(* failure and every stale value that a weak load may return.              *)
THEOREM NoLostIncrementTheorem == Spec => []NoLostIncrement
<1>1. ASSUME ThreadInv, OnItsWay, MemoryTyping, CountInv
      PROVE  NoLostIncrement
  <2> DEFINE count == memory["counter"][Len(memory["counter"])].val - input.initial
  <2>1. ASSUME NEW p \in Counters, Returned(p)
        PROVE  /\ program = p /\ started = input.cores /\ input.cores \in 0 .. MaxThreads
               /\ \A i \in 1 .. MaxThreads : code[i] = <<>>
               /\ count = Total
    <3>1. program = p /\ p \in Collecting /\ Starts(p, input) = input.cores
      BY <2>1, CountersPlaced DEF Returned, Starts, Counters
    <3>2. /\ started = input.cores /\ started \in 0 .. MaxThreads
          /\ \A n \in Workers : code[n] = <<>>
      BY <1>1, <2>1, <3>1, AllEnded
    <3>3. 1 .. MaxThreads \subseteq Workers
      BY DEF Workers
    <3>4. NewestOf("counter").val = input.initial + Total
      BY <1>1, <3>1 DEF CountInv
    <3>5. input.initial \in Int /\ Total \in Int
      BY <1>1, <3>1, TotalType, InputTypes DEF ThreadInv, Typing, Counters
    <3> QED BY <3>1, <3>2, <3>3, <3>4, <3>5 DEF NewestOf
  <2> HIDE DEF count
  <2>2. ASSUME Returned("multithread_compare_exchange_weak") PROVE count = input.cores
    <3>1. /\ program = "multithread_compare_exchange_weak" /\ started = input.cores
          /\ input.cores \in 0 .. MaxThreads /\ \A i \in 1 .. MaxThreads : code[i] = <<>>
          /\ count = Total
      BY <2>1, <2>2 DEF Counters
    <3>2. \A i \in 1 .. MaxThreads : CountOf(i) = IF i <= started THEN 1 ELSE 0
      BY <3>1 DEF CountOf, Counted
    <3>3. Total = 1 * started
      BY <3>1, <3>2, AllCounted
    <3> QED BY <3>1, <3>3, ThreadProgramsAssumption
  <2>3. ASSUME Returned("spinlock_mutex") PROVE count = 2 * input.cores
    <3>1. /\ program = "spinlock_mutex" /\ started = input.cores
          /\ input.cores \in 0 .. MaxThreads /\ \A i \in 1 .. MaxThreads : code[i] = <<>>
          /\ count = Total
      BY <2>1, <2>3 DEF Counters
    <3>2. \A i \in 1 .. MaxThreads : CountOf(i) = IF i <= started THEN 2 ELSE 0
      BY <3>1 DEF CountOf, Counted
    <3>3. Total = 2 * started
      BY <3>1, <3>2, AllCounted
    <3> QED BY <3>1, <3>3, ThreadProgramsAssumption
  <2> QED BY <2>2, <2>3 DEF NoLostIncrement, count
<1> QED BY <1>1, CountingTheorem, OnItsWayAlways, ThreadInvariant, MemoryTypingTheorem, PTL

-----------------------------------------------------------------------------
(* The release sequence *)

(* The instructions of producer and of consumer. *)
LEMMA ReleaseBodies ==
  /\ Len(producer) = 4 /\ Len(consumer) = 3
  /\ producer[1] = Access("data", "write", 42)
  /\ producer[2] = Store("atomic_var", 1, "release")
  /\ producer[3] = RMW("atomic_var", "fetch_add", 1, "relaxed")
  /\ producer[4] = Store("atomic_var", 2, "relaxed")
  /\ consumer[1] = Await("atomic_var", 1)
  /\ consumer[2] = Access("data", "read", 0)
  /\ consumer[3] = Assert("val", 42)
BY DEF producer, consumer

(* How many instructions thread i has left, of n. *)
Left(i, n) == IF i <= started THEN Len(code[i]) ELSE n

(* Who reads message i with acquire knows that data was written. *)
Announces(i) ==
  /\ memory["atomic_var"][i].val >= 1
  /\ \E h \in memory["atomic_var"][i].heads : h.by = 1 /\ h.view["data"] = 2

(* What the producer has written and what the consumer has read, when the  *)
(* fourth instruction of producer (End release sequence) is in the release *)
(* sequence of its second one: every value that the consumer waits for     *)
(* announces the 42, and was written after it.                             *)
ReleaseSequenceInv ==
  program = "release_sequence" /\ input.standard < 20 =>
    /\ memory["atomic_var"][1].val = 0
    /\ \A i \in 2 .. Len(memory["atomic_var"]) : Announces(i)
    /\ Left(1, 4) >= 3 => Len(memory["atomic_var"]) = 1
    /\ Left(1, 4) < 3 => Len(memory["atomic_var"]) >= 2
    /\ Left(1, 4) = 4 => Len(memory["data"]) = 1
    /\ Left(1, 4) < 4 => NewestOf("data").val = 42
    /\ Left(1, 4) < 4 /\ Left(2, 3) >= 2 => Len(memory["data"]) = 2
    /\ Left(1, 4) = 3 => view[1]["data"] = 2
    /\ Left(2, 3) <= 2 => Left(1, 4) < 3
    /\ Left(2, 3) = 2 => view[2]["data"] = 2
    /\ Left(2, 3) = 1 => reg[2].val = 42

(* A bound, as an interval. *)
LEMMA UpTo ==
  ASSUME NEW a, NEW b, NEW n \in Nat, a \in Nat, a <= b, b = n
  PROVE  a \in 0 .. n
OBVIOUS

(* Neither thread has more left than its body. *)
LEMMA LeftTypes ==
  ASSUME ThreadInv, OnItsWay, program = "release_sequence"
  PROVE  Left(1, 4) \in 0 .. 4 /\ Left(2, 3) \in 0 .. 3
<1>1. program \in Placed
  BY DEF Placed, Collecting
<1>2. started \in Nat /\ \A i \in 1 .. started : Suffix(code[i], Body(program, input, i))
  BY <1>1 DEF OnItsWay, ThreadInv, Typing
<1>3. Body(program, input, 1) = producer /\ Body(program, input, 2) = consumer
  BY DEF Body
<1>4. ASSUME 1 <= started PROVE Len(code[1]) \in 0 .. 4
  <2>1. 1 \in 1 .. started
    BY <1>2, <1>4
  <2>2. Suffix(code[1], producer)
    BY <2>1, <1>2, <1>3
  <2>3. IsSequence(code[1]) /\ Len(code[1]) <= Len(producer)
    BY <2>2 DEF Suffix
  <2>4. Len(code[1]) \in Nat
    BY <2>3 DEF IsSequence
  <2>5. Len(producer) = 4
    BY ReleaseBodies
  <2> QED BY ONLY <2>3, <2>4, <2>5, UpTo
<1>5. ASSUME 2 <= started PROVE Len(code[2]) \in 0 .. 3
  <2>1. 2 \in 1 .. started
    BY <1>2, <1>5
  <2>2. Suffix(code[2], consumer)
    BY <2>1, <1>2, <1>3
  <2>3. IsSequence(code[2]) /\ Len(code[2]) <= Len(consumer)
    BY <2>2 DEF Suffix
  <2>4. Len(code[2]) \in Nat
    BY <2>3 DEF IsSequence
  <2>5. Len(consumer) = 3
    BY ReleaseBodies
  <2> QED BY ONLY <2>3, <2>4, <2>5, UpTo
<1> QED BY <1>4, <1>5 DEF Left

(* main starts the threads and joins them, and touches nothing. *)
LEMMA ReleaseMain ==
  ASSUME ThreadInv, OnItsWay, MemoryTyping, ReleaseSequenceInv, program = "release_sequence", Step(main)
  PROVE  ReleaseSequenceInv'
<1>1. program \in Placed /\ MainOps(program) = {"join", "destroy"}
  BY DEF Placed, Collecting, MainOps, Single
<1>2. memory' = memory /\ reg' = reg
  BY <1>1, QuietMain
<1>3. /\ program' = program /\ input' = input /\ started \in Nat
      /\ \A i \in 1 .. started : code'[i] = code[i] /\ view'[i] = view[i]
      /\ \/ started' = started
         \/ started' = started + 1 /\ code'[started + 1] = Body(program, input, started + 1)
  BY <1>1, MainMoves DEF ThreadInv, Typing
<1>4. Len(Body(program, input, 1)) = 4 /\ Len(Body(program, input, 2)) = 3
  BY ReleaseBodies DEF Body
<1>a. ASSUME NEW i \in {1, 2}, NEW n, Len(Body(program, input, i)) = n
      PROVE  Left(i, n)' = Left(i, n)
  <2>1. CASE i <= started
    <3>1. i \in 1 .. started /\ i <= started'
      BY <2>1, <1>3
    <3> QED BY <2>1, <3>1, <1>3 DEF Left
  <2>2. CASE ~ (i <= started)
    <3>1. CASE started' = started
      BY <2>2, <3>1 DEF Left
    <3>2. CASE started' = started + 1 /\ code'[started + 1] = Body(program, input, started + 1)
      <4>1. i <= started' => i = started + 1
        BY <2>2, <3>2, <1>3
      <4> QED BY <2>2, <3>2, <4>1, <1>a DEF Left
    <3> QED BY <3>1, <3>2, <1>3
  <2> QED BY <2>1, <2>2
<1>5. Left(1, 4)' = Left(1, 4)
  BY <1>4, <1>a
<1>6. Left(2, 3)' = Left(2, 3)
  BY <1>4, <1>a
<1>7. Left(1, 4) = 3 => view'[1] = view[1]
  BY <1>3 DEF Left
<1>8. Left(2, 3) = 2 => view'[2] = view[2]
  BY <1>3 DEF Left
<1>9. NewestOf("data")' = NewestOf("data") /\ \A i : Announces(i)' = Announces(i)
  BY <1>2 DEF NewestOf, Announces
<1> QED BY <1>2, <1>3, <1>5, <1>6, <1>7, <1>8, <1>9 DEF ReleaseSequenceInv

(* A step of one of the two threads, in terms of how much both have left. *)
LEMMA WorkerLeft ==
  ASSUME ThreadInv, OnItsWay, MemoryTyping, program = "release_sequence",
         NEW t \in Threads, t # main, Step(t)
  PROVE  /\ program' = program /\ input' = input /\ started' = started
         /\ t \in {1, 2}
         /\ t = 1 => /\ Left(2, 3)' = Left(2, 3) /\ view'[2] = view[2]
                     /\ Left(1, 4) \in 1 .. 4 /\ Instr(t) = producer[4 - Left(1, 4) + 1]
                     /\ Continue(t) => Left(1, 4)' = Left(1, 4) - 1
                     /\ UNCHANGED code => Left(1, 4)' = Left(1, 4)
         /\ t = 2 => /\ Left(1, 4)' = Left(1, 4) /\ view'[1] = view[1]
                     /\ Left(2, 3) \in 1 .. 3 /\ Instr(t) = consumer[3 - Left(2, 3) + 1]
                     /\ Continue(t) => Left(2, 3)' = Left(2, 3) - 1
                     /\ UNCHANGED code => Left(2, 3)' = Left(2, 3)
<1>1. program \in Placed /\ code[t] # <<>>
  BY StepAt DEF Placed, Collecting
<1>2. /\ program' = program /\ input' = input /\ started' = started
      /\ Continue(t) => Len(code'[t]) = Len(code[t]) - 1
      /\ \A u \in Threads : u # t => code'[u] = code[u] /\ view'[u] = view[u]
  BY <1>1, WorkerMoves
<1>3. /\ t \in 1 .. started /\ t \in 1 .. Starts(program, input)
      /\ Len(code[t]) \in 1 .. Len(Body(program, input, t))
      /\ Instr(t) = Body(program, input, t)[Len(Body(program, input, t)) - Len(code[t]) + 1]
  BY <1>1, WorkerAt
<1>4. t \in {1, 2} /\ 1 \in Threads /\ 2 \in Threads
  <2>1. Starts(program, input) = 2
    BY DEF Starts
  <2> QED BY <2>1, <1>3, ThreadProgramsAssumption DEF Threads, Workers
<1>5. started \in Nat
  BY DEF ThreadInv, Typing
<1>6. CASE t = 1
  <2>1. Body(program, input, t) = producer
    BY <1>6 DEF Body
  <2>2. Left(1, 4) = Len(code[1]) /\ Left(1, 4)' = Len(code'[1])
    BY <1>2, <1>3, <1>5, <1>6 DEF Left
  <2>3. Left(2, 3)' = Left(2, 3) /\ view'[2] = view[2]
    BY <1>2, <1>4, <1>6 DEF Left
  <2>4. PICK l : l = Len(code[1])
    OBVIOUS
  <2>5. l \in 1 .. 4 /\ Instr(t) = producer[4 - l + 1]
    BY <1>3, <1>6, <2>1, <2>4, ReleaseBodies
  <2>6. Continue(t) => Len(code'[1]) = l - 1
    BY <1>2, <1>6, <2>4
  <2>7. Left(1, 4) = l
    BY <2>2, <2>4
  <2>8. UNCHANGED code => Left(1, 4)' = Left(1, 4)
    BY <2>2
  <2>9. t # 2
    BY <1>6
  <2> QED BY <1>2, <1>4, <1>6, <2>2, <2>3, <2>5, <2>6, <2>7, <2>8, <2>9
<1>7. CASE t = 2
  <2>1. Body(program, input, t) = consumer
    BY <1>7 DEF Body
  <2>2. Left(2, 3) = Len(code[2]) /\ Left(2, 3)' = Len(code'[2])
    BY <1>2, <1>3, <1>5, <1>7 DEF Left
  <2>3. Left(1, 4)' = Left(1, 4) /\ view'[1] = view[1]
    BY <1>2, <1>4, <1>7 DEF Left
  <2>4. PICK l : l = Len(code[2])
    OBVIOUS
  <2>5. l \in 1 .. 3 /\ Instr(t) = consumer[3 - l + 1]
    BY <1>3, <1>7, <2>1, <2>4, ReleaseBodies
  <2>6. Continue(t) => Len(code'[2]) = l - 1
    BY <1>2, <1>7, <2>4
  <2>7. Left(2, 3) = l
    BY <2>2, <2>4
  <2>8. UNCHANGED code => Left(2, 3)' = Left(2, 3)
    BY <2>2
  <2>9. t # 1
    BY <1>7
  <2> QED BY <1>2, <1>4, <1>7, <2>2, <2>3, <2>5, <2>6, <2>7, <2>8, <2>9
<1> QED BY <1>2, <1>4, <1>6, <1>7

(* The versions of C++ before C++20. *)
Standard == program = "release_sequence" /\ input.standard < 20

(* The messages of x after one more was written. *)
LEMMA AllAnnounce ==
  ASSUME MemoryTyping, \A i \in 2 .. Len(memory["atomic_var"]) : Announces(i),
         Len(memory'["atomic_var"]) = Len(memory["atomic_var"]) + 1,
         \A i \in 1 .. Len(memory["atomic_var"]) : memory'["atomic_var"][i] = memory["atomic_var"][i],
         memory["atomic_var"][1].val = 0,
         (NewestOf("atomic_var")').val >= 1,
         \E h \in (NewestOf("atomic_var")').heads : h.by = 1 /\ h.view["data"] = 2
  PROVE  /\ (memory["atomic_var"][1].val)' = 0
         /\ \A i \in 2 .. Len(memory'["atomic_var"]) : Announces(i)'
         /\ Len(memory'["atomic_var"]) >= 2
<1> DEFINE n == Len(memory["atomic_var"])
<1>1. n \in Nat /\ n >= 1
  BY NamedLocations DEF MemoryTyping
<1>2. NewestOf("atomic_var")' = memory'["atomic_var"][n + 1]
  BY DEF NewestOf
<1>3. 1 \in 1 .. n
  BY <1>1
<1>4. ASSUME NEW i \in 2 .. n + 1 PROVE Announces(i)'
  <2>1. CASE i = n + 1
    BY <2>1, <1>2 DEF Announces
  <2>2. CASE i # n + 1
    <3>1. i \in 2 .. n /\ i \in 1 .. n
      BY <2>2, <1>1
    <3> QED BY <3>1 DEF Announces
  <2> QED BY <2>1, <2>2
<1> QED BY <1>1, <1>3, <1>4

(* The producer writes 42. *)
LEMMA ProducerWrites ==
  ASSUME ThreadInv, OnItsWay, MemoryTyping, ReleaseSequenceInv, Standard,
         NEW t \in Threads, t = 1, Step(t), Left(1, 4) = 4
  PROVE  ReleaseSequenceInv'
<1>1. /\ program' = program /\ input' = input /\ started' = started
      /\ Left(2, 3)' = Left(2, 3) /\ view'[2] = view[2]
      /\ Instr(t) = Access("data", "write", 42)
      /\ Continue(t) => Left(1, 4)' = 3
  BY WorkerLeft, ReleaseBodies DEF Standard, main
<1>2. AccessData(t) /\ Loc(t) = "data" /\ Instr(t).how = "write" /\ Instr(t).arg = 42
  BY <1>1, StepAt DEF Access, Loc
<1>3. "data" \in Locations /\ "atomic_var" \in Locations /\ "data" # "atomic_var"
  BY NamedLocations
<1>4. Len(memory["data"]) = 1 /\ view[t]["data"] = 1
  <2>1. Len(memory["data"]) = 1
    BY DEF ReleaseSequenceInv, Standard
  <2>2. view[t]["data"] \in 1 .. 1
    BY <2>1, <1>3, Histories
  <2> QED BY <2>1, <2>2
<1>5. /\ Len(memory'["data"]) = 2 /\ memory'["atomic_var"] = memory["atomic_var"]
      /\ view'[t]["data"] = 2
      /\ (NewestOf("data")').val = 42 /\ reg' = reg
  <2>1. view[t]["data"] = Len(memory["data"])
    BY <1>4
  <2>2. /\ Len(memory'["data"]) = Len(memory["data"]) + 1
        /\ \A k \in Locations \ {"data"} : memory'[k] = memory[k]
        /\ view'[t]["data"] = Len(memory'["data"])
        /\ Instr(t).how = "write" => (NewestOf("data")').val = Instr(t).arg /\ reg' = reg
    BY <2>1, <1>2, AccessEffect
  <2>3. memory'["atomic_var"] = memory["atomic_var"]
    BY <2>2, <1>3
  <2>4. (NewestOf("data")').val = 42 /\ reg' = reg
    BY <2>2, <1>2
  <2>5. Len(memory'["data"]) = 2
    BY <2>2, <1>4
  <2> QED BY <2>2, <2>3, <2>4, <2>5
<1>6. Left(1, 4)' = 3
  BY <1>1, <1>2 DEF AccessData
<1>7. Left(2, 3) = 3
  BY LeftTypes DEF ReleaseSequenceInv, Standard
<1>8. \A i : Announces(i)' = Announces(i)
  BY <1>5 DEF Announces
<1> QED BY <1>1, <1>5, <1>6, <1>7, <1>8 DEF ReleaseSequenceInv, Standard

(* Both threads exist. *)
LEMMA WorkersFrom2 == 1 \in Threads /\ 2 \in Threads /\ 1 # 2
BY ThreadProgramsAssumption DEF Threads, Workers

(* The three operations of the producer on atomic_var; each of them keeps  *)
(* the head that the first has written.                                    *)
LEMMA ProducerAnnounces ==
  ASSUME ThreadInv, OnItsWay, MemoryTyping, ReleaseSequenceInv, Standard,
         NEW t \in Threads, t = 1, Step(t), Left(1, 4) \in 1 .. 3
  PROVE  ReleaseSequenceInv'
<1> DEFINE l == Left(1, 4)
           x == "atomic_var"
<1>1. /\ program' = program /\ input' = input /\ started' = started
      /\ Left(2, 3)' = Left(2, 3) /\ view'[2] = view[2]
      /\ Instr(t) = producer[4 - l + 1]
      /\ Continue(t) => Left(1, 4)' = l - 1
  BY WorkerLeft DEF Standard, main
<1>2. "data" \in Locations /\ x \in Locations /\ "data" # x
  BY NamedLocations
<1>3. /\ memory[x][1].val = 0
      /\ \A i \in 2 .. Len(memory[x]) : Announces(i)
      /\ l = 3 => Len(memory[x]) = 1 /\ view[1]["data"] = 2
      /\ l < 3 => Len(memory[x]) >= 2
      /\ NewestOf("data").val = 42
      /\ Left(2, 3) >= 2 => Len(memory["data"]) = 2
      /\ Left(2, 3) = 2 => view[2]["data"] = 2
      /\ Left(2, 3) = 1 => reg[2].val = 42
      /\ Left(2, 3) <= 2 => l < 3
  BY DEF ReleaseSequenceInv, Standard
<1>4. l < 3 => /\ NewestOf(x).val >= 1 /\ NewestOf(x).val \in Int
               /\ \E h \in NewestOf(x).heads : h.by = 1 /\ h.view["data"] = 2
  <2>1. Len(memory[x]) \in Nat
    BY <1>2, Histories DEF Positive
  <2>2. l < 3 => Len(memory[x]) \in 2 .. Len(memory[x])
    BY <1>3, <2>1
  <2>3. l < 3 => Announces(Len(memory[x]))
    BY <1>3, <2>2
  <2> QED BY <2>3, <1>2, NewestFacts DEF Announces, NewestOf
<1>5. /\ Loc(t) = x /\ reg'[2] = reg[2] /\ Continue(t)
      /\ Len(memory'[x]) = Len(memory[x]) + 1
      /\ \A i \in 1 .. Len(memory[x]) : memory'[x][i] = memory[x][i]
      /\ memory'["data"] = memory["data"]
      /\ (NewestOf(x)').val >= 1
      /\ \E h \in (NewestOf(x)').heads : h.by = 1 /\ h.view["data"] = 2
  <2>1. CASE l = 3
    <3>1. Instr(t) = Store(x, 1, "release")
      BY <1>1, <2>1, ReleaseBodies
    <3>2. StoreAtomic(t) /\ Loc(t) = x /\ Instr(t).arg = 1 /\ Instr(t).order = "release"
      BY <3>1, StepAt DEF Store, Loc
    <3>3. /\ Len(memory'[x]) = Len(memory[x]) + 1
          /\ \A i \in 1 .. Len(memory[x]) : memory'[x][i] = memory[x][i]
          /\ memory'["data"] = memory["data"] /\ reg' = reg
          /\ (NewestOf(x)').val = 1
          /\ view'[t]["data"] = view[t]["data"]
          /\ OwnHead(t, view'[t], "release") \subseteq (NewestOf(x)').heads
      BY <3>2, <1>2, StoreEffect
    <3>4. [by |-> t, view |-> view'[t]] \in (NewestOf(x)').heads
      BY <3>3 DEF OwnHead, Releases
    <3>5. view'[t]["data"] = 2
      BY <3>3, <2>1, <1>3
    <3> QED BY <3>2, <3>3, <3>4, <3>5 DEF StoreAtomic
  <2>2. CASE l = 2
    <3>1. Instr(t) = RMW(x, "fetch_add", 1, "relaxed")
      BY <1>1, <2>2, ReleaseBodies
    <3>2. ReadModifyWrite(t) /\ Loc(t) = x /\ Instr(t).arg = 1 /\ Instr(t).how = "fetch_add"
          /\ Instr(t).order = "relaxed"
      BY <3>1, StepAt DEF RMW, Loc
    <3>3. PICK v \in Int : v = NewestOf(x).val /\ v >= 1
      BY <1>4, <2>2
    <3>4. Modify(t, v + 1, "relaxed") /\ Set(t, "val", v)
      BY <3>2, <3>3 DEF ReadModifyWrite, Last, Newest, NewestOf
    <3>5. /\ Len(memory'[x]) = Len(memory[x]) + 1
          /\ \A i \in 1 .. Len(memory[x]) : memory'[x][i] = memory[x][i]
          /\ memory'["data"] = memory["data"]
          /\ (NewestOf(x)').val = v + 1
          /\ NewestOf(x).heads \subseteq (NewestOf(x)').heads
      <4>1. v + 1 \in Int
        OBVIOUS
      <4> QED BY <4>1, <3>2, <3>4, <1>2, ModifyEffect
    <3>6. Continue(t)
      BY <3>2 DEF ReadModifyWrite
    <3>7. reg'[2] = reg[2]
      BY <3>4, <1>2, SetType, WorkersFrom2 DEF Fields
    <3>8. (NewestOf(x)').val >= 1
      BY <3>3, <3>5
    <3>9. \E h \in (NewestOf(x)').heads : h.by = 1 /\ h.view["data"] = 2
      BY <3>5, <2>2, <1>4
    <3> QED BY <3>2, <3>5, <3>6, <3>7, <3>8, <3>9
  <2>3. CASE l = 1
    <3>1. Instr(t) = Store(x, 2, "relaxed")
      BY <1>1, <2>3, ReleaseBodies
    <3>2. StoreAtomic(t) /\ Loc(t) = x /\ Instr(t).arg = 2 /\ Instr(t).order = "relaxed"
      BY <3>1, StepAt DEF Store, Loc
    <3>3. /\ Len(memory'[x]) = Len(memory[x]) + 1
          /\ \A i \in 1 .. Len(memory[x]) : memory'[x][i] = memory[x][i]
          /\ memory'["data"] = memory["data"] /\ reg' = reg
          /\ (NewestOf(x)').val = 2
          /\ {h \in NewestOf(x).heads : h.by = t} \subseteq (NewestOf(x)').heads
      BY <3>2, <1>2, StoreEffect DEF Standard
    <3> QED BY <3>2, <3>3, <2>3, <1>4 DEF StoreAtomic
  <2> QED BY <2>1, <2>2, <2>3
<1>6. /\ (memory[x][1].val)' = 0
      /\ \A i \in 2 .. Len(memory'[x]) : Announces(i)'
      /\ Len(memory'[x]) >= 2
  BY <1>3, <1>5, AllAnnounce
<1>7. Left(1, 4)' < 3 /\ Left(1, 4)' \in Nat
  BY <1>1, <1>5
<1>8. NewestOf("data")' = NewestOf("data")
  BY <1>5 DEF NewestOf
<1> HIDE DEF l
<1> QED BY <1>1, <1>3, <1>5, <1>6, <1>7, <1>8 DEF ReleaseSequenceInv

(* The consumer reads a value of at least 1, which announces data. *)
LEMMA ConsumerAwaits ==
  ASSUME ThreadInv, OnItsWay, MemoryTyping, ReleaseSequenceInv, Standard,
         NEW t \in Threads, t = 2, Step(t), Left(2, 3) = 3
  PROVE  ReleaseSequenceInv'
<1> DEFINE x == "atomic_var"
<1>1. /\ program' = program /\ input' = input
      /\ Left(1, 4)' = Left(1, 4) /\ view'[1] = view[1]
      /\ Instr(t) = Await(x, 1)
      /\ Continue(t) => Left(2, 3)' = 2
      /\ UNCHANGED code => Left(2, 3)' = 3
  BY WorkerLeft, ReleaseBodies DEF Standard, main
<1>2. AwaitValue(t) /\ Loc(t) = x /\ Instr(t).arg = 1
  BY <1>1, StepAt DEF Await, Loc
<1>3. "data" \in Locations /\ x \in Locations /\ "data" # x
  BY NamedLocations
<1>4. memory' = memory /\ reg' = reg
  BY <1>2 DEF AwaitValue
<1>5. PICK i \in view[t][x] .. Len(memory[x]) :
        /\ Know(t, AfterRead(view[t], x, i, memory[x][i], "acquire"))
        /\ IF memory[x][i].val >= 1 THEN Continue(t) ELSE UNCHANGED code
  BY <1>2 DEF AwaitValue, Newest
<1>6. NewestOf("data")' = NewestOf("data") /\ \A k : Announces(k)' = Announces(k)
  BY <1>4 DEF NewestOf, Announces
<1>7. CASE memory[x][i].val >= 1
  <2>1. Left(2, 3)' = 2
    BY <1>1, <1>5, <1>7
  <2>2. i \in 1 .. Len(memory[x])
    BY <1>3, <1>5, Histories
  <2>3. i # 1 /\ Len(memory[x]) \in Nat
    BY <1>3, <1>7, Histories DEF ReleaseSequenceInv, Standard, Positive
  <2>4. i \in 2 .. Len(memory[x])
    BY <2>2, <2>3
  <2>5. Announces(i)
    BY <2>4 DEF ReleaseSequenceInv, Standard
  <2>6. Left(1, 4) < 3
    <3>1. Left(1, 4) >= 3 => Len(memory[x]) = 1
      BY DEF ReleaseSequenceInv, Standard
    <3>a. PICK n \in Nat : n = Len(memory[x])
      BY <2>3
    <3>b. n # 1
      <4>1. i \in 2 .. n
        BY <2>4, <3>a
      <4> QED BY <4>1
    <3>2. ~ (Left(1, 4) >= 3)
      BY <3>1, <3>a, <3>b
    <3> QED BY <3>2, LeftTypes DEF Standard
  <2>7. Len(memory["data"]) = 2
    BY <2>6, LeftTypes DEF ReleaseSequenceInv, Standard
  <2>8. PICK h \in memory[x][i].heads : h.by = 1 /\ h.view["data"] = 2
    BY <2>5 DEF Announces
  <2> DEFINE r == AfterRead(view[t], x, i, memory[x][i], "acquire")
  <2>9. r \in Views /\ Known(r, memory) /\ r["data"] >= h.view["data"]
    BY <2>2, <2>8, <1>3, ReadView DEF Acquires
  <2> HIDE DEF r
  <2>10. r["data"] = 2
    <3>1. r["data"] <= 2 /\ r["data"] >= 2 /\ r["data"] \in Nat
      BY <2>7, <2>8, <2>9, <1>3 DEF Known, Views, Positive
    <3> QED BY <3>1
  <2>11. view'[t] = r
    BY <1>5 DEF Know, MemoryTyping, r
  <2> QED BY <1>1, <1>4, <1>6, <2>1, <2>6, <2>7, <2>10, <2>11 DEF ReleaseSequenceInv, Standard
<1>8. CASE ~ (memory[x][i].val >= 1)
  <2>1. Left(2, 3)' = 3
    BY <1>1, <1>5, <1>8
  <2> QED BY <1>1, <1>4, <1>6, <2>1 DEF ReleaseSequenceInv, Standard
<1> QED BY <1>7, <1>8

(* It reads the 42. *)
LEMMA ConsumerReads ==
  ASSUME ThreadInv, OnItsWay, MemoryTyping, ReleaseSequenceInv, Standard,
         NEW t \in Threads, t = 2, Step(t), Left(2, 3) = 2
  PROVE  ReleaseSequenceInv'
<1>1. /\ program' = program /\ input' = input
      /\ Left(1, 4)' = Left(1, 4) /\ view'[1] = view[1]
      /\ Instr(t) = Access("data", "read", 0)
      /\ Continue(t) => Left(2, 3)' = 1
  BY WorkerLeft, ReleaseBodies DEF Standard, main
<1>2. AccessData(t) /\ Loc(t) = "data" /\ Instr(t).how = "read"
  BY <1>1, StepAt DEF Access, Loc
<1>3. "data" \in Locations /\ "atomic_var" \in Locations /\ "data" # "atomic_var"
  BY NamedLocations
<1>4. Left(1, 4) < 3 /\ Left(1, 4) \in Nat
  BY LeftTypes DEF ReleaseSequenceInv, Standard
<1>5. Len(memory["data"]) = 2 /\ view[t]["data"] = 2 /\ NewestOf("data").val = 42
  BY <1>4 DEF ReleaseSequenceInv, Standard
<1>6. view[t]["data"] = Len(memory["data"])
  BY <1>5
<1>7. /\ \A k \in Locations \ {"data"} : memory'[k] = memory[k]
      /\ NewestOf("data")' = NewestOf("data") /\ reg'[t].val = NewestOf("data").val
  BY <1>6, <1>2, AccessEffect
<1>8. memory'["atomic_var"] = memory["atomic_var"]
  BY <1>7, <1>3
<1>9. \A k : Announces(k)' = Announces(k)
  BY <1>8 DEF Announces
<1>10. Left(2, 3)' = 1
  BY <1>1, <1>2 DEF AccessData
<1> QED BY <1>1, <1>4, <1>5, <1>7, <1>8, <1>9, <1>10 DEF ReleaseSequenceInv, Standard

(* The assertion of the consumer holds. *)
LEMMA ConsumerAsserts ==
  ASSUME ThreadInv, OnItsWay, MemoryTyping, ReleaseSequenceInv, Standard,
         NEW t \in Threads, t = 2, Step(t), Left(2, 3) = 1
  PROVE  ReleaseSequenceInv' /\ ended' = "no"
<1>1. /\ program' = program /\ input' = input
      /\ Left(1, 4)' = Left(1, 4) /\ view'[1] = view[1]
      /\ Instr(t) = Assert("val", 42)
      /\ Continue(t) => Left(2, 3)' = 0
  BY WorkerLeft, ReleaseBodies DEF Standard, main
<1>2. CheckAssertion(t) /\ Instr(t).reg = "val" /\ Instr(t).arg = 42 /\ ended = "no"
  BY <1>1, StepAt DEF Assert
<1>3. reg[t].val = 42
  BY DEF ReleaseSequenceInv, Standard
<1>4. AssertionHolds(t)
  BY <1>2, <1>3 DEF AssertionHolds
<1>5. memory' = memory /\ reg' = reg /\ Continue(t) /\ ended' = "no"
  BY <1>2, <1>4 DEF CheckAssertion, OnlyCode, atomics
<1>6. NewestOf("data")' = NewestOf("data") /\ \A k : Announces(k)' = Announces(k)
  BY <1>5 DEF NewestOf, Announces
<1>7. Left(1, 4) < 3 /\ Left(1, 4) \in Nat
  BY LeftTypes DEF ReleaseSequenceInv, Standard
<1> QED BY <1>1, <1>5, <1>6, <1>7 DEF ReleaseSequenceInv, Standard

(* Nothing was written yet. *)
LEMMA ReleaseInit == Init => ReleaseSequenceInv
<1> SUFFICES ASSUME Init, program = "release_sequence" PROVE ReleaseSequenceInv
  BY DEF ReleaseSequenceInv
<1>1. "data" \in Locations /\ "atomic_var" \in Locations /\ "counter" # "atomic_var"
  BY NamedLocations
<1>2. started = 0
  BY DEF Init
<1>3. memory["atomic_var"] = <<Message(0, {})>> /\ memory["data"] = <<Message(0, {})>>
  BY <1>1 DEF Init
<1>4. Len(memory["atomic_var"]) = 1 /\ memory["atomic_var"][1].val = 0 /\ Len(memory["data"]) = 1
  BY <1>3 DEF Message
<1>5. Left(1, 4) = 4 /\ Left(2, 3) = 3
  BY <1>2 DEF Left
<1> QED BY <1>4, <1>5 DEF ReleaseSequenceInv

(* Every step. *)
LEMMA ReleaseStep ==
  ASSUME ThreadInv, OnItsWay, MemoryTyping, ReleaseSequenceInv, [Next]_vars
  PROVE  ReleaseSequenceInv'
<1>1. CASE UNCHANGED vars
  BY <1>1 DEF vars, objects, atomics, ReleaseSequenceInv, Left, Announces, NewestOf
<1>2. ASSUME NEW t \in Threads, Step(t) PROVE ReleaseSequenceInv'
  <2>1. program' = program /\ input' = input
    BY <1>2, SameProgram
  <2>2. CASE ~ Standard
    BY <2>1, <2>2 DEF ReleaseSequenceInv, Standard
  <2>3. CASE Standard /\ t = main
    BY <1>2, <2>3, ReleaseMain DEF Standard
  <2>4. CASE Standard /\ t # main
    <3>1. /\ t \in {1, 2} /\ (t = 1 => Left(1, 4) \in 1 .. 4) /\ (t = 2 => Left(2, 3) \in 1 .. 3)
      BY <1>2, <2>4, WorkerLeft DEF Standard
    <3>2. CASE t = 1 /\ Left(1, 4) = 4
      BY <1>2, <2>4, <3>2, ProducerWrites
    <3>3. CASE t = 1 /\ Left(1, 4) # 4
      <4>1. Left(1, 4) \in 1 .. 3
        BY <3>1, <3>3
      <4> QED BY <1>2, <2>4, <3>3, <4>1, ProducerAnnounces
    <3>4. CASE t = 2 /\ Left(2, 3) = 3
      BY <1>2, <2>4, <3>4, ConsumerAwaits
    <3>5. CASE t = 2 /\ Left(2, 3) = 2
      BY <1>2, <2>4, <3>5, ConsumerReads
    <3>6. CASE t = 2 /\ Left(2, 3) = 1
      BY <1>2, <2>4, <3>6, ConsumerAsserts
    <3> QED BY <3>1, <3>2, <3>3, <3>4, <3>5, <3>6
  <2> QED BY <2>2, <2>3, <2>4
<1>3. ASSUME NEW h \in {1, 2}, NEW g \in {1, 2}, CallAutoJoining(h, g) PROVE ReleaseSequenceInv'
  BY <1>3 DEF CallAutoJoining, OnlyCode, ReleaseSequenceInv
<1> QED BY <1>1, <1>2, <1>3 DEF Next

(* Before C++20, whichever of the values 1, 2 and 2 of atomic_var the      *)
(* consumer reads with acquire, it knows that the producer wrote 42 to     *)
(* data, although only one of the three was stored with release.           *)
THEOREM ReleaseTheorem == Spec => []ReleaseSequenceInv
<1>1. Spec => [](ThreadInv /\ MemoryTyping /\ OnItsWay)
  BY ThreadInvariant, MemoryTypingTheorem, OnItsWayAlways, PTL
<1>2. ThreadInv /\ OnItsWay /\ MemoryTyping /\ ReleaseSequenceInv /\ [Next]_vars => ReleaseSequenceInv'
  BY ReleaseStep
<1> QED BY <1>1, <1>2, ReleaseInit, PTL DEF Spec

-----------------------------------------------------------------------------
(* What programs can execute *)

(* Everything that an instruction of E can lead to is in E. *)
Closed(E, O) ==
  \A c \in E :
    /\ Formed(c) /\ c.op \in O
    /\ c.op \in Throwing => \A i \in 1 .. Len(c.unwind) : c.unwind[i] \in E
    /\ c.op = "start" => IsSequence(c.body) /\ \A i \in 1 .. Len(c.body) : c.body[i] \in E

(* s is a sequence of instructions of E. *)
MadeOf(s, E) == IsSequence(s) /\ \A i \in 1 .. Len(s) : s[i] \in E

(* s, what it throws into and what it starts execute only operations of O. *)
Only(s, O) == \E E : Closed(E, O) /\ MadeOf(s, E)

(* One sequence after another. *)
LEMMA OnlyConcat ==
  ASSUME NEW s, NEW r, NEW O, Only(s, O), Only(r, O)
  PROVE  Only(s \o r, O)
<1>1. PICK E : Closed(E, O) /\ MadeOf(s, E)
  BY DEF Only
<1>2. PICK F : Closed(F, O) /\ MadeOf(r, F)
  BY DEF Only
<1>3. Closed(E \cup F, O)
  BY <1>1, <1>2 DEF Closed
<1>4. IsSequence(s) /\ IsSequence(r)
  BY <1>1, <1>2 DEF MadeOf
<1>5. MadeOf(s \o r, E \cup F)
  <2>1. /\ IsSequence(s \o r) /\ Len(s \o r) = Len(s) + Len(r)
        /\ \A i \in 1 .. Len(s) : (s \o r)[i] = s[i]
        /\ \A i \in 1 .. Len(r) : (s \o r)[Len(s) + i] = r[i]
    BY <1>4, Concatenation
  <2>2. Len(s) \in Nat /\ Len(r) \in Nat
    BY <1>4 DEF IsSequence
  <2>3. ASSUME NEW i \in 1 .. Len(s \o r) PROVE (s \o r)[i] \in E \cup F
    <3>1. CASE i <= Len(s)
      <4>1. i \in 1 .. Len(s)
        BY <3>1, <2>2
      <4> QED BY <4>1, <2>1, <1>1 DEF MadeOf
    <3>2. CASE ~ (i <= Len(s))
      <4>1. i - Len(s) \in 1 .. Len(r) /\ i = Len(s) + (i - Len(s))
        BY <3>2, <2>1, <2>2
      <4> QED BY <4>1, <2>1, <1>2 DEF MadeOf
    <3> QED BY <3>1, <3>2
  <2> QED BY <2>1, <2>3 DEF MadeOf
<1> QED BY <1>3, <1>5 DEF Only

(* The empty sequence. *)
LEMMA OnlyNone ==
  ASSUME NEW O
  PROVE  Only(<<>>, O)
<1>1. Closed({}, O)
  BY DEF Closed
<1>2. MadeOf(<<>>, {})
  BY EmptySequence DEF MadeOf
<1> QED BY <1>1, <1>2 DEF Only

(* Instructions, each of which does no more than start f. *)
LEMMA OnlyEach ==
  ASSUME NEW s, NEW O, NEW f, IsSequence(s), Only(f, O),
         \A i \in 1 .. Len(s) : /\ Formed(s[i]) /\ s[i].op \in O
                                /\ s[i].op \in Throwing => s[i].unwind = <<>>
                                /\ s[i].op = "start" => s[i].body = f
  PROVE  Only(s, O)
<1>1. PICK E : Closed(E, O) /\ MadeOf(f, E)
  BY DEF Only
<1> DEFINE F == E \cup {s[i] : i \in 1 .. Len(s)}
<1>2. Len(<<>>) = 0
  BY EmptySequence
<1>3. ASSUME NEW c \in F
      PROVE  /\ Formed(c) /\ c.op \in O
             /\ c.op \in Throwing => \A i \in 1 .. Len(c.unwind) : c.unwind[i] \in F
             /\ c.op = "start" => IsSequence(c.body) /\ \A i \in 1 .. Len(c.body) : c.body[i] \in F
  <2>1. CASE c \in E
    BY <2>1, <1>1 DEF Closed
  <2>2. ASSUME NEW i \in 1 .. Len(s), c = s[i]
        PROVE  /\ Formed(c) /\ c.op \in O
               /\ c.op \in Throwing => Len(c.unwind) = 0
               /\ c.op = "start" => IsSequence(c.body) /\ \A j \in 1 .. Len(c.body) : c.body[j] \in F
    <3>1. /\ Formed(c) /\ c.op \in O
          /\ c.op \in Throwing => c.unwind = <<>>
      BY <2>2
    <3>2. c.op = "start" => c.body = f
      BY <2>2
    <3> QED BY <3>1, <3>2, <1>1, <1>2 DEF MadeOf
  <2> QED BY <2>1, <2>2
<1>4. Closed(F, O)
  BY <1>3 DEF Closed
<1>5. MadeOf(s, F)
  BY DEF MadeOf
<1> QED BY <1>4, <1>5 DEF Only

(* One instruction that starts nothing. *)
LEMMA OnlyOne ==
  ASSUME NEW c, NEW O, Formed(c), c.op \in O, c.op # "start", c.op \in Throwing => c.unwind = <<>>
  PROVE  Only(<<c>>, O)
<1>1. IsSequence(<<c>>) /\ Len(<<c>>) = 1 /\ <<c>>[1] = c
  BY OneElement
<1>2. \A i \in 1 .. Len(<<c>>) : <<c>>[i] = c
  BY <1>1
<1> HIDE <1>1
<1> QED BY <1>1, <1>2, OnlyEach, OnlyNone

(* A handler for what is thrown. *)
LEMMA OnlyCatch ==
  ASSUME NEW s, NEW u, NEW O, Only(s, O), Only(u, O)
  PROVE  Only(Catch(s, u), O)
<1>1. PICK E : Closed(E, O) /\ MadeOf(s, E)
  BY DEF Only
<1>2. PICK F : Closed(F, O) /\ MadeOf(u, F)
  BY DEF Only
<1> DEFINE G == {Caught(c, u) : c \in E}
           H == E \cup F \cup G
<1>3. Closed(H, O)
  <2>1. ASSUME NEW c \in H
        PROVE  /\ Formed(c) /\ c.op \in O
               /\ c.op \in Throwing => \A i \in 1 .. Len(c.unwind) : c.unwind[i] \in H
               /\ c.op = "start" =>
                    IsSequence(c.body) /\ \A i \in 1 .. Len(c.body) : c.body[i] \in H
    <3>1. CASE c \in E \cup F
      BY <3>1, <1>1, <1>2 DEF Closed
    <3>2. ASSUME NEW b \in E, c = Caught(b, u)
          PROVE  /\ Formed(c) /\ c.op \in O
                 /\ c.op \in Throwing => \A i \in 1 .. Len(c.unwind) : c.unwind[i] \in H
                 /\ c.op = "start" =>
                      IsSequence(c.body) /\ \A i \in 1 .. Len(c.body) : c.body[i] \in H
      <4>1. /\ Formed(b) /\ b.op \in O
            /\ b.op \in Throwing => \A i \in 1 .. Len(b.unwind) : b.unwind[i] \in E
            /\ b.op = "start" => IsSequence(b.body) /\ \A i \in 1 .. Len(b.body) : b.body[i] \in E
        BY <1>1 DEF Closed
      <4>2. IsSequence(u)
        BY <1>2 DEF MadeOf
      <4>3. /\ Formed(c) /\ c.op = b.op
            /\ b.op = "start" => c.body = b.body
            /\ b.op \in Throwing => c.unwind = b.unwind \o u
        BY <3>2, <4>1, <4>2, CaughtKeeps
      <4>4. ASSUME c.op \in Throwing PROVE \A i \in 1 .. Len(c.unwind) : c.unwind[i] \in H
        <5> DEFINE v == b.unwind
        <5>1. IsSequence(v) /\ c.unwind = v \o u
          BY <4>1, <4>3, <4>4 DEF Formed
        <5>2. MadeOf(v, E) /\ MadeOf(u, F)
          BY <5>1, <4>1, <4>3, <4>4, <1>2 DEF MadeOf
        <5> HIDE DEF v
        <5>3. \A i \in 1 .. Len(v \o u) : (v \o u)[i] \in E \cup F
          <6>1. /\ IsSequence(v \o u) /\ Len(v \o u) = Len(v) + Len(u)
                /\ \A i \in 1 .. Len(v) : (v \o u)[i] = v[i]
                /\ \A i \in 1 .. Len(u) : (v \o u)[Len(v) + i] = u[i]
            BY <5>1, <4>2, Concatenation
          <6>2. Len(v) \in Nat /\ Len(u) \in Nat
            BY <5>1, <4>2 DEF IsSequence
          <6> TAKE i \in 1 .. Len(v \o u)
          <6>3. CASE i <= Len(v)
            <7>1. i \in 1 .. Len(v)
              BY <6>3, <6>2
            <7> QED BY <7>1, <6>1, <5>2 DEF MadeOf
          <6>4. CASE ~ (i <= Len(v))
            <7>1. i - Len(v) \in 1 .. Len(u) /\ i = Len(v) + (i - Len(v))
              BY <6>4, <6>1, <6>2
            <7> QED BY <7>1, <6>1, <5>2 DEF MadeOf
          <6> QED BY <6>3, <6>4
        <5> QED BY <5>1, <5>3
      <4>5. c.op = "start" =>
              IsSequence(c.body) /\ \A i \in 1 .. Len(c.body) : c.body[i] \in H
        BY <4>1, <4>3
      <4> QED BY <4>1, <4>3, <4>4, <4>5
    <3> QED BY <3>1, <3>2
  <2> HIDE DEF H
  <2> QED BY <2>1 DEF Closed
<1>4. MadeOf(Catch(s, u), H)
  <2>1. /\ IsSequence(Catch(s, u)) /\ Len(Catch(s, u)) = Len(s)
        /\ \A i \in 1 .. Len(s) : Catch(s, u)[i] = Caught(s[i], u)
    BY <1>1, CatchElements DEF MadeOf
  <2>2. \A i \in 1 .. Len(s) : s[i] \in E
    BY <1>1 DEF MadeOf
  <2> QED BY <2>1, <2>2 DEF MadeOf
<1> HIDE DEF H
<1> QED BY <1>3, <1>4 DEF Only

(* What may not throw terminates when it does. *)
LEMMA OnlyNoExcept ==
  ASSUME NEW s, NEW O, Only(s, O), "terminate" \in O
  PROVE  Only(NoExcept(s), O)
<1>1. Only(<<Terminate>>, O)
  BY GuardInstructions, OnlyOne DEF Throwing
<1> QED BY <1>1, OnlyCatch DEF NoExcept

(* A scope with its destructors. *)
LEMMA OnlyWithin ==
  ASSUME NEW s, NEW u, NEW O, Only(s, O), Only(u, O), "terminate" \in O
  PROVE  Only(Within(s, u), O)
<1>1. Only(NoExcept(u), O)
  BY OnlyNoExcept
<1>2. Only(Catch(s, NoExcept(u)), O)
  BY <1>1, OnlyCatch
<1> QED BY <1>1, <1>2, OnlyConcat DEF Within

(* The scope of a std::thread. *)
LEMMA OnlyThread ==
  ASSUME NEW h, NEW f, NEW s, NEW O, Only(f, O), Only(s, O), {"start", "destroy", "terminate"} \subseteq O
  PROVE  Only(Thread(h, f, s), O)
<1>1. Only(<<Destroy(h)>>, O)
  BY GuardInstructions, OnlyOne DEF Throwing
<1>2. Only(Within(s, <<Destroy(h)>>), O)
  BY <1>1, OnlyWithin
<1>3. Only(<<Start(h, f)>>, O)
  <2> DEFINE c == Start(h, f)
  <2>1. Formed(c) /\ c.op = "start" /\ c.body = f /\ c.unwind = <<>>
    BY GuardInstructions
  <2> HIDE DEF c
  <2>2. IsSequence(<<c>>) /\ Len(<<c>>) = 1 /\ <<c>>[1] = c
    BY OneElement
  <2>3. \A i \in 1 .. Len(<<c>>) : <<c>>[i] = c
    BY <2>2
  <2>4. Only(<<c>>, O)
    BY ONLY <2>1, <2>2, <2>3, OnlyEach, Only(f, O), {"start", "destroy", "terminate"} \subseteq O
  <2> QED BY <2>4 DEF c
<1> QED BY <1>2, <1>3, OnlyConcat DEF Thread

(* What is left after one more instruction, or after its exception. *)
LEMMA OnlyNext ==
  ASSUME NEW s, NEW O, Only(s, O), s # <<>>
  PROVE  /\ Formed(Head(s)) /\ Head(s).op \in O
         /\ Only(Tail(s), O)
         /\ Head(s).op \in Throwing => Only(Head(s).unwind, O)
         /\ Head(s).op = "start" => Only(Head(s).body, O)
<1>1. PICK E : Closed(E, O) /\ MadeOf(s, E)
  BY DEF Only
<1>2. /\ Len(s) >= 1 /\ Len(s) \in Nat
      /\ IsSequence(Tail(s)) /\ Len(Tail(s)) = Len(s) - 1
      /\ Head(s) = s[1]
      /\ \A i \in 1 .. Len(s) - 1 : Tail(s)[i] = s[i + 1]
  BY <1>1, TailSequence DEF MadeOf, IsSequence
<1>3. Head(s) \in E
  BY <1>1, <1>2 DEF MadeOf
<1>4. \A i \in 1 .. Len(Tail(s)) : Tail(s)[i] \in E
  BY <1>1, <1>2 DEF MadeOf
<1>5. MadeOf(Tail(s), E)
  BY <1>2, <1>4 DEF MadeOf
<1>6. Head(s).op \in Throwing => MadeOf(Head(s).unwind, E)
  BY <1>1, <1>3 DEF Closed, MadeOf, Formed
<1>7. Head(s).op = "start" => MadeOf(Head(s).body, E)
  BY <1>1, <1>3 DEF Closed, MadeOf
<1> QED BY <1>1, <1>3, <1>5, <1>6, <1>7 DEF Only, Closed

(* The operations that use neither memory nor other threads' code, and     *)
(* with a start or an edit.                                                *)
LocalOps == {"work", "risk", "join", "join_if_joinable", "detach", "throw_if_empty", "destroy",
             "move", "assign", "swap", "undefined", "terminate", "end_lifetime"}
CalmOps  == LocalOps \cup {"start", "edit"}

(* Instructions that are such operations. *)
LEMMA LocalInstructions ==
  ASSUME NEW O, LocalOps \subseteq O
  PROVE  /\ Only(<<Work>>, O) /\ Only(<<Risk>>, O) /\ Only(<<Undefined>>, O)
         /\ \A h : /\ Only(<<Join(h)>>, O) /\ Only(<<JoinIfJoinable(h)>>, O)
                   /\ Only(<<Detach(h)>>, O) /\ Only(<<ThrowIfEmpty(h)>>, O)
                   /\ Only(<<Destroy(h)>>, O)
         /\ \A h, g : /\ Only(<<Move(h, g)>>, O) /\ Only(<<Assign(h, g)>>, O)
                      /\ Only(<<Swap(h, g)>>, O)
         /\ \A x : Only(<<EndLifetime(x)>>, O)
<1>1. /\ Only(<<Work>>, O) /\ Only(<<Risk>>, O) /\ Only(<<Undefined>>, O)
  BY PlainInstructions, GuardInstructions, OnlyOne DEF Throwing, LocalOps
<1>2. ASSUME NEW h
      PROVE  /\ Only(<<Join(h)>>, O) /\ Only(<<JoinIfJoinable(h)>>, O)
             /\ Only(<<Detach(h)>>, O) /\ Only(<<ThrowIfEmpty(h)>>, O)
             /\ Only(<<Destroy(h)>>, O)
  <2>1. Only(<<Join(h)>>, O) /\ Only(<<Detach(h)>>, O)
    BY GuardInstructions, OnlyOne DEF Throwing, LocalOps
  <2>2. Only(<<JoinIfJoinable(h)>>, O) /\ Only(<<ThrowIfEmpty(h)>>, O)
    BY GuardInstructions, OnlyOne DEF Throwing, LocalOps
  <2>3. Only(<<Destroy(h)>>, O)
    BY GuardInstructions, OnlyOne DEF Throwing, LocalOps
  <2> QED BY <2>1, <2>2, <2>3
<1>3. \A h, g : Only(<<Move(h, g)>>, O) /\ Only(<<Assign(h, g)>>, O) /\ Only(<<Swap(h, g)>>, O)
  BY GuardInstructions, OnlyOne DEF Throwing, LocalOps
<1>4. ASSUME NEW x PROVE Only(<<EndLifetime(x)>>, O)
  <2>1. Formed(EndLifetime(x)) /\ EndLifetime(x).op = "end_lifetime"
    BY DEF EndLifetime, Formed, Throwing
  <2> QED BY <2>1, OnlyOne DEF Throwing, LocalOps
<1> QED BY <1>1, <1>2, <1>3, <1>4

(* Stubs, starts and editing. *)
LEMMA CalmInstructions ==
  /\ LocalOps \subseteq CalmOps /\ {"start", "destroy", "terminate"} \subseteq CalmOps
  /\ Only(<<Edit>>, CalmOps)
  /\ \A h : \A f : Only(f, CalmOps) => Only(<<Start(h, f)>>, CalmOps)
<1>1. LocalOps \subseteq CalmOps /\ {"start", "destroy", "terminate"} \subseteq CalmOps
  BY DEF CalmOps, LocalOps
<1>2. Only(<<Edit>>, CalmOps)
  BY PlainInstructions, OnlyOne DEF Throwing, CalmOps
<1>3. ASSUME NEW h, NEW f, Only(f, CalmOps) PROVE Only(<<Start(h, f)>>, CalmOps)
  <2> DEFINE c == Start(h, f)
  <2>1. Formed(c) /\ c.op = "start" /\ c.body = f /\ c.unwind = <<>>
    BY GuardInstructions
  <2> HIDE DEF c
  <2>2. IsSequence(<<c>>) /\ Len(<<c>>) = 1 /\ <<c>>[1] = c
    BY OneElement
  <2>3. \A i \in 1 .. Len(<<c>>) : <<c>>[i] = c
    BY <2>2
  <2>4. Only(<<c>>, CalmOps)
    BY ONLY <2>1, <2>2, <2>3, <1>1, <1>3, OnlyEach
  <2> QED BY <2>4 DEF c
<1> QED BY <1>1, <1>2, <1>3

(* HelloWorld uses no shared memory. *)
LEMMA HelloWorldCalm == Only(hello_world, CalmOps)
<1> USE CalmInstructions
<1>1. \A h : Only(<<Join(h)>>, CalmOps)
  BY LocalInstructions
<1>2. Only(<<Join(1), Join(2), Join(3)>>, CalmOps)
  <2>1. Only(<<Join(1)>> \o <<Join(2)>>, CalmOps)
    BY <1>1, OnlyConcat
  <2>2. Only(<<Join(1)>> \o <<Join(2)>> \o <<Join(3)>>, CalmOps)
    BY <1>1, <2>1, OnlyConcat
  <2> QED BY <2>2, ShortSequences
<1>3. Only(<<Work>>, CalmOps)
  BY LocalInstructions
<1> QED BY <1>2, <1>3, OnlyThread DEF hello_world

(* Neither does worspace1. *)
LEMMA WorkspaceCalm == Only(worspace1, CalmOps)
<1> USE CalmInstructions
<1>1. \A h : Only(<<Join(h)>>, CalmOps) /\ Only(<<Detach(h)>>, CalmOps)
  BY LocalInstructions
<1>2. Only(<<Join(1), Detach(2)>>, CalmOps)
  <2>1. Only(<<Join(1)>> \o <<Detach(2)>>, CalmOps)
    BY <1>1, OnlyConcat
  <2> QED BY <2>1, ShortSequences
<1>3. Only(<<Work>>, CalmOps)
  BY LocalInstructions
<1>4. Only(<<Undefined>>, CalmOps)
  BY LocalInstructions
<1>5. Only(Thread(1, <<Work>>, Thread(2, <<Work>>, <<Join(1), Detach(2)>>)), CalmOps)
  BY <1>2, <1>3, OnlyThread
<1> QED BY <1>4, <1>5, OnlyConcat DEF worspace1

(* Nor an editor. *)
LEMMA DocumentCalm ==
  \A t : Only(open_new_document(t), CalmOps) /\ Only(process_other_command, CalmOps)
<1> TAKE t
<1>1. Only(<<Detach(t)>>, CalmOps) /\ Only(<<Edit>>, CalmOps) /\ Only(<<Risk>>, CalmOps)
  BY CalmInstructions, LocalInstructions
<1>2. Only(Thread(t, <<Edit>>, <<Detach(t)>>), CalmOps)
  BY <1>1, CalmInstructions, OnlyThread
<1>3. Only(<<Risk, Risk>>, CalmOps)
  <2>1. Only(<<Risk>> \o <<Risk>>, CalmOps)
    BY <1>1, OnlyConcat
  <2> QED BY <2>1, ShortSequences
<1>4. Only(<<Risk, Risk>> \o Thread(t, <<Edit>>, <<Detach(t)>>), CalmOps)
  BY <1>2, <1>3, OnlyConcat
<1> QED BY <1>3, <1>4, CalmInstructions, OnlyNoExcept DEF open_new_document, process_other_command

(* Nor the vector of threads. *)
LEMMA ContainersCalm == Only(containers, CalmOps)
<1>1. Only(function, CalmOps)
  <2>1. Only(<<Work>> \o <<Work>>, CalmOps)
    BY CalmInstructions, LocalInstructions, OnlyConcat
  <2> QED BY <2>1, ShortSequences DEF function
<1>2. \A i : Only(emplace_back(i), CalmOps)
  <2> TAKE i
  <2>1. Only(<<Risk>> \o <<Start(i, function)>>, CalmOps)
    BY <1>1, CalmInstructions, LocalInstructions, OnlyConcat
  <2> QED BY <2>1, ShortSequences DEF emplace_back
<1>3. \A h : Only(<<Join(h)>>, CalmOps) /\ Only(<<Destroy(h)>>, CalmOps)
  BY CalmInstructions, LocalInstructions
<1>4. Only(<<Join(1), Join(2), Join(3)>>, CalmOps)
  <2>1. Only(<<Join(1)>> \o <<Join(2)>>, CalmOps)
    BY <1>3, OnlyConcat
  <2>2. Only(<<Join(1)>> \o <<Join(2)>> \o <<Join(3)>>, CalmOps)
    BY <1>3, <2>1, OnlyConcat
  <2> QED BY <2>2, ShortSequences
<1>5. Only(<<Destroy(1), Destroy(2), Destroy(3)>>, CalmOps)
  <2>1. Only(<<Destroy(1)>> \o <<Destroy(2)>>, CalmOps)
    BY <1>3, OnlyConcat
  <2>2. Only(<<Destroy(1)>> \o <<Destroy(2)>> \o <<Destroy(3)>>, CalmOps)
    BY <1>3, <2>1, OnlyConcat
  <2> QED BY <2>2, ShortSequences
<1> DEFINE s == emplace_back(1) \o emplace_back(2) \o emplace_back(3)
           j == <<Join(1), Join(2), Join(3)>>
           d == <<Destroy(1), Destroy(2), Destroy(3)>>
<1>6. Only(s, CalmOps)
  <2>1. Only(emplace_back(1) \o emplace_back(2), CalmOps)
    BY <1>2, OnlyConcat
  <2> QED BY <1>2, <2>1, OnlyConcat
<1> HIDE DEF s, j, d
<1>7. Only(s \o j, CalmOps)
  BY <1>4, <1>6, OnlyConcat DEF j
<1>8. Only(Within(s \o j, d), CalmOps)
  BY <1>5, <1>7, CalmInstructions, OnlyWithin DEF d
<1> QED BY <1>8 DEF containers, s, j, d

(* Nor any function of AutoJoiningThread. *)
LEMMA AutoJoiningCalm ==
  ASSUME NEW h, NEW g, NEW body \in Members(h, g) \cup Constructors(h, g)
  PROVE  Only(body, CalmOps)
<1> DEFINE O == CalmOps
<1>1. /\ LocalOps \subseteq O /\ "terminate" \in O /\ Only(<<Work>>, O) /\ Only(<<Undefined>>, O)
      /\ \A k, m : Only(<<Move(k, m)>>, O) /\ Only(<<Assign(k, m)>>, O) /\ Only(<<Swap(k, m)>>, O)
      /\ \A k : /\ Only(<<Join(k)>>, O) /\ Only(<<JoinIfJoinable(k)>>, O)
                /\ Only(<<Detach(k)>>, O) /\ Only(<<Destroy(k)>>, O)
  BY CalmInstructions, LocalInstructions
<1>2. \A k : Only(<<Start(k, <<Work>>)>>, O)
  BY <1>1, CalmInstructions
<1> HIDE DEF O
<1>3. \A k, m : Only(MoveAssign(k, m), O)
  <2> TAKE k, m
  <2>1. Only(<<JoinIfJoinable(k)>> \o <<Move(k, m)>>, O)
    BY <1>1, OnlyConcat
  <2>2. Only(<<JoinIfJoinable(k), Move(k, m)>>, O)
    BY <2>1, ShortSequences
  <2> QED BY <1>1, <2>2, OnlyNoExcept DEF MoveAssign
<1>4. \A k : Only(AssignParameter(k), O)
  <2> TAKE k
  <2>1. Only(<<JoinIfJoinable(k)>> \o <<Move(k, 3)>>, O)
    BY <1>1, OnlyConcat
  <2>2. Only(<<JoinIfJoinable(k)>> \o <<Move(k, 3)>> \o <<Undefined>>, O)
    BY <1>1, <2>1, OnlyConcat
  <2>3. Only(<<JoinIfJoinable(k), Move(k, 3), Undefined>>, O)
    BY <2>2, ShortSequences
  <2> QED BY <1>1, <2>3, OnlyWithin DEF AssignParameter
<1>5. \A k : Only(AssignThread(k), O)
  BY <1>2, <1>4, OnlyConcat DEF AssignThread
<1>6. \A k : Only(AutoJoiningDestroy(k), O)
  <2> TAKE k
  <2>1. Only(<<JoinIfJoinable(k)>> \o <<Destroy(k)>>, O)
    BY <1>1, OnlyConcat
  <2> QED BY <2>1, ShortSequences DEF AutoJoiningDestroy
<1>7. \A k, m : Only(AssignMoved(k, m), O)
  BY <1>1, <1>4, OnlyConcat DEF AssignMoved
<1>8. \A k : Only(AssignAsThread(k), O)
  <2> TAKE k
  <2>1. Only(Within(<<Assign(k, 3)>>, <<Destroy(3)>>), O)
    BY <1>1, OnlyWithin
  <2> QED BY <1>2, <2>1, OnlyConcat DEF AssignAsThread
<1>9. Only(body, O)
  BY <1>1, <1>2, <1>3, <1>4, <1>5, <1>6, <1>7, <1>8
  DEF Members, Constructors, FromCallable, MoveConstruct
<1> QED BY <1>9 DEF O

(* The head starts Funct, and nothing else starts a thread. *)
StartsOne(s) ==
  /\ IsSequence(s) /\ Len(s) >= 1
  /\ Formed(s[1]) /\ s[1].op = "start" /\ s[1].body = Funct /\ Only(s[1].unwind, LocalOps)
  /\ Only(Tail(s), LocalOps)

(* Funct is started first. *)
LEMMA StartsOneThen ==
  ASSUME NEW h, NEW r, Only(r, LocalOps)
  PROVE  StartsOne(<<Start(h, Funct)>> \o r)
<1> DEFINE c == Start(h, Funct)
           s == <<c>> \o r
<1>1. IsSequence(r)
  BY DEF Only, MadeOf
<1>2. Formed(c) /\ c.op = "start" /\ c.body = Funct /\ c.unwind = <<>>
  BY GuardInstructions
<1> HIDE DEF c
<1>3. IsSequence(<<c>>) /\ Len(<<c>>) = 1 /\ <<c>>[1] = c
  BY OneElement
<1>4. /\ IsSequence(s) /\ Len(s) = 1 + Len(r) /\ s[1] = c
      /\ \A i \in 1 .. Len(r) : s[1 + i] = r[i]
  <2>1. /\ IsSequence(s) /\ Len(s) = Len(<<c>>) + Len(r)
        /\ \A i \in 1 .. Len(<<c>>) : s[i] = <<c>>[i]
        /\ \A i \in 1 .. Len(r) : s[Len(<<c>>) + i] = r[i]
    BY <1>1, <1>3, Concatenation
  <2> HIDE DEF s
  <2> QED BY <2>1, <1>3
<1> HIDE DEF s
<1>5. Len(r) \in Nat
  BY <1>1 DEF IsSequence
<1>6. s # <<>>
  BY <1>4, <1>5, EmptySequence
<1>7. /\ IsSequence(Tail(s)) /\ Len(Tail(s)) = Len(s) - 1
      /\ \A i \in 1 .. Len(s) - 1 : Tail(s)[i] = s[i + 1]
  BY <1>4, <1>6, TailSequence
<1>8. Len(Tail(s)) = Len(r) /\ \A i \in 1 .. Len(r) : Tail(s)[i] = r[i]
  BY <1>4, <1>5, <1>7
<1>9. Tail(s) = r
  BY <1>1, <1>7, <1>8, SameSequence
<1>10. Only(c.unwind, LocalOps)
  BY <1>2, OnlyNone
<1>11. Len(s) >= 1
  BY <1>4, <1>5
<1>12. Only(Tail(s), LocalOps)
  BY <1>9
<1>13. StartsOne(s)
  BY <1>2, <1>4, <1>10, <1>11, <1>12 DEF StartsOne
<1> QED BY <1>13 DEF s, c

(* The same, with a handler. *)
LEMMA StartsOneCatch ==
  ASSUME NEW s, NEW u, StartsOne(s), Only(u, LocalOps)
  PROVE  StartsOne(Catch(s, u))
<1> DEFINE r == Catch(s, u)
<1>1. /\ IsSequence(s) /\ Len(s) >= 1 /\ Len(s) \in Nat
      /\ Formed(s[1]) /\ s[1].op = "start" /\ s[1].body = Funct /\ Only(s[1].unwind, LocalOps)
      /\ Only(Tail(s), LocalOps)
  BY DEF StartsOne, IsSequence
<1>2. IsSequence(r) /\ Len(r) = Len(s) /\ \A i \in 1 .. Len(s) : r[i] = Caught(s[i], u)
  BY <1>1, CatchElements
<1>3. IsSequence(u) /\ r[1] = Caught(s[1], u)
  BY <1>1, <1>2 DEF Only, MadeOf
<1>4. /\ Formed(r[1]) /\ r[1].op = "start" /\ r[1].body = Funct
      /\ r[1].unwind = s[1].unwind \o u
  <2>1. ASSUME NEW b, Formed(b), b.op = "start"
        PROVE  LET d == Caught(b, u)
               IN  Formed(d) /\ d.op = "start" /\ d.body = b.body /\ d.unwind = b.unwind \o u
    BY <1>3, <2>1, CaughtKeeps DEF Throwing
  <2> HIDE DEF r
  <2> QED BY <1>1, <1>3, <2>1
<1>5. Only(s[1].unwind \o u, LocalOps)
  BY <1>1, OnlyConcat
<1>6. s # <<>> /\ r # <<>>
  BY <1>1, <1>2, EmptySequence
<1>7. /\ IsSequence(Tail(s)) /\ Len(Tail(s)) = Len(s) - 1
      /\ \A i \in 1 .. Len(s) - 1 : Tail(s)[i] = s[i + 1]
  BY <1>1, <1>6, TailSequence
<1>8. /\ IsSequence(Tail(r)) /\ Len(Tail(r)) = Len(r) - 1
      /\ \A i \in 1 .. Len(r) - 1 : Tail(r)[i] = r[i + 1]
  BY <1>2, <1>6, TailSequence
<1> DEFINE q == Catch(Tail(s), u)
<1>9. IsSequence(q) /\ Len(q) = Len(Tail(s)) /\ \A i \in 1 .. Len(Tail(s)) : q[i] = Caught(Tail(s)[i], u)
  BY <1>7, CatchElements
<1>10. Only(q, LocalOps)
  BY <1>1, OnlyCatch
<1> HIDE DEF r, q
<1>11. Len(Tail(r)) = Len(q)
  BY <1>2, <1>7, <1>8, <1>9
<1>12. ASSUME NEW i \in 1 .. Len(Tail(r)) PROVE Tail(r)[i] = q[i]
  <2>1. i \in 1 .. Len(s) - 1 /\ i + 1 \in 1 .. Len(s)
    BY <1>1, <1>2, <1>8
  <2>2. Tail(r)[i] = Caught(s[i + 1], u)
    BY <2>1, <1>2, <1>8
  <2>3. q[i] = Caught(s[i + 1], u)
    BY <2>1, <1>7, <1>9
  <2> QED BY <2>2, <2>3
<1>13. Tail(r) = q
  BY <1>8, <1>9, <1>11, <1>12, SameSequence
<1>14. StartsOne(r)
  BY <1>1, <1>2, <1>4, <1>5, <1>10, <1>13 DEF StartsOne
<1> QED BY <1>14 DEF r

(* The same, and more after it. *)
LEMMA StartsOneConcat ==
  ASSUME NEW s, NEW u, StartsOne(s), Only(u, LocalOps)
  PROVE  StartsOne(s \o u)
<1> DEFINE r == s \o u
<1>1. /\ IsSequence(s) /\ Len(s) >= 1 /\ Len(s) \in Nat
      /\ Only(Tail(s), LocalOps)
  BY DEF StartsOne, IsSequence
<1>2. IsSequence(u) /\ Len(u) \in Nat
  BY DEF Only, MadeOf, IsSequence
<1>3. /\ IsSequence(r) /\ Len(r) = Len(s) + Len(u)
      /\ \A i \in 1 .. Len(s) : r[i] = s[i]
      /\ \A i \in 1 .. Len(u) : r[Len(s) + i] = u[i]
  BY <1>1, <1>2, Concatenation
<1> DEFINE q == Tail(s) \o u
<1> HIDE DEF r
<1>4. s # <<>> /\ r # <<>> /\ r[1] = s[1]
  <2>1. Len(r) # 0 /\ 1 \in 1 .. Len(s)
    BY <1>1, <1>2, <1>3
  <2> QED BY <2>1, <1>1, <1>3, EmptySequence
<1>5. /\ IsSequence(Tail(s)) /\ Len(Tail(s)) = Len(s) - 1
      /\ \A i \in 1 .. Len(s) - 1 : Tail(s)[i] = s[i + 1]
  BY <1>1, <1>4, TailSequence
<1>6. /\ IsSequence(Tail(r)) /\ Len(Tail(r)) = Len(r) - 1
      /\ \A i \in 1 .. Len(r) - 1 : Tail(r)[i] = r[i + 1]
  BY <1>3, <1>4, TailSequence
<1>7. /\ IsSequence(q) /\ Len(q) = Len(Tail(s)) + Len(u)
      /\ \A i \in 1 .. Len(Tail(s)) : q[i] = Tail(s)[i]
      /\ \A i \in 1 .. Len(u) : q[Len(Tail(s)) + i] = u[i]
  BY <1>2, <1>5, Concatenation
<1>8. Only(q, LocalOps)
  BY <1>1, OnlyConcat
<1> HIDE DEF q
<1>9. Len(Tail(r)) = Len(q)
  BY <1>1, <1>2, <1>3, <1>5, <1>6, <1>7
<1>10. ASSUME NEW i \in 1 .. Len(Tail(r)) PROVE Tail(r)[i] = q[i]
  <2>1. i \in 1 .. Len(r) - 1 /\ Tail(r)[i] = r[i + 1] /\ i \in Nat
    BY <1>1, <1>2, <1>3, <1>6
  <2>2. CASE i <= Len(s) - 1
    <3>1. i \in 1 .. Len(s) - 1 /\ i \in 1 .. Len(Tail(s)) /\ i + 1 \in 1 .. Len(s)
      BY <2>1, <2>2, <1>1, <1>5
    <3> QED BY <2>1, <3>1, <1>3, <1>5, <1>7
  <2>3. CASE ~ (i <= Len(s) - 1)
    <3> DEFINE j == i + 1 - Len(s)
    <3>1. j \in 1 .. Len(u) /\ i + 1 = Len(s) + j /\ i = Len(Tail(s)) + j
      <4>1. i \in 1 .. (Len(s) + Len(u)) - 1
        BY <2>1, <1>3
      <4>2. Len(s) \in Nat /\ Len(u) \in Nat /\ Len(Tail(s)) = Len(s) - 1
        BY <1>1, <1>2, <1>5
      <4> DEFINE a == Len(s)
                 b == Len(u)
                 l == Len(Tail(s))
      <4>3. a \in Nat /\ b \in Nat /\ l = a - 1 /\ i \in 1 .. (a + b) - 1 /\ ~ (i <= a - 1)
        BY <4>1, <4>2, <2>3
      <4> HIDE DEF a, b, l
      <4>4. i + 1 - a \in 1 .. b /\ i + 1 = a + (i + 1 - a) /\ i = l + (i + 1 - a)
        BY ONLY <4>3
      <4> QED BY <4>4 DEF a, b, l
    <3> HIDE DEF j
    <3> QED BY <2>1, <3>1, <1>3, <1>7
  <2> QED BY <2>2, <2>3
<1>11. Tail(r) = q
  BY <1>6, <1>7, <1>9, <1>10, SameSequence
<1>12. Len(r) >= 1
  BY <1>1, <1>2, <1>3
<1>13. StartsOne(r)
  BY <1>3, <1>4, <1>8, <1>11, <1>12 DEF StartsOne
<1> QED BY <1>13 DEF r

(* The same, in the scope of someLocalState. *)
LEMMA StartsOneWithin ==
  ASSUME NEW s, StartsOne(s)
  PROVE  StartsOne(WithLocalState(s))
<1> DEFINE u == <<EndLifetime("someLocalState")>>
<1>1. Only(u, LocalOps) /\ "terminate" \in LocalOps
  BY LocalInstructions DEF LocalOps
<1>2. Only(NoExcept(u), LocalOps)
  BY <1>1, OnlyNoExcept
<1>3. StartsOne(Catch(s, NoExcept(u)))
  BY <1>2, StartsOneCatch
<1>4. StartsOne(Catch(s, NoExcept(u)) \o NoExcept(u))
  BY <1>2, <1>3, StartsOneConcat
<1> QED BY <1>4 DEF WithLocalState, Within

(* The programs whose thread is given a reference to a local of main. *)
LocalPrograms == {"oops", "better_oops", "much_better_oops", "scoped", "scoped_empty"}

(* Each of them starts its thread first, or never. *)
LEMMA LocalProgramsStartOne ==
  /\ StartsOne(oops) /\ StartsOne(better_oops) /\ StartsOne(much_better_oops) /\ StartsOne(scoped)
  /\ Only(scoped_empty, LocalOps)
<1> DEFINE O == LocalOps
<1>1. /\ LocalOps \subseteq O /\ "terminate" \in O /\ Only(<<Risk>>, O)
      /\ \A k, m : Only(<<Move(k, m)>>, O)
      /\ \A k : /\ Only(<<Join(k)>>, O) /\ Only(<<JoinIfJoinable(k)>>, O)
                /\ Only(<<ThrowIfEmpty(k)>>, O)
                /\ Only(<<Detach(k)>>, O) /\ Only(<<Destroy(k)>>, O)
      /\ \A x : Only(<<EndLifetime(x)>>, O)
  <2>1. LocalOps \subseteq O /\ "terminate" \in O
    BY DEF LocalOps
  <2> QED BY <2>1, LocalInstructions
<1>2. \A s : Only(s, O) => StartsOne(WithLocalState(Thread(1, Funct, s)))
  <2> SUFFICES ASSUME NEW s, Only(s, O) PROVE StartsOne(WithLocalState(Thread(1, Funct, s)))
    OBVIOUS
  <2>1. Only(Within(s, <<Destroy(1)>>), O)
    BY <1>1, OnlyWithin
  <2>2. StartsOne(Thread(1, Funct, s))
    BY <2>1, StartsOneThen DEF Thread
  <2> QED BY <2>2, StartsOneWithin
<1>3. Only(ScopedThreadGuard(<<Risk>>), O)
  <2> HIDE DEF O
  <2>1. Only(Within(<<Risk>>, <<Join(2)>>), O)
    BY <1>1, OnlyWithin
  <2>2. Only(<<ThrowIfEmpty(2)>> \o Within(<<Risk>>, <<Join(2)>>), O)
    BY <1>1, <2>1, OnlyConcat
  <2>3. Only(Within(<<ThrowIfEmpty(2)>> \o Within(<<Risk>>, <<Join(2)>>), <<Destroy(2)>>), O)
    BY <1>1, <2>2, OnlyWithin
  <2> QED BY <1>1, <2>3, OnlyConcat DEF ScopedThreadGuard
<1> HIDE DEF O
<1>4. StartsOne(oops)
  BY <1>1, <1>2 DEF oops
<1>5. StartsOne(better_oops)
  <2>1. Only(Catch(<<Risk>>, <<Join(1)>>) \o <<Join(1)>>, O)
    BY <1>1, OnlyCatch, OnlyConcat
  <2> QED BY <2>1, <1>2 DEF better_oops
<1>6. StartsOne(much_better_oops)
  <2>1. Only(ThreadGuard(1, <<Risk>>), O)
    BY <1>1, OnlyWithin DEF ThreadGuard
  <2> QED BY <2>1, <1>2 DEF much_better_oops
<1>7. StartsOne(scoped)
  <2>1. Only(Within(ScopedThreadGuard(<<Risk>>), <<Destroy(1)>>), O)
    BY <1>1, <1>3, OnlyWithin
  <2>2. StartsOne(<<Start(1, Funct)>> \o Within(ScopedThreadGuard(<<Risk>>), <<Destroy(1)>>))
    BY <2>1, StartsOneThen DEF O
  <2> QED BY <2>2, StartsOneWithin DEF scoped
<1>8. Only(scoped_empty, O)
  BY <1>1, <1>3, OnlyWithin DEF scoped_empty, WithLocalState
<1> QED BY <1>4, <1>5, <1>6, <1>7, <1>8 DEF O

(* What a step does to the code of its thread. *)
LEMMA CodeMoves ==
  ASSUME NEW t \in Threads, Step(t)
  PROVE  \/ code' = code
         \/ Continue(t)
         \/ Become(t, Instr(t).unwind) /\ Instr(t).op \in Throwing
         \/ StartThread(t)
         \/ EditDocument(t)
<1> USE DEF At, Instr
<1>1. CASE StartThread(t)
  BY <1>1
<1>2. CASE StartThrows(t) \/ NotJoinableThrows(t) \/ WorkThrows(t)
  BY <1>2 DEF StartThrows, NotJoinableThrows, WorkThrows, Raise, Throwing
<1>3. CASE JoinThread(t) \/ DetachThread(t) \/ MoveThread(t) \/ SwapThreads(t) \/ TerminateProgram(t)
  BY <1>3 DEF JoinThread, DetachThread, MoveThread, SwapThreads, TerminateProgram, End
<1>4. CASE EditDocument(t) \/ Pass(t) \/ FlowOffTheEnd(t) \/ Leave(t) \/ CheckAssertion(t)
  BY <1>4 DEF Pass, FlowOffTheEnd, Leave, CheckAssertion, End
<1>5. CASE AccessData(t) \/ StoreAtomic(t) \/ LoadAtomic(t) \/ AwaitValue(t)
  BY <1>5 DEF AccessData, StoreAtomic, LoadAtomic, AwaitValue
<1>6. CASE ReadModifyWrite(t) \/ SpinOnFlag(t) \/ CompareExchange(t) \/ ExchangeInLoop(t)
  BY <1>6 DEF ReadModifyWrite, SpinOnFlag, CompareExchange, ExchangeInLoop
<1> QED BY <1>1, <1>2, <1>3, <1>4, <1>5, <1>6 DEF Step

-----------------------------------------------------------------------------
(* Programs that share nothing, or one local *)

(* The programs whose threads share nothing. *)
CalmPrograms == {"hello_world", "worspace1", "auto_joining", "edit_document", "containers"}

(* These programs neither use memory nor assert. *)
CalmInv == program \in CalmPrograms => \A t \in Threads : Only(code[t], CalmOps)

(* They are built from calm operations. *)
LEMMA CalmInit == Init => CalmInv
<1> SUFFICES ASSUME Init, program \in CalmPrograms, NEW t \in Threads PROVE Only(code[t], CalmOps)
  BY DEF CalmInv
<1>1. code[t] = IF t = main THEN Code(program, input) ELSE <<>>
  BY DEF Init
<1>2. Code(program, input) \in {hello_world, worspace1, <<>>, <<Edit>>, containers}
  BY DEF Code, CalmPrograms
<1> QED BY <1>1, <1>2, HelloWorldCalm, WorkspaceCalm, CalmInstructions, ContainersCalm, OnlyNone

(* Every step executes one of them and leaves the others, or what          *)
(* unwinding runs.                                                         *)
LEMMA CalmStep ==
  ASSUME ThreadInv, CalmInv, [Next]_vars
  PROVE  CalmInv'
<1>1. CASE UNCHANGED vars
  BY <1>1 DEF vars, CalmInv
<1>2. code = [u \in Threads |-> code[u]]
  BY DEF ThreadInv, Typing
<1>3. ASSUME NEW t \in Threads, NEW s, Become(t, s), program' = program, CalmInv,
             program \in CalmPrograms => Only(s, CalmOps)
      PROVE  CalmInv'
  <2>1. \A u \in Threads : code'[u] = IF u = t THEN s ELSE code[u]
    BY <1>2, <1>3 DEF Become
  <2> QED BY <2>1, <1>3 DEF CalmInv
<1>4. ASSUME NEW t \in Threads, Step(t) PROVE CalmInv'
  <2>1. program' = program /\ code[t] # <<>>
    BY <1>4, SameProgram, StepAt
  <2>2. program \in CalmPrograms =>
          /\ Only(Rest(t), CalmOps)
          /\ Instr(t).op \in Throwing => Only(Instr(t).unwind, CalmOps)
          /\ Instr(t).op = "start" => Only(Instr(t).body, CalmOps)
    BY <2>1, OnlyNext DEF CalmInv, Rest, Instr
  <2>3. CASE code' = code
    BY <2>1, <2>3 DEF CalmInv
  <2>4. CASE Continue(t)
    BY <1>3, <2>1, <2>2, <2>4 DEF Continue
  <2>5. CASE Become(t, Instr(t).unwind) /\ Instr(t).op \in Throwing
    BY <1>3, <2>1, <2>2, <2>5
  <2>6. CASE StartThread(t)
    <3>1. Instr(t).op = "start" /\ code' = [code EXCEPT ![t] = Rest(t), ![started + 1] = Instr(t).body]
      BY <2>6 DEF StartThread, At, Instr
    <3>2. \A u \in Threads : code'[u] \in {code[u], Rest(t), Instr(t).body}
      BY <1>2, <3>1
    <3> QED BY <2>1, <2>2, <3>1, <3>2 DEF CalmInv
  <2>7. CASE EditDocument(t)
    <3>1. PICK body \in {open_new_document(t), process_other_command} : Become(t, body \o code[t])
      BY <2>7 DEF EditDocument
    <3>2. Only(body, CalmOps)
      BY DocumentCalm
    <3>3. program \in CalmPrograms => Only(body \o code[t], CalmOps)
      BY <3>2, OnlyConcat DEF CalmInv
    <3> QED BY <1>3, <2>1, <3>1, <3>3
  <2> QED BY <1>4, CodeMoves, <2>3, <2>4, <2>5, <2>6, <2>7
<1>5. ASSUME NEW h \in {1, 2}, NEW g \in {1, 2}, CallAutoJoining(h, g) PROVE CalmInv'
  <2>1. PICK body \in Members(h, g) \cup (IF handle[h] = Empty THEN Constructors(h, g) ELSE {}) :
          Become(main, body)
    BY <1>5 DEF CallAutoJoining
  <2>2. Only(body, CalmOps)
    BY <2>1, AutoJoiningCalm
  <2>3. program' = program /\ main \in Threads
    BY <1>5 DEF CallAutoJoining, OnlyCode, Threads
  <2> QED BY <1>3, <2>1, <2>2, <2>3
<1> QED BY <1>1, <1>4, <1>5 DEF Next

(* main never touches its local, and the thread that does knows all of it. *)
LocalInv ==
  program \in LocalPrograms =>
    /\ \/ started = 0 /\ StartsOne(code[main])
       \/ started \in {0, 1} /\ Only(code[main], LocalOps)
    /\ started = 0 => Len(memory["someLocalState"]) = 1
    /\ started = 1 => /\ IsSequence(code[1])
                      /\ \A i \in 1 .. Len(code[1]) : code[1][i] = Access("someLocalState", "add", 1)
                      /\ view[1]["someLocalState"] = Len(memory["someLocalState"])

(* The thread increments the local of main, and does nothing else. *)
LEMMA FunctElements ==
  IsSequence(Funct) /\ \A i \in 1 .. Len(Funct) : Funct[i] = Access("someLocalState", "add", 1)
<1>1. Len(Funct) = 2 /\ Funct[1] = Access("someLocalState", "add", 1) /\ Funct[2] = Funct[1]
  BY DEF Funct
<1>2. IsSequence(Funct)
  BY DEF Funct, IsSequence
<1> QED BY <1>1, <1>2

(* Each of these programs begins with the start, or has none. *)
LEMMA LocalInit == Init => LocalInv
<1> SUFFICES ASSUME Init, program \in LocalPrograms PROVE LocalInv
  BY DEF LocalInv
<1>1. started = 0 /\ code[main] = Code(program, input)
  BY DEF Init, Threads
<1>2. Code(program, input) \in {oops, better_oops, much_better_oops, scoped, scoped_empty}
  BY DEF Code, LocalPrograms
<1>3. Len(memory["someLocalState"]) = 1
  BY NamedLocations DEF Init
<1>4. StartsOne(code[main]) \/ Only(code[main], LocalOps)
  BY <1>1, <1>2, LocalProgramsStartOne
<1> QED BY <1>1, <1>3, <1>4 DEF LocalInv

(* What is next when the start is next. *)
LEMMA StartsOneNext ==
  ASSUME NEW s, StartsOne(s)
  PROVE  /\ s # <<>> /\ Head(s).op = "start" /\ Head(s).body = Funct
         /\ Only(Head(s).unwind, LocalOps) /\ Only(Tail(s), LocalOps)
<1>1. s # <<>> /\ IsSequence(s)
  BY EmptySequence DEF StartsOne
<1>2. Head(s) = s[1]
  BY <1>1, TailSequence
<1> QED BY <1>1, <1>2 DEF StartsOne

(* Only a start counts as one. *)
LEMMA StartedMoves ==
  ASSUME NEW t \in Threads, Step(t), ~ StartThread(t)
  PROVE  started' = started
BY DEF Step, StartThrows, JoinThread, DetachThread, NotJoinableThrows,
   MoveThread, SwapThreads, TerminateProgram, EditDocument, Pass, WorkThrows, FlowOffTheEnd,
   Leave, CheckAssertion, AccessData, StoreAtomic, LoadAtomic, AwaitValue, ReadModifyWrite,
   SpinOnFlag, CompareExchange, ExchangeInLoop, Raise, End, OnlyCode, MemoryStep, objects

(* A step of main. *)
LEMMA LocalMain ==
  ASSUME ThreadInv, MemoryTyping, LocalInv, program \in LocalPrograms, Step(main)
  PROVE  LocalInv'
<1> DEFINE x == "someLocalState"
<1>1. /\ program' = program /\ code[main] # <<>> /\ main \in Threads
      /\ x \in Locations /\ 1 \in Threads /\ 1 # main
  BY SameProgram, StepAt, NamedLocations, ThreadProgramsAssumption DEF Threads, Workers, main
<1>2. code = [u \in Threads |-> code[u]] /\ view \in [Threads -> Views] /\ started \in Nat
  BY DEF ThreadInv, Typing, MemoryTyping
<1>3. CASE StartsOne(code[main]) /\ started = 0
  <2>1. /\ Instr(main).op = "start" /\ Instr(main).body = Funct
        /\ Only(Instr(main).unwind, LocalOps) /\ Only(Rest(main), LocalOps)
    BY <1>3, StartsOneNext DEF Instr, Rest
  <2>2. Instr(main).op \notin MemoryOps
    BY <2>1 DEF MemoryOps
  <2>3. memory' = memory /\ Len(memory[x]) = 1
    BY <2>2, <1>1, <1>3, SilentStep DEF LocalInv
  <2>4. CASE StartThread(main)
    <3>1. /\ started' = 1 /\ view' = [view EXCEPT ![1] = view[main]]
          /\ code' = [code EXCEPT ![main] = Rest(main), ![1] = Funct]
      BY <2>1, <2>4, <1>3 DEF StartThread
    <3>2. code'[main] = Rest(main) /\ code'[1] = Funct /\ view'[1] = view[main]
      BY <3>1, <1>1, <1>2
    <3>3. view[main][x] \in 1 .. 1
      BY <1>1, <2>3, Histories
    <3>4. view'[1][x] = Len(memory'[x])
      BY <3>2, <3>3, <2>3
    <3>5. IsSequence(code'[1]) /\ \A i \in 1 .. Len(code'[1]) : code'[1][i] = Access(x, "add", 1)
      BY <3>2, FunctElements
    <3>6. Only(code'[main], LocalOps)
      BY <2>1, <3>2
    <3>7. started' = 1
      BY <3>1
    <3> QED BY <1>1, <3>4, <3>5, <3>6, <3>7 DEF LocalInv
  <2>5. CASE StartThrows(main)
    <3>1. code' = [code EXCEPT ![main] = Instr(main).unwind] /\ started' = started
      BY <2>5 DEF StartThrows, Raise, Become, objects
    <3>2. code'[main] = Instr(main).unwind
      BY <3>1, <1>1, <1>2
    <3> QED BY <1>1, <1>3, <2>1, <2>3, <3>1, <3>2 DEF LocalInv
  <2> QED BY <1>1, <2>1, <2>4, <2>5, StepAt
<1>4. CASE Only(code[main], LocalOps) /\ started \in {0, 1}
  <2>1. /\ Instr(main).op \in LocalOps /\ Only(Rest(main), LocalOps)
        /\ Instr(main).op \in Throwing => Only(Instr(main).unwind, LocalOps)
    BY <1>1, <1>4, OnlyNext DEF Instr, Rest
  <2>2. Instr(main).op \notin MemoryOps /\ Instr(main).op # "start" /\ Instr(main).op # "edit"
    BY <2>1 DEF MemoryOps, LocalOps
  <2>3. memory' = memory
    BY <2>2, <1>1, SilentStep
  <2>4. ~ StartThread(main) /\ ~ EditDocument(main)
    BY <2>2 DEF StartThread, EditDocument, At, Instr
  <2>5. view'[1] = view[1]
    BY <2>4, <1>1, OwnView
  <2>6. started' = started
    BY <2>4, StartedMoves, <1>1
  <2>7. Only(code'[main], LocalOps) /\ code'[1] = code[1]
    <3>1. CASE code' = code
      BY <3>1, <1>4
    <3>2. CASE Continue(main)
      BY <3>2, <1>1, <1>2, <2>1 DEF Continue, Become
    <3>3. CASE Become(main, Instr(main).unwind) /\ Instr(main).op \in Throwing
      BY <3>3, <1>1, <1>2, <2>1 DEF Become
    <3> QED BY <1>1, <2>4, <3>1, <3>2, <3>3, CodeMoves
  <2> QED BY <1>1, <1>4, <2>3, <2>5, <2>6, <2>7 DEF LocalInv
<1> QED BY <1>3, <1>4 DEF LocalInv

(* A step of the thread. *)
LEMMA LocalWorker ==
  ASSUME ThreadInv, MemoryTyping, LocalInv, program \in LocalPrograms,
         NEW t \in Threads, t # main, Step(t)
  PROVE  LocalInv'
<1> DEFINE x == "someLocalState"
<1>1. /\ program' = program /\ code[t] # <<>> /\ main \in Threads
      /\ x \in Locations /\ 1 \in Threads
  BY SameProgram, StepAt, NamedLocations, ThreadProgramsAssumption DEF Threads, Workers, main
<1>2. code = [u \in Threads |-> code[u]] /\ started \in Nat
  BY DEF ThreadInv, Typing
<1>3. t = 1 /\ started = 1 /\ Only(code[main], LocalOps)
  <2>1. t \in Workers /\ t \in Nat /\ t >= 1
    BY DEF Threads, Workers
  <2>2. ~ (t > started)
    BY <1>1, <2>1 DEF ThreadInv, Unstarted
  <2> QED BY <1>2, <2>1, <2>2 DEF LocalInv
<1>4. /\ IsSequence(code[1])
      /\ \A i \in 1 .. Len(code[1]) : code[1][i] = Access(x, "add", 1)
      /\ view[1][x] = Len(memory[x])
  BY <1>3 DEF LocalInv
<1>5. /\ Len(code[1]) >= 1 /\ IsSequence(Rest(1)) /\ Len(Rest(1)) = Len(code[1]) - 1
      /\ Head(code[1]) = code[1][1] /\ \A i \in 1 .. Len(code[1]) - 1 : Rest(1)[i] = code[1][i + 1]
      /\ Len(code[1]) \in Nat
  BY <1>1, <1>3, <1>4, TailSequence DEF Rest, IsSequence
<1>6. Instr(1) = Access(x, "add", 1) /\ \A i \in 1 .. Len(Rest(1)) : Rest(1)[i] = Access(x, "add", 1)
  BY <1>4, <1>5 DEF Instr
<1>7. AccessData(1) /\ Loc(1) = x
  BY <1>1, <1>3, <1>6, StepAt DEF Access, Loc
<1>8. view'[1][x] = Len(memory'[x])
  BY <1>1, <1>4, <1>7, AccessEffect
<1>9. started' = started /\ code' = [code EXCEPT ![1] = Rest(1)]
  BY <1>7 DEF AccessData, MemoryStep, objects, Continue, Become
<1>10. code'[1] = Rest(1) /\ code'[main] = code[main]
  BY <1>1, <1>2, <1>3, <1>9
<1> QED BY <1>1, <1>3, <1>5, <1>6, <1>8, <1>9, <1>10 DEF LocalInv

(* Every step. *)
LEMMA LocalStep ==
  ASSUME ThreadInv, MemoryTyping, LocalInv, [Next]_vars
  PROVE  LocalInv'
<1>1. CASE UNCHANGED vars
  BY <1>1 DEF vars, objects, atomics, LocalInv
<1>2. ASSUME NEW t \in Threads, Step(t) PROVE LocalInv'
  <2>1. program' = program
    BY <1>2, SameProgram
  <2>2. CASE program \notin LocalPrograms
    BY <2>1, <2>2 DEF LocalInv
  <2> QED BY <1>2, <2>2, LocalMain, LocalWorker
<1>3. ASSUME NEW h \in {1, 2}, NEW g \in {1, 2}, CallAutoJoining(h, g) PROVE LocalInv'
  BY <1>3 DEF CallAutoJoining, OnlyCode, LocalInv, LocalPrograms
<1> QED BY <1>1, <1>2, <1>3 DEF Next

-----------------------------------------------------------------------------
(* Programs with one thread *)

(* What a read-modify-write changes. *)
LEMMA RMWEffect ==
  ASSUME ThreadInv, MemoryTyping, NEW t \in Threads, ReadModifyWrite(t), NEW x, x = Loc(t)
  PROVE  LET v == NewestOf(x).val
             w == IF Instr(t).how = "set" THEN 1 ELSE v + Instr(t).arg
         IN  /\ (NewestOf(x)').val = w
             /\ \A l \in Locations \ {x} : memory'[l] = memory[l]
             /\ reg'[t].val = IF Instr(t).how = "+=" THEN w ELSE v
             /\ Continue(t)
<1> DEFINE v == NewestOf(x).val
           w == IF Instr(t).how = "set" THEN 1 ELSE v + Instr(t).arg
<1>1. code[t] # <<>> /\ Instr(t).op = "read_modify_write"
  BY DEF ReadModifyWrite, At, Instr
<1>2. x \in Locations /\ Instr(t).arg \in Int
  BY <1>1, TypedNext DEF Typed, Loc
<1>3. v \in Int
  BY <1>2, NewestFacts
<1>4. w \in Int
  BY <1>2, <1>3
<1>5. Last(t).val = v
  BY DEF Last, Newest, NewestOf
<1>6. /\ Modify(t, w, Instr(t).order) /\ Set(t, "val", IF Instr(t).how = "+=" THEN w ELSE v)
      /\ Continue(t)
  BY <1>5 DEF ReadModifyWrite
<1> HIDE DEF v, w
<1>7. (NewestOf(x)').val = w /\ \A l \in Locations \ {x} : memory'[l] = memory[l]
  <2>1. Modify(t, w, Instr(t).order)
    BY <1>6
  <2> DEFINE order == Instr(t).order
  <2>2. Modify(t, w, order)
    BY <2>1
  <2> HIDE DEF order
  <2> QED BY <2>2, <1>2, <1>4, ModifyEffect
<1>8. reg'[t].val = IF Instr(t).how = "+=" THEN w ELSE v
  <2>1. (IF Instr(t).how = "+=" THEN w ELSE v) \in Int /\ "val" \in Fields
    BY <1>3, <1>4 DEF Fields
  <2> QED BY <2>1, <1>6, SetType
<1> QED BY <1>6, <1>7, <1>8 DEF v, w

(* What a load changes. *)
LEMMA LoadEffect ==
  ASSUME ThreadInv, MemoryTyping, NEW t \in Threads, LoadAtomic(t), NEW x, x = Loc(t)
  PROVE  /\ memory' = memory /\ reg'[t].val = NewestOf(x).val /\ reg'[t].ok = reg[t].ok
         /\ program # "multithread_compare_exchange_weak" => reg'[t].expected = reg[t].expected
         /\ Continue(t)
<1>1. Last(t) = NewestOf(x) /\ reg \in [Threads -> Registers]
  BY DEF Last, Newest, NewestOf, MemoryTyping
<1> DEFINE e == IF program = "multithread_compare_exchange_weak" THEN Last(t).val ELSE reg[t].expected
<1>2. reg[t] \in [Fields -> Int] /\ "val" \in Fields /\ "ok" \in Fields /\ "expected" \in Fields
  BY <1>1 DEF Registers, Fields
<1>3. reg'[t] = [reg[t] EXCEPT !.val = NewestOf(x).val, !.expected = e]
  BY <1>1 DEF LoadAtomic
<1>4. reg'[t].val = NewestOf(x).val /\ reg'[t].ok = reg[t].ok /\ reg'[t].expected = e
  BY <1>2, <1>3
<1> QED BY <1>4 DEF LoadAtomic, Observe

(* What a compare_exchange changes, when it succeeds and when it fails. *)
LEMMA ExchangeEffect ==
  ASSUME ThreadInv, MemoryTyping, NEW t \in Threads, CompareExchange(t), NEW x, x = Loc(t)
  PROVE  /\ Continue(t)
         /\ \/ /\ NewestOf(x).val = Instr(t).expected /\ (NewestOf(x)').val = Instr(t).arg
               /\ reg'[t].ok = 1 /\ faults' = faults
            \/ /\ memory' = memory /\ reg'[t].ok = 0 /\ reg'[t].expected = NewestOf(x).val
               /\ NewestOf(x).val = Instr(t).expected => "spurious" \in faults'
               /\ faults \subseteq faults'
<1>1. code[t] # <<>> /\ Instr(t).op = "exchange"
  BY DEF CompareExchange, At, Instr
<1>2. x \in Locations /\ Instr(t).arg \in Int
  BY <1>1, TypedNext DEF Typed, Loc
<1>3. Last(t) = NewestOf(x) /\ reg \in [Threads -> Registers] /\ NewestOf(x).val \in Int
  BY <1>2, NewestFacts DEF Last, Newest, NewestOf, MemoryTyping
<1>4. reg[t] \in [Fields -> Int] /\ "val" \in Fields /\ "ok" \in Fields /\ "expected" \in Fields
  BY <1>3 DEF Registers, Fields
<1>5. CASE /\ Last(t).val = Instr(t).expected
           /\ Modify(t, Instr(t).arg, "seq_cst") /\ Set(t, "ok", 1) /\ UNCHANGED faults
  <2>1. (NewestOf(x)').val = Instr(t).arg
    BY <1>2, <1>5, ModifyEffect
  <2>2. reg'[t].ok = 1
    BY <1>4, <1>5, SetType
  <2> QED BY <1>3, <1>5, <2>1, <2>2 DEF CompareExchange
<1>6. CASE /\ Observe(t, "seq_cst")
           /\ reg' = [reg EXCEPT ![t].ok = 0, ![t].expected = Last(t).val]
           /\ faults' = IF Last(t).val = Instr(t).expected THEN faults \cup {"spurious"} ELSE faults
  <2>1. reg'[t] = [reg[t] EXCEPT !.ok = 0, !.expected = NewestOf(x).val]
    BY <1>3, <1>6
  <2>2. reg'[t].ok = 0 /\ reg'[t].expected = NewestOf(x).val
    BY <1>4, <2>1
  <2> QED BY <1>3, <1>6, <2>2 DEF CompareExchange, Observe
<1> QED BY <1>5, <1>6 DEF CompareExchange

(* The place of the next instruction of main. *)
Place == Len(Code(program, input)) - Len(code[main]) + 1

(* Where main is, while every thread could be started. *)
LEMMA MainAt ==
  ASSUME ThreadInv, OnItsWay, program \in Placed, "start" \notin faults, code[main] # <<>>
  PROVE  LET c == Code(program, input)
         IN  /\ IsSequence(c) /\ Suffix(code[main], c)
             /\ Place \in 1 .. Len(c) /\ Len(c) \in Nat /\ Instr(main) = c[Place]
             /\ Starts(program, input) \in 0 .. MaxThreads
             /\ Place <= Starts(program, input) => started = Place - 1
             /\ Place > Starts(program, input) => started = Starts(program, input)
<1> DEFINE c == Code(program, input)
<1>1. /\ IsSequence(c) /\ Suffix(code[main], c) /\ Len(c) \in Nat /\ Place \in 1 .. Len(c)
      /\ Instr(main) = c[Place] /\ StartsFirst(program, input)
  BY WhereItIs, MainIsNoWorker DEF Place
<1>2. /\ Place <= Starts(program, input) => started = Place - 1
      /\ Place > Starts(program, input) => started = Starts(program, input)
  BY WhereItIs, MainIsNoWorker DEF Place
<1>3. Starts(program, input) \in 0 .. MaxThreads
  BY <1>1 DEF StartsFirst
<1> QED BY <1>1, <1>2, <1>3

(* How main gets from place to place. *)
LEMMA MainPlace ==
  ASSUME ThreadInv, OnItsWay, program \in Placed, "start" \notin faults, Step(main)
  PROVE  /\ code[main] # <<>> /\ program' = program /\ input' = input
         /\ Continue(main) => Place' = Place + 1
         /\ code'[main] = Rest(main) => Place' = Place + 1
         /\ code'[main] = code[main] => Place' = Place
<1> DEFINE c == Code(program, input)
<1>1. code[main] # <<>> /\ main \in Threads
  BY StepAt, MainIsNoWorker
<1>2. IsSequence(c) /\ Suffix(code[main], c) /\ Len(c) \in Nat
  BY <1>1, MainAt
<1>3. program' = program /\ input' = input
  BY <1>1, SameProgram
<1>4. ASSUME code'[main] = Rest(main) PROVE Place' = Place + 1
  <2>1. code'[main] = Tail(code[main])
    BY <1>4 DEF Rest
  <2>2. Len(Tail(code[main])) = Len(code[main]) - 1 /\ Len(code[main]) \in 1 .. Len(c)
    BY <1>1, <1>2, SuffixTail
  <2>3. Len(code'[main]) = Len(code[main]) - 1
    BY <2>1, <2>2
  <2> HIDE DEF c
  <2>4. Place' = Len(c) - Len(code'[main]) + 1
    BY <1>3 DEF Place, c
  <2>5. Place = Len(c) - Len(code[main]) + 1
    BY DEF Place, c
  <2> QED BY <2>2, <2>3, <2>4, <2>5, <1>2
<1>5. code'[main] = code[main] => Place' = Place
  BY <1>3 DEF Place
<1>6. Continue(main) => code'[main] = Rest(main)
  BY <1>1 DEF Continue, Become, ThreadInv, Typing
<1> QED BY <1>1, <1>3, <1>4, <1>5, <1>6

(* In a program with one thread, each step is the instruction at its       *)
(* place.                                                                  *)
LEMMA SinglePlace ==
  ASSUME ThreadInv, OnItsWay, program \in Single, NEW t \in Threads, Step(t)
  PROVE  LET c == Code(program, input)
         IN  /\ t = main /\ Place \in 1 .. Len(c) /\ Len(c) \in Nat /\ Instr(main) = c[Place]
             /\ program' = program
             /\ Continue(main) => Place' = Place + 1
<1>1. program \in Placed /\ code[t] # <<>>
  BY StepAt DEF Placed
<1>2. Starts(program, input) = 0
  BY DEF Starts, Single
<1>3. t = main
  BY <1>1, <1>2, WorkerAt
<1>4. "start" \notin faults
  BY <1>1, <1>2 DEF OnItsWay, ThreadInv, Typing
<1> QED BY <1>1, <1>3, <1>4, MainAt, MainPlace

(* The instructions of AtomicFlag. *)
LEMMA AtomicFlagPlaces ==
  LET c == atomic_flag
  IN  /\ Len(c) = 3
      /\ c[1] = Store("flag", 0, "release")
      /\ c[2] = RMW("flag", "set", 1, "seq_cst")
      /\ c[3] = Assert("val", 0)
BY DEF atomic_flag

(* The instructions of the example of compare_exchange_weak. *)
LEMMA ExchangePlaces ==
  LET c == simple_compare_exchange_weak
  IN  /\ Len(c) = 9
      /\ c[1] = Exchange("counter", 0, 33)
      /\ c[2] = Load("counter")
      /\ c[3] = Assert("val", 33)
      /\ c[4] = Assert("ok", 1)
      /\ c[5] = Exchange("counter", 22, 44)
      /\ c[6] = Load("counter")
      /\ c[7] = Assert("val", 33)
      /\ c[8] = Assert("ok", 0)
      /\ c[9] = Assert("expected", 33)
BY DEF simple_compare_exchange_weak

(* The instructions of the pointer arithmetic. *)
LEMMA PointerPlaces ==
  LET c == pointer_arithmetic
  IN  /\ Len(c) = 18
      /\ c[1] = AddFetch("atomic_var", 3)
      /\ c[2] = Load("atomic_var")
      /\ c[3] = Assert("val", 3)
      /\ c[4] = FetchAdd("atomic_var", 3, "seq_cst")
      /\ c[5] = Assert("val", 3)
      /\ c[6] = FetchAdd("atomic_var", -2, "seq_cst")
      /\ c[7] = Assert("val", 6)
      /\ c[8] = Load("atomic_var")
      /\ c[9] = Assert("val", 4)
      /\ c[10] = FetchAdd("counter", 2, "seq_cst")
      /\ c[11] = Assert("val", 0)
      /\ c[12] = Load("counter")
      /\ c[13] = Assert("val", 2)
      /\ c[14] = AddFetch("counter", -1)
      /\ c[15] = Assert("val", 1)
      /\ c[16] = Load("counter")
      /\ c[17] = Assert("val", 1)
      /\ c[18] = FetchAdd("counter", 3, "release")
BY DEF pointer_arithmetic

(* The values at place k of pointer_arithmetic: the two pointers, and what  *)
(* the last operation has returned.                                        *)
Pointers(k, x, p, r) ==
  /\ x = IF k <= 1 THEN 0 ELSE IF k <= 4 THEN 3 ELSE IF k <= 6 THEN 6 ELSE 4
  /\ p = IF k <= 10 THEN 0 ELSE IF k <= 14 THEN 2 ELSE IF k <= 18 THEN 1 ELSE 4
  /\ k \in {3, 5} => r = 3
  /\ k = 7 => r = 6
  /\ k = 9 => r = 4
  /\ k = 11 => r = 0
  /\ k = 13 => r = 2
  /\ k \in {15, 17} => r = 1

(* The flag, and what test_and_set has returned. *)
Flags(k, f, r) == (k <= 2 => f = 0) /\ (k = 3 => r = 0)

(* The value, what was loaded, and the results of the last exchange. *)
Exchanges(k, v, r, ok, e) ==
  /\ k = 1 => v = 0
  /\ k >= 2 => v = 33
  /\ k \in 2 .. 5 => ok = 1
  /\ k >= 6 => ok = 0 /\ e = 33
  /\ k \in {3, 7} => r = 33

(* The values that each place of the programs with one thread finds. *)
PlaceInv ==
  LET r == reg[main]
      counter == NewestOf("counter").val
  IN  /\ program = "atomic_flag" => Flags(Place, NewestOf("flag").val, r.val)
      /\ program = "pointer_arithmetic" =>
           Pointers(Place, NewestOf("atomic_var").val, counter, r.val)
      /\ program = "simple_compare_exchange_weak" /\ "spurious" \notin faults =>
           Exchanges(Place, counter, r.val, r.ok, r.expected)

(* A store. *)
LEMMA SingleStore ==
  ASSUME ThreadInv, OnItsWay, MemoryTyping, Step(main), Instr(main).op = "store",
         NEW x, x = Instr(main).at
  PROVE  /\ (NewestOf(x)').val = Instr(main).arg /\ reg' = reg /\ Continue(main)
         /\ \A l \in Locations \ {x} : memory'[l] = memory[l]
<1>1. main \in Threads /\ x = Loc(main)
  BY DEF Threads, Loc
<1>2. StoreAtomic(main)
  BY <1>1, StepAt
<1>3. Continue(main)
  BY <1>2 DEF StoreAtomic
<1>4. (NewestOf(x)').val = Instr(main).arg /\ reg' = reg
  BY <1>1, <1>2, StoreEffect
<1>5. \A l \in Locations \ {x} : memory'[l] = memory[l]
  BY <1>1, <1>2, StoreEffect
<1> QED BY <1>3, <1>4, <1>5

(* A load. *)
LEMMA SingleLoad ==
  ASSUME ThreadInv, OnItsWay, MemoryTyping, program \in Single, Step(main),
         Instr(main).op = "load", NEW x, x = Instr(main).at
  PROVE  /\ memory' = memory /\ reg'[main].val = NewestOf(x).val
         /\ reg'[main].ok = reg[main].ok /\ reg'[main].expected = reg[main].expected
         /\ Continue(main)
<1>1. main \in Threads /\ program # "multithread_compare_exchange_weak" /\ x = Loc(main)
  BY DEF Threads, Single, Loc
<1>2. LoadAtomic(main)
  BY <1>1, StepAt
<1> QED BY <1>1, <1>2, LoadEffect

(* A read-modify-write. *)
LEMMA SingleModify ==
  ASSUME ThreadInv, OnItsWay, MemoryTyping, Step(main),
         Instr(main).op = "read_modify_write", NEW x, x = Instr(main).at
  PROVE  /\ Continue(main)
         /\ \A l \in Locations \ {x} : memory'[l] = memory[l]
         /\ Instr(main).how = "set" => (NewestOf(x)').val = 1
         /\ Instr(main).how # "set" => (NewestOf(x)').val = NewestOf(x).val + Instr(main).arg
         /\ Instr(main).how = "+=" => reg'[main].val = NewestOf(x).val + Instr(main).arg
         /\ Instr(main).how # "+=" => reg'[main].val = NewestOf(x).val
<1>1. main \in Threads /\ x = Loc(main)
  BY DEF Threads, Loc
<1>2. ReadModifyWrite(main)
  BY <1>1, StepAt
<1> DEFINE v == NewestOf(x).val
           w == IF Instr(main).how = "set" THEN 1 ELSE v + Instr(main).arg
<1>3. /\ (NewestOf(x)').val = w
      /\ \A l \in Locations \ {x} : memory'[l] = memory[l]
      /\ reg'[main].val = IF Instr(main).how = "+=" THEN w ELSE v
      /\ Continue(main)
  BY <1>1, <1>2, RMWEffect
<1>4. w = IF Instr(main).how = "set" THEN 1 ELSE v + Instr(main).arg
  OBVIOUS
<1> HIDE DEF w
<1> QED BY <1>3, <1>4

(* An assertion that holds does nothing. *)
LEMMA SingleAssert ==
  ASSUME Step(main), Instr(main).op = "assert"
  PROVE  /\ memory' = memory /\ reg' = reg
         /\ reg[main][Instr(main).reg] = Instr(main).arg => Continue(main) /\ ended' = "no"
<1>1. CheckAssertion(main) /\ ended = "no"
  BY StepAt DEF Threads
<1> QED BY <1>1 DEF CheckAssertion, AssertionHolds, OnlyCode, End, atomics

(* Each step of AtomicFlag. *)
LEMMA FlagStep ==
  ASSUME ThreadInv, OnItsWay, MemoryTyping, PlaceInv, program = "atomic_flag", Step(main)
  PROVE  /\ PlaceInv'
         /\ Instr(main).op = "assert" => ended' = "no"
<1>1. program \in Single /\ main \in Threads /\ Code(program, input) = atomic_flag
  BY DEF Single, Threads, Code
<1>2. PICK k \in 1 .. 3 : Place = k
  BY <1>1, SinglePlace, AtomicFlagPlaces
<1>3. /\ Instr(main) = atomic_flag[k] /\ program' = program
      /\ Continue(main) => Place' = k + 1
  BY <1>1, <1>2, SinglePlace
<1> DEFINE f == NewestOf("flag").val
           r == reg[main].val
<1>4. Flags(k, f, r)
  BY <1>2 DEF PlaceInv
<1>5. Flags(Place', f', r') /\ (Instr(main).op = "assert" => ended' = "no")
  <2>1. CASE k = 1
    <3>1. Instr(main) = Store("flag", 0, "release")
      BY <1>3, <2>1, AtomicFlagPlaces
    <3>2. Instr(main).op = "store" /\ Instr(main).at = "flag" /\ Instr(main).arg = 0
      BY <3>1 DEF Store
    <3>3. f' = 0 /\ Continue(main)
      BY <1>1, <3>2, SingleStore
    <3>4. Place' = 2
      BY <1>3, <2>1, <3>3
    <3> QED BY <3>2, <3>3, <3>4 DEF Flags
  <2>2. CASE k = 2
    <3>1. Instr(main) = RMW("flag", "set", 1, "seq_cst")
      BY <1>3, <2>2, AtomicFlagPlaces
    <3>2. Instr(main).op = "read_modify_write" /\ Instr(main).at = "flag" /\ Instr(main).how = "set"
      BY <3>1 DEF RMW
    <3>3. r' = f /\ Continue(main)
      BY <1>1, <3>2, SingleModify
    <3>4. Place' = 3
      BY <1>3, <2>2, <3>3
    <3> QED BY <1>4, <2>2, <3>2, <3>3, <3>4 DEF Flags
  <2>3. CASE k = 3
    <3>1. Instr(main) = Assert("val", 0)
      BY <1>3, <2>3, AtomicFlagPlaces
    <3>2. Instr(main).op = "assert" /\ Instr(main).reg = "val" /\ Instr(main).arg = 0
      BY <3>1 DEF Assert
    <3>3. Continue(main) /\ ended' = "no"
      BY <1>1, <1>4, <2>3, <3>2, SingleAssert DEF Flags
    <3>4. Place' = 4
      BY <1>3, <2>3, <3>3
    <3> QED BY <3>3, <3>4 DEF Flags
  <2> QED BY <2>1, <2>2, <2>3
<1>6. PlaceInv'
  BY <1>3, <1>5 DEF PlaceInv
<1> QED BY <1>5, <1>6

(* Each step of the pointer arithmetic. *)
LEMMA PointerStep ==
  ASSUME ThreadInv, OnItsWay, MemoryTyping, PlaceInv, program = "pointer_arithmetic", Step(main)
  PROVE  /\ PlaceInv'
         /\ Instr(main).op = "assert" => ended' = "no"
<1>1. program \in Single /\ main \in Threads /\ Code(program, input) = pointer_arithmetic
  BY DEF Single, Threads, Code
<1>2. PICK k \in 1 .. 18 : Place = k
  BY <1>1, SinglePlace, PointerPlaces
<1>3. /\ Instr(main) = pointer_arithmetic[k] /\ program' = program
      /\ Continue(main) => Place' = k + 1
  BY <1>1, <1>2, SinglePlace
<1> DEFINE x == NewestOf("atomic_var").val
           p == NewestOf("counter").val
           r == reg[main].val
<1>4. Pointers(k, x, p, r)
  BY <1>2 DEF PlaceInv
<1>5. /\ "atomic_var" \in Locations /\ "counter" \in Locations /\ "atomic_var" # "counter"
      /\ memory'["atomic_var"] = memory["atomic_var"] => x' = x
      /\ memory'["counter"] = memory["counter"] => p' = p
  BY NamedLocations DEF NewestOf
<1>6. CASE k \in {1, 14}
  <2>1. k = 1 => Instr(main) = RMW("atomic_var", "+=", 3, "seq_cst")
    BY <1>3, PointerPlaces DEF AddFetch
  <2>2. k = 14 => Instr(main) = RMW("counter", "+=", -1, "seq_cst")
    BY <1>3, PointerPlaces DEF AddFetch
  <2>3. /\ Instr(main).op = "read_modify_write" /\ Instr(main).how = "+="
        /\ k = 1 => Instr(main).at = "atomic_var" /\ Instr(main).arg = 3
        /\ k = 14 => Instr(main).at = "counter" /\ Instr(main).arg = -1
    BY <1>6, <2>1, <2>2 DEF RMW
  <2>4. /\ Continue(main)
        /\ k = 1 => x' = x + 3 /\ r' = x + 3 /\ memory'["counter"] = memory["counter"]
        /\ k = 14 => p' = p + -1 /\ r' = p + -1 /\ memory'["atomic_var"] = memory["atomic_var"]
    BY <1>1, <1>5, <1>6, <2>3, SingleModify
  <2>5. Place' = k + 1 /\ Instr(main).op # "assert"
    BY <1>3, <2>3, <2>4
  <2> HIDE DEF x, p, r
  <2>6. Pointers(k + 1, x', p', r')
    BY <1>4, <1>5, <1>6, <2>4 DEF Pointers
  <2> QED BY <1>3, <2>5, <2>6 DEF PlaceInv, x, p, r
<1>7. CASE k \in {4, 6}
  <2>1. /\ k = 4 => Instr(main) = RMW("atomic_var", "fetch_add", 3, "seq_cst")
        /\ k = 6 => Instr(main) = RMW("atomic_var", "fetch_add", -2, "seq_cst")
    BY <1>3, PointerPlaces DEF FetchAdd
  <2>2. /\ Instr(main).op = "read_modify_write" /\ Instr(main).how = "fetch_add"
        /\ Instr(main).at = "atomic_var"
        /\ k = 4 => Instr(main).arg = 3
        /\ k = 6 => Instr(main).arg = -2
    BY <1>7, <2>1 DEF RMW
  <2>3. /\ Continue(main) /\ r' = x /\ memory'["counter"] = memory["counter"]
        /\ k = 4 => x' = x + 3
        /\ k = 6 => x' = x + -2
    BY <1>1, <1>5, <1>7, <2>2, SingleModify
  <2>4. Place' = k + 1 /\ Instr(main).op # "assert"
    BY <1>3, <2>2, <2>3
  <2> HIDE DEF x, p, r
  <2>5. Pointers(k + 1, x', p', r')
    BY <1>4, <1>5, <1>7, <2>3 DEF Pointers
  <2> QED BY <1>3, <2>4, <2>5 DEF PlaceInv, x, p, r
<1>8. CASE k \in {10, 18}
  <2>1. /\ k = 10 => Instr(main) = RMW("counter", "fetch_add", 2, "seq_cst")
        /\ k = 18 => Instr(main) = RMW("counter", "fetch_add", 3, "release")
    BY <1>3, PointerPlaces DEF FetchAdd
  <2>2. /\ Instr(main).op = "read_modify_write" /\ Instr(main).how = "fetch_add"
        /\ Instr(main).at = "counter"
        /\ k = 10 => Instr(main).arg = 2
        /\ k = 18 => Instr(main).arg = 3
    BY <1>8, <2>1 DEF RMW
  <2>3. /\ Continue(main) /\ r' = p /\ memory'["atomic_var"] = memory["atomic_var"]
        /\ k = 10 => p' = p + 2
        /\ k = 18 => p' = p + 3
    BY <1>1, <1>5, <1>8, <2>2, SingleModify
  <2>4. Place' = k + 1 /\ Instr(main).op # "assert"
    BY <1>3, <2>2, <2>3
  <2> HIDE DEF x, p, r
  <2>5. Pointers(k + 1, x', p', r')
    BY <1>4, <1>5, <1>8, <2>3 DEF Pointers
  <2> QED BY <1>3, <2>4, <2>5 DEF PlaceInv, x, p, r
<1>9. CASE k \in {2, 8, 12, 16}
  <2>1. /\ k \in {2, 8} => Instr(main) = Load("atomic_var")
        /\ k \in {12, 16} => Instr(main) = Load("counter")
    BY <1>3, PointerPlaces
  <2>2. /\ Instr(main).op = "load"
        /\ k \in {2, 8} => Instr(main).at = "atomic_var"
        /\ k \in {12, 16} => Instr(main).at = "counter"
    BY <1>9, <2>1 DEF Load
  <2>3. /\ Continue(main) /\ memory' = memory
        /\ k \in {2, 8} => r' = x
        /\ k \in {12, 16} => r' = p
    BY <1>1, <1>9, <2>2, SingleLoad
  <2>4. Place' = k + 1 /\ Instr(main).op # "assert" /\ x' = x /\ p' = p
    BY <1>3, <1>5, <2>2, <2>3
  <2> HIDE DEF x, p, r
  <2>5. Pointers(k + 1, x', p', r')
    BY <1>4, <1>9, <2>3, <2>4 DEF Pointers
  <2> QED BY <1>3, <2>4, <2>5 DEF PlaceInv, x, p, r
<1>10. CASE k \in {3, 5, 7, 9, 11, 13, 15, 17}
  <2> DEFINE v == IF k \in {3, 5} THEN 3 ELSE IF k = 7 THEN 6 ELSE IF k = 9 THEN 4
                  ELSE IF k = 11 THEN 0 ELSE IF k = 13 THEN 2 ELSE 1
  <2>1. Instr(main) = Assert("val", v)
    <3>1. CASE k \in {3, 5, 7, 9}
      BY <1>3, <3>1, PointerPlaces
    <3>2. CASE k \in {11, 13, 15, 17}
      BY <1>3, <3>2, PointerPlaces
    <3> QED BY <1>10, <3>1, <3>2
  <2>2. r = v
    BY <1>4, <1>10 DEF Pointers
  <2> HIDE DEF v
  <2>3. Instr(main).op = "assert" /\ Instr(main).reg = "val" /\ Instr(main).arg = v
    BY <2>1 DEF Assert
  <2>4. memory' = memory /\ reg' = reg /\ Continue(main) /\ ended' = "no"
    BY <1>1, <2>2, <2>3, SingleAssert
  <2>5. Place' = k + 1 /\ x' = x /\ p' = p /\ r' = r
    BY <1>3, <1>5, <2>4
  <2> HIDE DEF x, p, r
  <2>6. Pointers(k + 1, x', p', r')
    BY <1>4, <1>10, <2>5 DEF Pointers
  <2> QED BY <1>3, <2>4, <2>5, <2>6 DEF PlaceInv, x, p, r
<1> QED BY <1>6, <1>7, <1>8, <1>9, <1>10

(* What has failed is not forgotten. *)
LEMMA FaultsGrow ==
  ASSUME NEW t \in Threads, Step(t)
  PROVE  faults \subseteq faults'
BY DEF Step, StartThread, StartThrows, JoinThread, DetachThread, NotJoinableThrows,
   MoveThread, SwapThreads, TerminateProgram, EditDocument, Pass, WorkThrows, FlowOffTheEnd,
   Leave, CheckAssertion, AccessData, StoreAtomic, LoadAtomic, AwaitValue, ReadModifyWrite,
   SpinOnFlag, CompareExchange, ExchangeInLoop, Raise, End, OnlyCode, MemoryStep

(* Each step of the example of compare_exchange_weak; without a spurious   *)
(* failure.                                                                *)
LEMMA ExchangeStep ==
  ASSUME ThreadInv, OnItsWay, MemoryTyping, PlaceInv, program = "simple_compare_exchange_weak",
         Step(main)
  PROVE  /\ PlaceInv'
         /\ Instr(main).op = "assert" /\ "spurious" \notin faults => ended' = "no"
<1>1. program \in Single /\ main \in Threads /\ Code(program, input) = simple_compare_exchange_weak
  BY DEF Single, Threads, Code
<1>2. PICK k \in 1 .. 9 : Place = k
  BY <1>1, SinglePlace, ExchangePlaces
<1>3. /\ Instr(main) = simple_compare_exchange_weak[k] /\ program' = program
      /\ Continue(main) => Place' = k + 1
  BY <1>1, <1>2, SinglePlace
<1> DEFINE v == NewestOf("counter").val
           r == reg[main].val
           ok == reg[main].ok
           e == reg[main].expected
<1>4. "spurious" \notin faults => Exchanges(k, v, r, ok, e)
  BY <1>2 DEF PlaceInv
<1>5. memory' = memory => v' = v
  BY DEF NewestOf
<1>6. faults \subseteq faults'
  BY FaultsGrow, <1>1
<1>7. CASE k \in {1, 5}
  <2>1. /\ k = 1 => Instr(main) = Exchange("counter", 0, 33)
        /\ k = 5 => Instr(main) = Exchange("counter", 22, 44)
    BY <1>3, ExchangePlaces
  <2>2. /\ Instr(main).op = "exchange" /\ Instr(main).at = "counter"
        /\ k = 1 => Instr(main).expected = 0 /\ Instr(main).arg = 33
        /\ k = 5 => Instr(main).expected = 22 /\ Instr(main).arg = 44
    BY <1>7, <2>1 DEF Exchange
  <2>3. CompareExchange(main) /\ Loc(main) = "counter"
    BY <1>1, <2>2, StepAt DEF Loc
  <2>4. /\ Continue(main)
        /\ \/ /\ v = Instr(main).expected /\ v' = Instr(main).arg /\ ok' = 1
           \/ /\ memory' = memory /\ ok' = 0 /\ e' = v
              /\ v = Instr(main).expected => "spurious" \in faults'
    BY <1>1, <2>3, ExchangeEffect
  <2>5. Place' = k + 1 /\ Instr(main).op # "assert"
    BY <1>3, <2>2, <2>4
  <2> HIDE DEF v, r, ok, e
  <2>6. "spurious" \notin faults' => Exchanges(k + 1, v', r', ok', e')
    BY <1>4, <1>5, <1>6, <1>7, <2>2, <2>4 DEF Exchanges
  <2> QED BY <1>3, <2>5, <2>6 DEF PlaceInv, v, r, ok, e
<1>8. CASE k \in {2, 6}
  <2>1. Instr(main) = Load("counter")
    BY <1>3, <1>8, ExchangePlaces
  <2>2. Instr(main).op = "load" /\ Instr(main).at = "counter"
    BY <2>1 DEF Load
  <2>3. /\ Continue(main) /\ memory' = memory /\ r' = v /\ ok' = ok /\ e' = e
    BY <1>1, <2>2, SingleLoad
  <2>4. Place' = k + 1 /\ Instr(main).op # "assert" /\ v' = v
    BY <1>3, <1>5, <2>2, <2>3
  <2> HIDE DEF v, r, ok, e
  <2>5. "spurious" \notin faults' => Exchanges(k + 1, v', r', ok', e')
    BY <1>4, <1>6, <1>8, <2>3, <2>4 DEF Exchanges
  <2> QED BY <1>3, <2>4, <2>5 DEF PlaceInv, v, r, ok, e
<1>9. CASE k \in {3, 4, 7, 8, 9}
  <2>1. /\ k \in {3, 7} => Instr(main) = Assert("val", 33)
        /\ k = 4 => Instr(main) = Assert("ok", 1)
        /\ k = 8 => Instr(main) = Assert("ok", 0)
        /\ k = 9 => Instr(main) = Assert("expected", 33)
    BY <1>3, ExchangePlaces
  <2>2. /\ Instr(main).op = "assert"
        /\ k \in {3, 7} => Instr(main).reg = "val" /\ Instr(main).arg = 33
        /\ k = 4 => Instr(main).reg = "ok" /\ Instr(main).arg = 1
        /\ k = 8 => Instr(main).reg = "ok" /\ Instr(main).arg = 0
        /\ k = 9 => Instr(main).reg = "expected" /\ Instr(main).arg = 33
    BY <1>9, <2>1 DEF Assert
  <2>3. "spurious" \notin faults => reg[main][Instr(main).reg] = Instr(main).arg
    BY <1>4, <1>9, <2>2 DEF Exchanges
  <2>4. /\ memory' = memory /\ reg' = reg
        /\ "spurious" \notin faults => Continue(main) /\ ended' = "no"
    BY <1>1, <2>2, <2>3, SingleAssert
  <2>5. /\ "spurious" \notin faults => Place' = k + 1
        /\ v' = v /\ r' = r /\ ok' = ok /\ e' = e
    BY <1>3, <1>5, <2>4
  <2> HIDE DEF v, r, ok, e
  <2>6. "spurious" \notin faults => Exchanges(k + 1, v', r', ok', e')
    BY <1>4, <1>9, <2>5 DEF Exchanges
  <2> QED BY <1>3, <1>6, <2>4, <2>5, <2>6 DEF PlaceInv, v, r, ok, e
<1> QED BY <1>7, <1>8, <1>9

-----------------------------------------------------------------------------
(* Assertions *)

(* The first place of each of them. *)
LEMMA PlaceInit == Init => PlaceInv
<1> SUFFICES ASSUME Init, program \in Single PROVE PlaceInv
  BY DEF PlaceInv, Single
<1>1. input = NoInput /\ code[main] = Code(program, input)
  <2>1. code[main] = Code(program, input)
    BY DEF Init, Threads
  <2>2. Inputs(program) = {NoInput}
    <3>1. /\ (program = "parallel_accumulate") = FALSE
          /\ (program = "spinlock_mutex") = FALSE
          /\ (program = "multithread_compare_exchange_weak") = FALSE
          /\ (program = "release_sequence") = FALSE
      BY DEF Single
    <3> QED BY <3>1 DEF Inputs
  <2> QED BY <2>1, <2>2 DEF Init
<1>2. Len(Code(program, input)) \in Nat
  <2>1. /\ program = "atomic_flag" => Code(program, input) = atomic_flag
        /\ program = "pointer_arithmetic" => Code(program, input) = pointer_arithmetic
        /\ program = "simple_compare_exchange_weak" =>
             Code(program, input) = simple_compare_exchange_weak
    BY DEF Code
  <2> QED BY <2>1, AtomicFlagPlaces, PointerPlaces, ExchangePlaces DEF Single
<1>3. Place = 1
  <2> HIDE DEF Code
  <2>1. PICK n \in Nat : n = Len(Code(program, input))
    BY <1>2
  <2>2. Place = n - n + 1
    BY <1>1, <2>1 DEF Place
  <2> QED BY <2>2
<1>4. \A x \in {"flag", "counter", "atomic_var"} : NewestOf(x).val = 0
  <2> TAKE x \in {"flag", "counter", "atomic_var"}
  <2>1. x \in Locations /\ input.initial = 0
    BY <1>1, NamedLocations DEF NoInput
  <2>2. memory[x] = <<Message(0, {})>>
    BY <2>1 DEF Init
  <2> QED BY <2>2 DEF NewestOf, Message
<1>5. "spurious" \notin faults
  BY DEF Init
<1> QED BY <1>3, <1>4, <1>5 DEF PlaceInv, Flags, Pointers, Exchanges

(* Every step. *)
LEMMA PlaceStep ==
  ASSUME ThreadInv, OnItsWay, MemoryTyping, PlaceInv, [Next]_vars
  PROVE  PlaceInv'
<1>1. CASE UNCHANGED vars
  BY <1>1 DEF vars, objects, atomics, PlaceInv, Place, NewestOf
<1>2. ASSUME NEW t \in Threads, Step(t) PROVE PlaceInv'
  <2>1. program' = program
    BY <1>2, SameProgram
  <2>2. CASE program \notin Single
    BY <2>1, <2>2 DEF PlaceInv, Single
  <2>3. CASE program \in Single
    <3>1. t = main
      BY <1>2, <2>3, SinglePlace
    <3> QED BY <1>2, <2>3, <3>1, FlagStep, PointerStep, ExchangeStep DEF Single
  <2> QED BY <2>2, <2>3
<1>3. ASSUME NEW h \in {1, 2}, NEW g \in {1, 2}, CallAutoJoining(h, g) PROVE PlaceInv'
  BY <1>3 DEF CallAutoJoining, OnlyCode, PlaceInv
<1> QED BY <1>1, <1>2, <1>3 DEF Next

(* What main executes in the programs that collect threads; only           *)
(* parallel_accumulate accesses data.                                      *)
LEMMA MainRuns ==
  ASSUME ThreadInv, OnItsWay, program \in Collecting, code[main] # <<>>
  PROVE  /\ Instr(main).op \in {"start", "join", "destroy", "end_lifetime", "access"}
         /\ program # "parallel_accumulate" => Instr(main).op # "access"
<1>1. program \in Placed /\ main \in Threads
  BY MainIsNoWorker DEF Placed
<1>2. MainOps(program) = IF program = "parallel_accumulate"
                         THEN {"access", "join", "destroy", "end_lifetime"} ELSE {"join", "destroy"}
  BY DEF MainOps, Collecting, Single
<1>3. CASE "start" \in faults
  BY <1>1, <1>3, WhereItIs
<1>4. CASE "start" \notin faults
  <2> DEFINE n == Starts(program, input)
             k == Len(Code(program, input)) - Len(code[main]) + 1
  <2>1. /\ k <= n => Instr(main).op = "start"
        /\ k > n => Instr(main).op \in MainOps(program)
        /\ Len(Code(program, input)) \in Nat /\ k \in 1 .. Len(Code(program, input))
    BY <1>1, <1>4, WhereItIs
  <2>2. n \in Nat
    BY <1>1, AllStartFirst DEF StartsFirst, Placed, ThreadInv, Typing
  <2> HIDE DEF n, k
  <2>3. k <= n \/ k > n
    BY <2>1, <2>2
  <2> QED BY <1>2, <2>1, <2>3
<1> QED BY <1>3, <1>4

(* What their threads execute, in the order of their bodies. *)
LEMMA WorkerRuns ==
  ASSUME ThreadInv, OnItsWay, NEW t \in Threads, t # main, code[t] # <<>>
  PROVE  /\ program = "spinlock_mutex" =>
              /\ Instr(t).op \in {"spin", "access", "store"}
              /\ Instr(t).op = "access" => Instr(t).at = "counter" /\ Inside(t)
         /\ program = "multithread_compare_exchange_weak" => Instr(t).op \in {"load", "exchange_loop"}
         /\ program = "parallel_accumulate" =>
              Instr(t) = Access(results[t], "add", SumOf(block(input, t - 1)))
<1> DEFINE b == Body(program, input, t)
<1>1. ASSUME program \in Collecting
      PROVE  t \in 1 .. MaxThreads /\ Len(code[t]) \in 1 .. Len(b) /\ Instr(t) = b[Len(b) - Len(code[t]) + 1]
  BY <1>1, WorkerAt DEF Placed
<1>2. ASSUME program = "spinlock_mutex"
      PROVE  /\ Instr(t).op \in {"spin", "access", "store"}
             /\ Instr(t).op = "access" => Instr(t).at = "counter" /\ Inside(t)
  <2>1. b = Counting \o Counting
    BY <1>2 DEF Body
  <2>2. PICK l : l = Len(code[t])
    OBVIOUS
  <2>3. Len(Counting \o Counting) = 6
    BY LockBody
  <2>4. l \in 1 .. 6 /\ Instr(t) = (Counting \o Counting)[6 - l + 1]
    BY <1>1, <1>2, <2>1, <2>2, <2>3 DEF Collecting
  <2>5. /\ l \in {6, 3} => Instr(t) = Spin("flag", "acquire") /\ ~ Inside(t)
        /\ l \in {5, 2} => Instr(t) = Access("counter", "add", 1) /\ Inside(t)
        /\ l \in {4, 1} => Instr(t) = Store("flag", 0, "release") /\ Inside(t)
    BY <2>2, <2>4, LockPlaces
  <2>6. l \in {6, 3} \/ l \in {5, 2} \/ l \in {4, 1}
    BY <2>4
  <2> QED BY <2>5, <2>6 DEF Spin, Access, Store
<1>3. ASSUME program = "multithread_compare_exchange_weak"
      PROVE  Instr(t).op \in {"load", "exchange_loop"}
  <2>1. b = increment_with_loop
    BY <1>3 DEF Body
  <2>2. PICK l : l = Len(code[t])
    OBVIOUS
  <2>3. l \in 1 .. 2 /\ Instr(t) = increment_with_loop[2 - l + 1]
    BY <1>1, <1>3, <2>1, <2>2, LoopBody DEF Collecting
  <2>4. CASE l = 1
    BY <2>3, <2>4, LoopBody DEF ExchangeLoop
  <2>5. CASE l = 2
    BY <2>3, <2>5, LoopBody DEF Load
  <2> QED BY <2>3, <2>4, <2>5
<1>4. ASSUME program = "parallel_accumulate"
      PROVE  Instr(t) = Access(results[t], "add", SumOf(block(input, t - 1)))
  <2> DEFINE a == Access(results[t - 1 + 1], "add", SumOf(block(input, t - 1)))
  <2>1. b = <<a>>
    BY <1>4 DEF Body, accumulate_block
  <2> HIDE DEF a
  <2>2. Len(b) = 1 /\ b[1] = a
    BY <2>1
  <2>3. PICK l : l = Len(code[t])
    OBVIOUS
  <2> HIDE DEF b
  <2>4. l = 1 /\ Instr(t) = b[1 - l + 1]
    BY <1>1, <1>4, <2>2, <2>3 DEF Collecting
  <2>5. Instr(t) = a
    BY <2>2, <2>4
  <2>6. t \in 1 .. MaxThreads
    BY <1>1, <1>4 DEF Collecting
  <2>7. t - 1 + 1 = t
    BY <2>6
  <2> QED BY <2>5, <2>7 DEF a
<1> QED BY <1>2, <1>3, <1>4

(* The spinlock excludes: no two threads are between lock and unlock, for  *)
(* any number of threads and every value that a load may return.           *)
THEOREM SpinlockExcludesTheorem == Spec => []SpinlockExcludes
<1>1. ASSUME ThreadInv, OnItsWay, LockInv PROVE SpinlockExcludes
  <2>1. ASSUME NEW t \in Threads, InSection(t)
        PROVE  program = "spinlock_mutex" /\ t \in 1 .. started /\ Inside(t)
    <3>1. /\ program = "spinlock_mutex" /\ code[t] # <<>>
          /\ Instr(t).op \in {"access", "store"}
      BY <2>1 DEF InSection, At, Instr
    <3>2. t # main
      <4>1. CASE t = main
        <5>1. Instr(main).op \in {"start", "join", "destroy", "end_lifetime"}
          BY <1>1, <3>1, <4>1, CountersPlaced, MainRuns DEF Counters
        <5> QED BY <5>1, <3>1, <4>1
      <4> QED BY <4>1
    <3>3. Body(program, input, t) = Counting \o Counting
      BY <3>1 DEF Body
    <3>4. /\ t \in 1 .. started /\ Len(code[t]) \in 1 .. 6
          /\ Instr(t) = (Counting \o Counting)[6 - Len(code[t]) + 1]
      BY <1>1, <3>1, <3>2, <3>3, CountersPlaced, WorkerAt, LockBody DEF Counters
    <3>5. PICK l \in 1 .. 6 : l = Len(code[t])
      BY <3>4
    <3>6. CASE l \in {6, 3}
      <4>1. Instr(t) = Spin("flag", "acquire")
        BY <3>4, <3>5, <3>6, LockPlaces
      <4> QED BY <4>1, <3>1 DEF Spin
    <3>7. CASE l \in {5, 2, 4, 1}
      BY <3>1, <3>4, <3>5, <3>7, LockPlaces
    <3> QED BY <3>5, <3>6, <3>7
  <2> QED BY <2>1, <1>1 DEF SpinlockExcludes, LockInv
<1>2. ThreadInv /\ OnItsWay /\ LockInv => SpinlockExcludes
  BY <1>1
<1>3. Spec => []LockInv
  BY CountingTheorem, PTL
<1> QED BY <1>2, <1>3, OnItsWayAlways, ThreadInvariant, PTL

(* Which programs are left, once the ones that share nothing are excluded. *)
LEMMA AllPrograms ==
  ASSUME ThreadInv
  PROVE  program \in CalmPrograms \cup LocalPrograms \cup Single \cup Collecting
BY ThreadProgramsAssumption DEF ThreadInv, Typing, CalmPrograms, LocalPrograms, Single, Collecting

(* What the programs with a local of main execute. *)
LEMMA LocalRuns ==
  ASSUME ThreadInv, LocalInv, program \in LocalPrograms, NEW t \in Threads, code[t] # <<>>
  PROVE  IF t = main THEN Instr(t).op \in LocalOps \cup {"start"}
         ELSE /\ t = 1 /\ Instr(t) = Access("someLocalState", "add", 1)
              /\ view[t]["someLocalState"] = Len(memory["someLocalState"])
<1>1. CASE t = main
  BY <1>1, StartsOneNext, OnlyNext DEF LocalInv, Instr
<1>2. CASE t # main
  <2>1. t \in Nat /\ t >= 1 /\ started \in {0, 1} /\ ~ (t > started)
    <3>1. t \in Workers /\ t \in Nat /\ t >= 1
      BY <1>2 DEF Threads, Workers
    <3> QED BY <3>1 DEF ThreadInv, Unstarted, LocalInv
  <2>2. t = 1 /\ started = 1
    BY <2>1
  <2>3. /\ IsSequence(code[1])
        /\ \A i \in 1 .. Len(code[1]) : code[1][i] = Access("someLocalState", "add", 1)
        /\ view[1]["someLocalState"] = Len(memory["someLocalState"])
    BY <2>2 DEF LocalInv
  <2>4. Len(code[1]) >= 1 /\ Head(code[1]) = code[1][1] /\ Len(code[1]) \in Nat
    BY <2>2, <2>3, TailSequence DEF IsSequence
  <2> QED BY <1>2, <2>2, <2>3, <2>4 DEF Instr
<1> QED BY <1>1, <1>2

(* What the programs that share nothing execute. *)
LEMMA CalmRuns ==
  ASSUME CalmInv, program \in CalmPrograms, NEW t \in Threads, code[t] # <<>>
  PROVE  Instr(t).op \in CalmOps
BY OnlyNext DEF CalmInv, Instr

(* The assertion of the consumer does not end the program before C++20. *)
LEMMA ConsumerRuns ==
  ASSUME ThreadInv, OnItsWay, MemoryTyping, ReleaseSequenceInv, Standard,
         NEW t \in Threads, t # main, Step(t), Instr(t).op = "assert"
  PROVE  ended' = "no"
<1>1. /\ t \in {1, 2}
      /\ t = 1 => Left(1, 4) \in 1 .. 4 /\ Instr(t) = producer[4 - Left(1, 4) + 1]
      /\ t = 2 => Left(2, 3) \in 1 .. 3 /\ Instr(t) = consumer[3 - Left(2, 3) + 1]
  BY WorkerLeft DEF Standard
<1>2. t # 1
  <2> SUFFICES ASSUME t = 1 PROVE FALSE
    OBVIOUS
  <2>1. PICK l \in 1 .. 4 : Instr(t) = producer[4 - l + 1]
    BY <1>1
  <2>2. CASE l = 4
    BY <2>1, <2>2, ReleaseBodies DEF Access
  <2>3. CASE l \in {1, 3}
    BY <2>1, <2>3, ReleaseBodies DEF Store
  <2>4. CASE l = 2
    BY <2>1, <2>4, ReleaseBodies DEF RMW
  <2> QED BY <2>2, <2>3, <2>4
<1>3. t = 2 /\ Left(2, 3) \in 1 .. 3
  BY <1>1, <1>2
<1>4. Left(2, 3) = 1
  <2>1. PICK l \in 1 .. 3 : l = Left(2, 3)
    BY <1>3
  <2>2. Instr(t) = consumer[3 - l + 1]
    BY <1>1, <1>3, <2>1
  <2>3. l # 3
    BY <2>2, ReleaseBodies DEF Await
  <2>4. l # 2
    BY <2>2, ReleaseBodies DEF Access
  <2> QED BY <2>1, <2>3, <2>4
<1> QED BY <1>3, <1>4, ConsumerAsserts

(* An assertion fails in no other cases. *)
LEMMA AssertionStep ==
  ASSUME ThreadInv, OnItsWay, MemoryTyping, CalmInv, LocalInv, PlaceInv, ReleaseSequenceInv,
         NEW t \in Threads, Step(t), ended' = "assertion_failed"
  PROVE  AssertionsHold'
<1>1. code[t] # <<>> /\ ended = "no" /\ program' = program /\ input' = input
      /\ faults \subseteq faults'
  BY StepAt, SameProgram, FaultsGrow
<1>2. Instr(t).op = "assert"
  <2>1. CheckAssertion(t)
    BY <1>1 DEF Step, StartThread, StartThrows, JoinThread, DetachThread, NotJoinableThrows,
       MoveThread, SwapThreads, TerminateProgram, EditDocument, Pass, WorkThrows, FlowOffTheEnd,
       Leave, AccessData, StoreAtomic, LoadAtomic, AwaitValue, ReadModifyWrite,
       SpinOnFlag, CompareExchange, ExchangeInLoop, Raise, End, OnlyCode, MemoryStep
  <2> QED BY <2>1 DEF CheckAssertion, At, Instr
<1>3. program \notin CalmPrograms
  BY <1>1, <1>2, CalmRuns DEF CalmOps, LocalOps
<1>4. program \notin LocalPrograms
  <2> SUFFICES ASSUME program \in LocalPrograms PROVE FALSE
    OBVIOUS
  <2>1. CASE t = main
    BY <1>1, <1>2, <2>1, LocalRuns DEF LocalOps
  <2>2. CASE t # main
    BY <1>1, <1>2, <2>2, LocalRuns DEF Access
  <2> QED BY <2>1, <2>2
<1>5. CASE program \in Single
  <2>1. t = main
    BY <1>5, SinglePlace
  <2>2. program = "simple_compare_exchange_weak" /\ "spurious" \in faults
    BY <1>2, <1>5, <2>1, FlagStep, PointerStep, ExchangeStep DEF Single
  <2> QED BY <1>1, <2>2 DEF AssertionsHold
<1>6. CASE program \in Collecting
  <2>1. t # main
    BY <1>1, <1>2, <1>6, MainRuns
  <2>2. program = "release_sequence"
    BY <1>1, <1>2, <1>6, <2>1, WorkerRuns DEF Collecting, Access
  <2>3. ~ (input.standard < 20)
    BY <1>2, <2>1, <2>2, ConsumerRuns DEF Standard
  <2>4. input.standard \in {17, 20}
    <3>1. input \in {[NoInput EXCEPT !.standard = s] : s \in {17, 20}}
      BY <2>2 DEF ThreadInv, Typing, Inputs
    <3> QED BY <3>1 DEF NoInput
  <2> QED BY <1>1, <2>2, <2>3, <2>4 DEF AssertionsHold
<1> QED BY <1>3, <1>4, <1>5, <1>6, AllPrograms

(* All of the invariants that a race or an assertion depends on. *)
PlacesInv == /\ ThreadInv /\ OnItsWay /\ MemoryTyping
             /\ CalmInv /\ LocalInv /\ PlaceInv /\ ReleaseSequenceInv

(* They hold in every reachable state. *)
LEMMA PlacesInvariant == Spec => []PlacesInv
<1>1. Spec => [](ThreadInv /\ MemoryTyping /\ OnItsWay)
  BY ThreadInvariant, MemoryTypingTheorem, OnItsWayAlways, PTL
<1>2. Spec => []CalmInv
  <2>1. ThreadInv /\ CalmInv /\ [Next]_vars => CalmInv'
    BY CalmStep
  <2> QED BY <1>1, <2>1, CalmInit, PTL DEF Spec
<1>3. Spec => []LocalInv
  <2>1. ThreadInv /\ MemoryTyping /\ LocalInv /\ [Next]_vars => LocalInv'
    BY LocalStep
  <2> QED BY <1>1, <2>1, LocalInit, PTL DEF Spec
<1>4. Spec => []PlaceInv
  <2>1. ThreadInv /\ OnItsWay /\ MemoryTyping /\ PlaceInv /\ [Next]_vars => PlaceInv'
    BY PlaceStep
  <2> QED BY <1>1, <2>1, PlaceInit, PTL DEF Spec
<1> QED BY <1>1, <1>2, <1>3, <1>4, ReleaseTheorem, PTL DEF PlacesInv

(* Every assertion of Chapter 5, the comments beside the output of         *)
(* 3_PointerArithmetic included, holds in every execution, except after a  *)
(* compare_exchange_weak that failed spuriously, and for the consumer of   *)
(* the release sequence since C++20.                                       *)
THEOREM AssertionsHoldTheorem == Spec => []AssertionsHold
<1>1. Init => AssertionsHold
  BY DEF Init, AssertionsHold
<1>2. ASSUME PlacesInv, AssertionsHold, [Next]_vars PROVE AssertionsHold'
  <2>1. CASE UNCHANGED vars
    BY <1>2, <2>1 DEF vars, AssertionsHold
  <2>2. ASSUME NEW t \in Threads, Step(t) PROVE AssertionsHold'
    <3>1. CASE ended' = "assertion_failed"
      BY <1>2, <2>2, <3>1, AssertionStep DEF PlacesInv
    <3>2. CASE ended' # "assertion_failed"
      BY <3>2 DEF AssertionsHold
    <3> QED BY <3>1, <3>2
  <2>3. ASSUME NEW h \in {1, 2}, NEW g \in {1, 2}, CallAutoJoining(h, g) PROVE AssertionsHold'
    BY <1>2, <2>3 DEF CallAutoJoining, OnlyCode, AssertionsHold
  <2> QED BY <1>2, <2>1, <2>2, <2>3 DEF Next
<1>3. PlacesInv /\ AssertionsHold /\ [Next]_vars => AssertionsHold'
  BY <1>2
<1> QED BY <1>1, <1>3, PlacesInvariant, PTL DEF Spec

-----------------------------------------------------------------------------
(* Sums of elements of the range *)

(* Element i of the range is 2^i. *)
Powers(R) == [i \in R |-> 2 ^ i]

(* Sums of disjoint sets. *)
LEMMA SumOfPart ==
  ASSUME NEW R, NEW S, S \subseteq R, IsFiniteSet(S)
  PROVE  SumOf(S) = SumFunctionOnSet(Powers(R), S)
<1>1. \A x \in S : [i \in S |-> 2 ^ i][x] = Powers(R)[x]
  BY DEF Powers
<1> QED BY <1>1, SumSame DEF SumOf

(* The sum over two disjoint sets of elements. *)
LEMMA SumOfUnion ==
  ASSUME NEW S, NEW T, IsFiniteSet(S), IsFiniteSet(T), S \subseteq Nat, T \subseteq Nat,
         S \cap T = {}
  PROVE  SumOf(S \cup T) = SumOf(S) + SumOf(T)
<1> DEFINE R == S \cup T
<1>1. \A x \in S \cup T : Powers(R)[x] \in Int
  <2>1. \A x \in Nat : 2 ^ x \in Int
    OBVIOUS
  <2> QED BY <2>1 DEF Powers
<1>2. IsFiniteSet(S \cup T) /\ S \subseteq R /\ T \subseteq R /\ S \cup T \subseteq R
  BY FS_Union
<1> HIDE DEF R
<1>3. SumFunctionOnSet(Powers(R), S \cup T) =
        SumFunctionOnSet(Powers(R), S) + SumFunctionOnSet(Powers(R), T)
  BY <1>1, SumUnion
<1>4. /\ SumOf(S) = SumFunctionOnSet(Powers(R), S)
      /\ SumOf(T) = SumFunctionOnSet(Powers(R), T)
      /\ SumOf(S \cup T) = SumFunctionOnSet(Powers(R), S \cup T)
  BY <1>2, SumOfPart
<1> QED BY <1>3, <1>4

(* The last element of the range, as which init counts. *)
LEMMA SumOfRange ==
  ASSUME NEW n \in Nat
  PROVE  SumOf(0 .. n) = 2 ^ n + SumOf(0 .. n - 1) /\ 2 ^ n \in Int
<1>1. 2 ^ n \in Int
  OBVIOUS
<1>2. SumOf({n}) = 2 ^ n
  <2> DEFINE f == [i \in {n} |-> 2 ^ i]
  <2>1. f[n] = 2 ^ n /\ \A x \in {n} : f[x] \in Int
    BY <1>1
  <2>2. SumOf({n}) = SumFunctionOnSet(f, {n})
    BY DEF SumOf
  <2> HIDE DEF f
  <2>3. IsFiniteSet({n}) /\ {n} \ {n} = {}
    BY FS_Singleton
  <2>4. SumFunctionOnSet(f, {n}) = f[n] + SumFunctionOnSet(f, {n} \ {n})
    BY <2>1, <2>3, SumRemove
  <2>5. SumFunctionOnSet(f, {n} \ {n}) = 0
    BY <2>3, SumOfNothing
  <2> QED BY <1>1, <2>1, <2>2, <2>4, <2>5
<1> DEFINE T == 0 .. n - 1
<1>3. /\ {n} \cup T = 0 .. n /\ {n} \cap T = {}
      /\ {n} \subseteq Nat /\ T \subseteq Nat
  OBVIOUS
<1>4. IsFiniteSet(T) /\ IsFiniteSet({n})
  <2>1. 0 \in Int /\ n - 1 \in Int
    OBVIOUS
  <2>2. IsFiniteSet(0 .. n - 1)
    BY <2>1, FS_Interval
  <2> QED BY <2>2, FS_Singleton
<1> HIDE DEF T
<1>5. SumOf({n} \cup T) = SumOf({n}) + SumOf(T)
  BY <1>3, <1>4, SumOfUnion
<1> QED BY <1>1, <1>2, <1>3, <1>5 DEF T

-----------------------------------------------------------------------------
(* The results of parallel_accumulate *)

(* parallel_accumulate on a range that is not empty. *)
Accumulating == program = "parallel_accumulate" /\ input.length # 0

(* The sum of the block of thread i; main has the last one. *)
Block(i) == SumOf(block(input, i - 1))

(* Thread i has added its block. *)
Added(i) == i <= started /\ code[i] = <<>>

(* t has seen every access to x. *)
Knows(t, x)  == view[t][x] = Len(memory[x])
(* Nothing was added to x. *)
Untouched(x) == Len(memory[x]) = 1 /\ NewestOf(x).val = 0

(* The result of thread i: the thread adds to it, then main joins it. *)
Slot(i, n) ==
  /\ ~ Added(i) => Untouched(results[i])
  /\ Added(i) => NewestOf(results[i]).val = Block(i)
  /\ "start" \notin faults /\ Place <= n + i =>
       /\ i <= started => handle[i] = i
       /\ Added(i) => Knows(i, results[i])
  /\ "start" \notin faults /\ Place > n + i => Added(i) /\ Knows(main, results[i])

(* The results that main has added up at place k, and their sum. *)
Collected(k, n) == IF k <= 2 * n THEN 0 ELSE IF k <= 3 * n THEN k - 2 * n ELSE n

(* The elements of the first m blocks, and their sum. *)
Blocks(in, m)  == UNION {block(in, k) : k \in 0 .. m - 1}
Partial(in, m) == SumOf(Blocks(in, m))

(* The result of main itself, and what it returns. *)
OwnSlot(n) ==
  "start" \notin faults =>
    /\ Place <= n => Untouched(results[n])
    /\ Place > n => Knows(main, results[n]) /\ NewestOf(results[n]).val = Block(n)
    /\ reg[main].val = input.initial + Partial(input, Collected(Place, n))

(* Each result is 0 or the sum of its block, and main has added up what    *)
(* its place says.                                                         *)
AccumulateInv ==
  Accumulating =>
    LET n == num_threads(input)
    IN  (\A i \in 1 .. n - 1 : Slot(i, n)) /\ OwnSlot(n)

(* No block is nothing. *)
LEMMA NothingAdded == \A in : Partial(in, 0) = 0
<1>1. \A in : Blocks(in, 0) = {}
  BY DEF Blocks
<1>2. SumOf({}) = 0
  BY SumOfNothing DEF SumOf
<1> QED BY <1>1, <1>2 DEF Partial

(* The first blocks are finite sets of elements of the range. *)
LEMMA BlocksFinite ==
  ASSUME NEW in \in Inputs("parallel_accumulate"), in.length # 0,
         NEW m \in 0 .. num_threads(in)
  PROVE  /\ Blocks(in, m) \subseteq 0 .. in.length - 1
         /\ Blocks(in, m) \subseteq Nat /\ IsFiniteSet(Blocks(in, m))
         /\ Partial(in, m) \in Int
<1> DEFINE n == num_threads(in)
           l == in.length
<1>1. n \in Nat /\ l - 1 \in Nat
  BY ThreadsOfAccumulate
<1>2. \A k \in 0 .. n - 1 : block(in, k) \subseteq 0 .. l - 1
  BY ThreadsOfAccumulate, BlocksPartition
<1> HIDE DEF n, l
<1>3. \A k \in 0 .. m - 1 : k \in 0 .. n - 1
  BY <1>1 DEF n
<1>4. Blocks(in, m) \subseteq 0 .. l - 1
  BY <1>2, <1>3 DEF Blocks
<1>5. IsFiniteSet(0 .. l - 1) /\ 0 .. l - 1 \subseteq Nat
  <2>1. 0 \in Int /\ l - 1 \in Int
    BY <1>1
  <2> QED BY <2>1, FS_Interval
<1>6. Blocks(in, m) \subseteq Nat /\ IsFiniteSet(Blocks(in, m))
  BY <1>4, <1>5, FS_Subset
<1>7. Partial(in, m) \in Int
  BY <1>1, <1>4, SumOfType DEF Partial
<1> QED BY <1>4, <1>6, <1>7 DEF l

(* One more block adds its sum, because the blocks are disjoint. *)
LEMMA OneMore ==
  ASSUME NEW in \in Inputs("parallel_accumulate"), in.length # 0,
         NEW m \in 0 .. num_threads(in) - 1
  PROVE  Partial(in, m + 1) = Partial(in, m) + SumOf(block(in, m))
<1> DEFINE n == num_threads(in)
           l == in.length
           b == block(in, m)
<1>1. n \in Nat /\ m \in 0 .. n - 1 /\ m \in 0 .. n /\ m + 1 \in 0 .. n
  BY ThreadsOfAccumulate
<1>2. /\ \A k \in 0 .. n - 1 : block(in, k) \subseteq 0 .. l - 1
      /\ \A e \in 0 .. l - 1 :
           \E k \in 0 .. n - 1 :
             /\ e \in block(in, k)
             /\ \A j \in 0 .. n - 1 : e \in block(in, j) => j = k
  BY ThreadsOfAccumulate, BlocksPartition
<1>3. Blocks(in, m) \subseteq Nat /\ IsFiniteSet(Blocks(in, m))
  BY <1>1, BlocksFinite
<1>4. Blocks(in, m + 1) \subseteq Nat /\ IsFiniteSet(Blocks(in, m + 1))
  BY <1>1, BlocksFinite
<1> HIDE DEF n, l
<1>5. Blocks(in, m + 1) = Blocks(in, m) \cup b
  <2>1. \A k : k \in 0 .. (m + 1) - 1 <=> k \in 0 .. m - 1 \/ k = m
    BY <1>1
  <2> QED BY <2>1 DEF Blocks
<1>6. Blocks(in, m) \cap b = {}
  <2> SUFFICES ASSUME NEW e \in b, NEW k \in 0 .. m - 1, e \in block(in, k)
               PROVE  FALSE
    BY DEF Blocks
  <2>1. k \in 0 .. n - 1 /\ k # m
    BY <1>1
  <2>2. e \in 0 .. l - 1
    BY <1>1, <1>2
  <2> QED BY <1>1, <1>2, <2>1, <2>2
<1>7. b \subseteq Nat /\ IsFiniteSet(b)
  BY <1>4, <1>5, FS_Subset
<1> HIDE DEF b
<1>8. SumOf(Blocks(in, m) \cup b) = SumOf(Blocks(in, m)) + SumOf(b)
  BY <1>3, <1>6, <1>7, SumOfUnion
<1> QED BY <1>5, <1>8 DEF Partial, b

(* Each thread has its own result. *)
LEMMA ResultsDiffer == \A i, j \in 1 .. MaxThreads : results[i] = results[j] => i = j
BY ThreadProgramsAssumption DEF IsInjective

(* What is known of the program and its input. *)
LEMMA AccumulateFacts ==
  ASSUME ThreadInv, Accumulating, NEW n, n = num_threads(input)
  PROVE  /\ n \in 1 .. MaxThreads /\ program \in Placed /\ program \in Collecting
         /\ input \in Inputs("parallel_accumulate") /\ input.length # 0
         /\ Starts(program, input) = n - 1
         /\ IsAccumulate(Code(program, input), input, n)
         /\ \A i \in 1 .. n : Block(i) \in Int
         /\ input.initial \in Int
<1>1. input \in Inputs("parallel_accumulate") /\ input.length # 0 /\ program = "parallel_accumulate"
  BY DEF Accumulating, ThreadInv, Typing
<1>2. n \in 1 .. MaxThreads /\ \A k \in 0 .. n - 1 : SumOf(block(input, k)) \in Int
  BY <1>1, ThreadsOfAccumulate
<1>3. \A i \in 1 .. n : i - 1 \in 0 .. n - 1
  BY <1>2
<1>4. IsAccumulate(Code(program, input), input, n)
  BY <1>1, AccumulatePlaces
<1>5. Starts(program, input) = n - 1
  BY <1>1 DEF Starts
<1>6. input.initial \in Int
  BY <1>1, InputTypes
<1> QED BY <1>1, <1>2, <1>3, <1>4, <1>5, <1>6 DEF Block, Placed, Collecting

(* What main executes, while every thread could be started. *)
LEMMA AccumulateAt ==
  ASSUME ThreadInv, OnItsWay, Accumulating, "start" \notin faults, code[main] # <<>>,
         NEW n, n = num_threads(input)
  PROVE  /\ Place \in 1 .. 5 * n - 2
         /\ Place < n => started = Place - 1 /\ Instr(main).op = "start" /\ Instr(main).handle = Place
         /\ Place >= n => started = n - 1
         /\ Place = n => Instr(main) = Access(results[n], "add", Block(n))
         /\ Place > n /\ Place < 2 * n => Instr(main).op = "join" /\ Instr(main).handle = Place - n
         /\ Place >= 2 * n /\ Place < 3 * n =>
              Instr(main) = Access(results[Place - 2 * n + 1], "collect", 0)
         /\ Place >= 3 * n => Instr(main).op \in {"destroy", "end_lifetime"}
<1> DEFINE c == Code(program, input)
<1>1. n \in 1 .. MaxThreads /\ program \in Placed /\ IsAccumulate(c, input, n) /\ Starts(program, input) = n - 1
  BY AccumulateFacts
<1>2. /\ Place \in 1 .. Len(c) /\ Instr(main) = c[Place]
      /\ Place <= n - 1 => started = Place - 1
      /\ Place > n - 1 => started = n - 1
  BY <1>1, MainAt
<1>3. PICK k : k = Place
  OBVIOUS
<1>4. Len(c) = 5 * n - 2 /\ k \in 1 .. 5 * n - 2
  <2>1. Len(c) = n + (n - 1) + n + (n - 1) + n
    BY <1>1 DEF IsAccumulate
  <2>2. PICK l : l = Len(c)
    OBVIOUS
  <2>3. l = 5 * n - 2
    BY <2>1, <2>2, <1>1
  <2> QED BY <2>2, <2>3, <1>2, <1>3
<1> HIDE DEF c
<1>5. ASSUME k < n PROVE started = k - 1 /\ Instr(main).op = "start" /\ Instr(main).handle = k
  <2>1. k \in 1 .. n - 1 /\ k <= n - 1
    BY <1>1, <1>4, <1>5
  <2>2. c[k].op = "start" /\ c[k].handle = k
    BY <2>1, <1>1 DEF IsAccumulate
  <2> QED BY <2>1, <2>2, <1>2, <1>3
<1>6. ASSUME k >= n PROVE started = n - 1
  <2>1. k > n - 1
    BY <1>1, <1>4, <1>6
  <2> QED BY <2>1, <1>2, <1>3
<1>7. k = n => Instr(main) = Access(results[n], "add", Block(n))
  BY <1>1, <1>2, <1>3 DEF IsAccumulate, Block
<1>8. ASSUME k > n, k < 2 * n PROVE Instr(main).op = "join" /\ Instr(main).handle = k - n
  <2>1. k - n \in 1 .. n - 1 /\ n + (k - n) = k
    BY <1>1, <1>4, <1>8
  <2>2. c[n + (k - n)].op = "join" /\ c[n + (k - n)].handle = k - n
    BY <2>1, <1>1 DEF IsAccumulate
  <2> QED BY <2>1, <2>2, <1>2, <1>3
<1>9. ASSUME k >= 2 * n, k < 3 * n
      PROVE  Instr(main) = Access(results[k - 2 * n + 1], "collect", 0)
  <2> DEFINE i == k - 2 * n + 1
  <2>0. n \in 1 .. MaxThreads /\ k \in 1 .. 5 * n - 2
    BY <1>1, <1>4
  <2>1. i \in 1 .. n /\ n + (n - 1) + i = k
    BY ONLY <2>0, <1>9
  <2> HIDE DEF i
  <2>2. c[n + (n - 1) + i] = Access(results[i], "collect", 0)
    BY <2>1, <1>1 DEF IsAccumulate
  <2> QED BY <2>1, <2>2, <1>2, <1>3 DEF i
<1>10. ASSUME k >= 3 * n PROVE Instr(main).op \in {"destroy", "end_lifetime"}
  <2>1. k \in n + (n - 1) + n + 1 .. n + (n - 1) + n + (n - 1) + n
    BY <1>1, <1>4, <1>10
  <2> QED BY <2>1, <1>1, <1>2, <1>3 DEF IsAccumulate
<1> QED BY <1>2, <1>3, <1>4, <1>5, <1>6, <1>7, <1>8, <1>9, <1>10

(* At the beginning all results are 0, and nothing is added up. *)
LEMMA AccumulateInit == Init => AccumulateInv
<1> SUFFICES ASSUME Init, Accumulating PROVE AccumulateInv
  BY DEF AccumulateInv
<1> DEFINE n == num_threads(input)
           c == Code(program, input)
<1>1. program = "parallel_accumulate" /\ input \in Inputs("parallel_accumulate") /\ input.length # 0
  BY DEF Init, Accumulating
<1>2. n \in 1 .. MaxThreads /\ IsAccumulate(c, input, n) /\ input.initial \in Int
  BY <1>1, ThreadsOfAccumulate, AccumulatePlaces, InputTypes
<1>3. Place = 1
  <2>1. code[main] = c
    BY DEF Init, Threads
  <2>2. Len(c) = n + (n - 1) + n + (n - 1) + n
    BY <1>2 DEF IsAccumulate
  <2> HIDE DEF c, n
  <2>3. PICK l : l = Len(c)
    OBVIOUS
  <2>4. l \in Int
    BY <2>2, <2>3, <1>2
  <2>5. Place = l - l + 1
    BY <2>1, <2>3 DEF Place, c
  <2> QED BY <2>4, <2>5
<1>4. \A i \in 1 .. MaxThreads : Untouched(results[i])
  <2> TAKE i \in 1 .. MaxThreads
  <2>1. results[i] \in Locations /\ results[i] # "counter"
    <3>1. results[i] \in Range(results)
      BY ThreadProgramsAssumption DEF Range
    <3> QED BY <3>1, ResultLocations, ThreadProgramsAssumption
  <2>2. memory[results[i]] = <<Message(0, {})>>
    BY <2>1 DEF Init
  <2> QED BY <2>2 DEF Untouched, NewestOf, Message
<1>5. started = 0 /\ reg[main].val = input.initial
  BY <1>1 DEF Init, Threads
<1> HIDE DEF n
<1>6. \A i \in 1 .. n - 1 : i \in 1 .. MaxThreads /\ ~ Added(i) /\ ~ (i <= started) /\ ~ (Place > n + i)
  BY ThreadProgramsAssumption, <1>2, <1>3, <1>5 DEF Added
<1>7. \A i \in 1 .. n - 1 : Slot(i, n)
  BY <1>4, <1>6 DEF Slot
<1>8. OwnSlot(n)
  <2>1. n \in 1 .. MaxThreads /\ Place <= n /\ ~ (Place > n)
    BY <1>2, <1>3
  <2>2. Partial(input, Collected(Place, n)) = 0
    <3>1. Collected(Place, n) = 0
      BY <1>2, <1>3 DEF Collected
    <3> QED BY <3>1, NothingAdded
  <2> QED BY <2>1, <2>2, <1>2, <1>4, <1>5 DEF OwnSlot
<1> QED BY <1>7, <1>8 DEF AccumulateInv, n

(* The blocks depend on the input only. *)
LEMMA BlocksFixed ==
  ASSUME input' = input
  PROVE  /\ \A i : Block(i)' = Block(i)
         /\ num_threads(input)' = num_threads(input)
BY DEF Block

(* A thread adds its block to its own result. *)
LEMMA AccumulateWorker ==
  ASSUME ThreadInv, OnItsWay, MemoryTyping, AccumulateInv, Accumulating,
         NEW t \in Threads, t # main, Step(t)
  PROVE  AccumulateInv'
<1>1. PICK n : n = num_threads(input)
  OBVIOUS
<1>2. /\ n \in 1 .. MaxThreads /\ program \in Placed /\ program = "parallel_accumulate"
      /\ Starts(program, input) = n - 1 /\ \A i \in 1 .. n : Block(i) \in Int
  BY <1>1, AccumulateFacts DEF Accumulating
<1>3. (\A i \in 1 .. n - 1 : Slot(i, n)) /\ OwnSlot(n)
  BY <1>1 DEF AccumulateInv
<1>4. code[t] # <<>> /\ Instr(t) = Access(results[t], "add", Block(t))
  BY <1>2, StepAt, WorkerRuns DEF Block
<1>5. t \in 1 .. n - 1 /\ t \in 1 .. started /\ ~ Added(t)
  BY <1>2, <1>4, WorkerAt DEF Added
<1> DEFINE x == results[t]
<1>6. AccessData(t) /\ x = Loc(t) /\ Instr(t).how = "add" /\ Instr(t).arg = Block(t)
  BY <1>4, StepAt DEF Access, Loc
<1>7. x \in Locations /\ Len(memory[x]) = 1 /\ view[t][x] = Len(memory[x]) /\ NewestOf(x).val = 0
  <2>1. x \in Locations
    BY ThreadProgramsAssumption, <1>2, <1>5, ResultLocations
  <2>2. Len(memory[x]) = 1 /\ NewestOf(x).val = 0
    BY <1>3, <1>5 DEF Slot, Untouched
  <2>3. view[t][x] \in 1 .. 1
    BY <2>1, <2>2, Histories
  <2> QED BY <2>1, <2>2, <2>3
<1> HIDE DEF x
<1>8. /\ \A l \in Locations \ {x} : memory'[l] = memory[l]
      /\ view'[t][x] = Len(memory'[x])
      /\ (NewestOf(x)').val = NewestOf(x).val + Block(t) /\ reg' = reg
  BY <1>6, <1>7, AccessEffect
<1>9. (NewestOf(x)').val = Block(t)
  <2>1. Block(t) \in Int
    BY <1>2, <1>5
  <2> QED BY <2>1, <1>7, <1>8
<1>10. /\ program' = program /\ input' = input /\ started' = started
       /\ code'[t] = <<>>
       /\ \A u \in Threads : u # t => code'[u] = code[u] /\ view'[u] = view[u]
  <2>1. Continue(t)
    BY <1>6 DEF AccessData
  <2>2. /\ program' = program /\ input' = input /\ started' = started
        /\ code'[t] = Tail(code[t])
        /\ \A u \in Threads : u # t => code'[u] = code[u] /\ view'[u] = view[u]
    BY <1>2, <2>1, WorkerMoves
  <2>3. Body(program, input, t) = <<Access(results[t - 1 + 1], "add", SumOf(block(input, t - 1)))>>
    BY <1>2 DEF Body, accumulate_block
  <2>4. Len(Body(program, input, t)) = 1
    BY <2>3
  <2>5. Suffix(code[t], Body(program, input, t))
    BY <1>2, <1>5 DEF OnItsWay
  <2>6. IsSequence(code[t]) /\ Len(code[t]) <= 1
    BY <2>4, <2>5 DEF Suffix
  <2>7. IsSequence(Tail(code[t])) /\ Len(Tail(code[t])) = Len(code[t]) - 1
    BY <1>4, <2>6, TailSequence
  <2>8. Tail(code[t]) = <<>>
    <3>1. PICK r : r = Tail(code[t])
      OBVIOUS
    <3>2. PICK l : l = Len(code[t])
      OBVIOUS
    <3>3. l \in Nat /\ l <= 1 /\ Len(r) = l - 1 /\ Len(r) \in Nat
      BY <2>6, <2>7, <3>1, <3>2 DEF IsSequence
    <3>4. Len(r) = 0
      BY <3>3
    <3> QED BY <2>7, <3>1, <3>4, EmptySequence
  <2> QED BY <2>2, <2>8
<1>11. handle' = handle /\ faults' = faults
  BY <1>6 DEF AccessData, MemoryStep, objects
<1>12. Place' = Place /\ main \in Threads /\ view'[main] = view[main]
  BY <1>10, MainIsNoWorker DEF Place
<1>13. ASSUME NEW i \in 1 .. n, i # t
       PROVE  /\ NewestOf(results[i])' = NewestOf(results[i])
              /\ memory'[results[i]] = memory[results[i]]
  <2>1. i \in 1 .. MaxThreads /\ t \in 1 .. MaxThreads
    BY ThreadProgramsAssumption, <1>2, <1>5
  <2>2. results[i] \in Locations \ {x}
    BY <1>13, <2>1, ResultLocations, ResultsDiffer DEF x
  <2> QED BY <2>2, <1>8 DEF NewestOf
<1>14. ASSUME NEW i \in 1 .. n - 1 PROVE Slot(i, n)'
  <2>1. Slot(i, n) /\ i \in 1 .. n
    BY <1>2, <1>3
  <2>2. CASE i # t
    <3>1. i \in Threads
      BY <1>2, ThreadProgramsAssumption DEF Threads, Workers
    <3>2. Added(i)' = Added(i) /\ view'[i] = view[i]
      BY <3>1, <2>2, <1>10 DEF Added
    <3> QED BY <2>1, <2>2, <3>2, <1>10, <1>11, <1>12, <1>13, BlocksFixed
            DEF Slot, Untouched, Knows
  <2>3. CASE i = t
    <3>1. Added(t)' /\ Knows(t, results[t])' /\ (NewestOf(results[t]).val)' = Block(t)'
      BY <1>5, <1>8, <1>9, <1>10, BlocksFixed DEF Added, Knows, x
    <3>2. ~ ("start" \notin faults /\ Place > n + t)
      BY <1>5, <2>1, <2>3 DEF Slot
    <3>3. "start" \notin faults /\ Place <= n + t => (t <= started => handle[t] = t)
      BY <2>1, <2>3 DEF Slot
    <3> QED BY <2>3, <3>1, <3>2, <3>3, <1>10, <1>11, <1>12 DEF Slot
  <2> QED BY <2>2, <2>3
<1>15. OwnSlot(n)'
  <2>1. n \in 1 .. n /\ n # t
    BY <1>2, <1>5
  <2>2. NewestOf(results[n])' = NewestOf(results[n]) /\ memory'[results[n]] = memory[results[n]]
    BY <2>1, <1>13
  <2> QED BY <2>2, <1>3, <1>8, <1>10, <1>11, <1>12, BlocksFixed
          DEF OwnSlot, Untouched, Knows, Collected
<1>16. num_threads(input)' = n
  BY <1>1, <1>10, BlocksFixed
<1> QED BY <1>14, <1>15, <1>16 DEF AccumulateInv

(* main changes nothing that a thread has done. *)
LEMMA AccumulateMain ==
  ASSUME ThreadInv, OnItsWay, MemoryTyping, Accumulating, Step(main),
         NEW n, n = num_threads(input)
  PROVE  /\ program' = program /\ input' = input /\ num_threads(input)' = n
         /\ \A i \in 1 .. n - 1 : /\ Added(i)' = Added(i)
                                  /\ Added(i) => view'[i] = view[i]
         /\ "start" \in faults => "start" \in faults'
         /\ "start" \in faults' => "start" \in faults \/ StartThrows(main)
<1>1. n \in 1 .. MaxThreads /\ program \in Placed /\ program = "parallel_accumulate" /\ started \in Nat
  BY AccumulateFacts DEF Accumulating, ThreadInv, Typing
<1>2. /\ program' = program /\ input' = input
      /\ \A i \in 1 .. started : code'[i] = code[i] /\ view'[i] = view[i]
      /\ \/ started' = started
         \/ started' = started + 1 /\ code'[started + 1] = Body(program, input, started + 1)
  BY <1>1, MainMoves
<1>3. "start" \in faults => "start" \in faults'
  BY FaultsGrow, MainIsNoWorker
<1>4. "start" \in faults' => "start" \in faults \/ StartThrows(main)
  <2>1. StartThread(main) => faults' = faults
    BY DEF StartThread
  <2> QED BY <2>1, <1>1, CodeChange, MainIsNoWorker
<1>5. ASSUME NEW i \in 1 .. n - 1
      PROVE  Added(i)' = Added(i) /\ (Added(i) => view'[i] = view[i])
  <2>1. CASE i <= started
    <3>1. i \in 1 .. started /\ i <= started'
      BY <1>1, <1>2, <2>1
    <3> QED BY <3>1, <2>1, <1>2 DEF Added
  <2>2. CASE ~ (i <= started)
    <3>1. Body(program, input, i) # <<>>
      BY <1>1 DEF Body, accumulate_block
    <3>2. ~ (i <= started' /\ code'[i] = <<>>)
      <4>1. CASE started' = started
        BY <2>2, <4>1
      <4>2. CASE started' = started + 1 /\ code'[started + 1] = Body(program, input, started + 1)
        <5>1. i <= started' => i = started + 1
          BY <1>1, <2>2, <4>2
        <5> QED BY <3>1, <4>2, <5>1
      <4> QED BY <1>2, <4>1, <4>2
    <3> QED BY <2>2, <3>2 DEF Added
  <2> QED BY <2>1, <2>2
<1>6. num_threads(input)' = n
  BY <1>2, BlocksFixed
<1> QED BY <1>2, <1>3, <1>4, <1>5, <1>6

(* A step of main that could not start a thread, or follows one. *)
LEMMA AccumulateFails ==
  ASSUME ThreadInv, OnItsWay, MemoryTyping, AccumulateInv, Accumulating, Step(main),
         "start" \in faults'
  PROVE  AccumulateInv'
<1>1. PICK n : n = num_threads(input)
  OBVIOUS
<1>2. /\ program' = program /\ input' = input /\ num_threads(input)' = n
      /\ \A i \in 1 .. n - 1 : Added(i)' = Added(i)
      /\ "start" \in faults \/ StartThrows(main)
  BY <1>1, AccumulateMain
<1>3. code[main] # <<>> /\ main \in Threads /\ program \in Placed
  BY StepAt, MainIsNoWorker, AccumulateFacts
<1>4. Instr(main).op \in {"start", "destroy", "end_lifetime"}
  BY <1>2, <1>3, WhereItIs DEF StartThrows, At, Instr
<1>5. memory' = memory
  BY <1>3, <1>4, SilentStep DEF MemoryOps
<1>6. \A i \in 1 .. n - 1 : Slot(i, n)
  BY <1>1 DEF AccumulateInv
<1>7. \A i \in 1 .. n - 1 : Slot(i, n)'
  BY <1>2, <1>5, <1>6, BlocksFixed DEF Slot, Untouched, NewestOf
<1>8. OwnSlot(n)'
  BY DEF OwnSlot
<1> QED BY <1>2, <1>7, <1>8 DEF AccumulateInv

(* What every step of main below needs. *)
AtPlace(k, n) ==
  /\ ThreadInv /\ OnItsWay /\ MemoryTyping /\ AccumulateInv /\ Accumulating
  /\ "start" \notin faults /\ "start" \notin faults'
  /\ n = num_threads(input) /\ k = Place

(* What follows from it. *)
LEMMA AtPlaceFacts ==
  ASSUME NEW k, NEW n, AtPlace(k, n), Step(main)
  PROVE  /\ n \in 1 .. MaxThreads /\ k \in 1 .. 5 * n - 2 /\ program \in Placed
         /\ \A i \in 1 .. n - 1 : Slot(i, n)
         /\ OwnSlot(n)
         /\ program' = program /\ input' = input /\ num_threads(input)' = n
         /\ \A i \in 1 .. n - 1 : /\ Added(i)' = Added(i) /\ (Added(i) => view'[i] = view[i])
         /\ Continue(main) => Place' = k + 1
         /\ code'[main] = Rest(main) => Place' = k + 1
         /\ UNCHANGED code => Place' = k
         /\ code[main] # <<>> /\ main \in Threads /\ ~ StartThrows(main)
         /\ \A i \in 1 .. n : Block(i) \in Int
         /\ input.initial \in Int
<1>1. ~ StartThrows(main)
  BY DEF AtPlace, StartThrows, Raise
<1>2. n \in 1 .. MaxThreads /\ program \in Placed /\ input.initial \in Int /\ \A i \in 1 .. n : Block(i) \in Int
  BY AccumulateFacts DEF AtPlace
<1>3. /\ k \in 1 .. 5 * n - 2
      /\ Continue(main) => Place' = k + 1
      /\ code'[main] = Rest(main) => Place' = k + 1
      /\ code'[main] = code[main] => Place' = k
  BY <1>2, AccumulateAt, MainPlace DEF AtPlace
<1>4. /\ program' = program /\ input' = input /\ num_threads(input)' = n
      /\ \A i \in 1 .. n - 1 : Added(i)' = Added(i) /\ (Added(i) => view'[i] = view[i])
  BY AccumulateMain DEF AtPlace
<1>5. (\A i \in 1 .. n - 1 : Slot(i, n)) /\ OwnSlot(n)
  BY DEF AtPlace, AccumulateInv
<1> QED BY <1>1, <1>2, <1>3, <1>4, <1>5, StepAt, MainIsNoWorker

(* main starts a thread. *)
LEMMA AccumulateStarts ==
  ASSUME NEW k, NEW n, AtPlace(k, n), Step(main), k < n
  PROVE  AccumulateInv'
<1>1. /\ started = k - 1 /\ Instr(main).op = "start" /\ Instr(main).handle = k
      /\ code[main] # <<>>
  BY AccumulateAt, StepAt, MainIsNoWorker DEF AtPlace
<1>2. n \in 1 .. MaxThreads /\ k \in 1 .. 5 * n - 2
  BY AtPlaceFacts
<1>3. StartThread(main)
  BY <1>1, StepAt, AtPlaceFacts
<1>5. started' = started + 1 /\ handle' = [handle EXCEPT ![k] = started + 1]
  BY <1>1, <1>3 DEF StartThread
<1>6. started + 1 = k
  BY <1>1, <1>2
<1>7. k \in Handles /\ handle = [h \in Handles |-> handle[h]]
  BY <1>2, ThreadProgramsAssumption DEF Handles, ThreadInv, Typing, AtPlace
<1>8. handle'[k] = k /\ \A i \in Handles : i # k => handle'[i] = handle[i]
  BY <1>5, <1>6, <1>7
<1>9. Place' = k + 1
  <2>1. code' = [code EXCEPT ![main] = Rest(main), ![k] = Instr(main).body]
    BY <1>3, <1>6 DEF StartThread
  <2>2. code = [u \in Threads |-> code[u]] /\ main # k /\ main \in Threads
    BY <1>2, MainIsNoWorker DEF main, ThreadInv, Typing, AtPlace
  <2>3. code'[main] = Rest(main)
    BY <2>1, <2>2
  <2> QED BY <2>3, AtPlaceFacts
<1>10. memory' = memory /\ reg' = reg
  BY <1>1, SilentStep, AtPlaceFacts DEF MemoryOps, AtPlace
<1>11. /\ \A i \in 1 .. n - 1 : Slot(i, n)
       /\ OwnSlot(n) /\ input' = input /\ num_threads(input)' = n
       /\ \A i \in 1 .. n - 1 : Added(i)' = Added(i) /\ (Added(i) => view'[i] = view[i])
  BY AtPlaceFacts
<1>12. ASSUME NEW i \in 1 .. n - 1 PROVE Slot(i, n)'
  <2>1. Place <= n + i /\ Place' <= n + i /\ ~ (Place' > n + i)
    BY <1>2, <1>9 DEF AtPlace
  <2>2. i <= started' => handle'[i] = i
    <3>1. CASE i = k
      BY <1>8, <3>1
    <3>2. CASE i # k
      <4>1. i <= started' => i <= started
        BY <1>1, <1>2, <1>5, <3>2
      <4>2. i \in Handles
        BY <1>2, ThreadProgramsAssumption DEF Handles
      <4>3. i <= started => handle[i] = i
        BY <1>11, <2>1 DEF Slot, AtPlace
      <4> QED BY <1>8, <3>2, <4>1, <4>2, <4>3
    <3> QED BY <3>1, <3>2
  <2>3. Added(i) => Knows(i, results[i])
    BY <1>11, <2>1 DEF Slot, AtPlace
  <2>4. Added(i)' => Knows(i, results[i])'
    BY <2>3, <1>10, <1>11 DEF Knows
  <2>5. /\ ~ Added(i)' => Untouched(results[i])'
        /\ Added(i)' => (NewestOf(results[i]).val)' = Block(i)'
    BY <1>10, <1>11, BlocksFixed DEF Slot, Untouched, NewestOf
  <2> QED BY <2>1, <2>2, <2>4, <2>5 DEF Slot
<1>13. OwnSlot(n)'
  <2>1. Place <= n /\ Place' <= n /\ ~ (Place' > n)
    BY <1>2, <1>9 DEF AtPlace
  <2>2. Collected(Place, n) = 0 /\ Collected(Place', n) = 0
    BY <2>1, <1>2, <1>9 DEF Collected, AtPlace
  <2>3. Untouched(results[n]) /\ reg[main].val = input.initial + Partial(input, 0)
    BY <1>11, <2>1, <2>2 DEF OwnSlot, AtPlace
  <2>4. Untouched(results[n])'
    BY <1>10, <2>3 DEF Untouched, NewestOf
  <2>5. reg'[main].val = input'.initial + Partial(input, Collected(Place, n))'
    <3>1. Partial(input, Collected(Place, n))' = Partial(input, 0)
      BY <2>2, <1>11, BlocksFixed DEF Collected
    <3> QED BY <1>10, <1>11, <2>3, <3>1
  <2> QED BY <2>1, <2>4, <2>5 DEF OwnSlot
<1> QED BY <1>11, <1>12, <1>13 DEF AccumulateInv

(* main adds the last block to its own result. *)
LEMMA AccumulateOwn ==
  ASSUME NEW k, NEW n, AtPlace(k, n), Step(main), k = n
  PROVE  AccumulateInv'
<1>1. /\ n \in 1 .. MaxThreads /\ program' = program /\ input' = input /\ num_threads(input)' = n
      /\ \A i \in 1 .. n - 1 : Slot(i, n)
      /\ OwnSlot(n) /\ main \in Threads
      /\ \A i \in 1 .. n - 1 : Added(i)' = Added(i) /\ (Added(i) => view'[i] = view[i])
      /\ \A i \in 1 .. n : Block(i) \in Int
  BY AtPlaceFacts
<1>2. Instr(main) = Access(results[n], "add", Block(n))
  BY AtPlaceFacts, AccumulateAt DEF AtPlace
<1> DEFINE x == results[n]
<1>3. AccessData(main) /\ x = Loc(main) /\ Instr(main).how = "add" /\ Instr(main).arg = Block(n)
  BY <1>1, <1>2, StepAt DEF Access, Loc
<1>4. Place' = k + 1 /\ Place = k
  BY <1>3, AtPlaceFacts DEF AccessData, AtPlace
<1>5. x \in Locations /\ view[main][x] = Len(memory[x]) /\ NewestOf(x).val = 0
  <2>1. x \in Locations
    BY <1>1, ResultLocations
  <2>2. Len(memory[x]) = 1 /\ NewestOf(x).val = 0
    BY <1>1, <1>4 DEF OwnSlot, Untouched, AtPlace
  <2>3. view[main][x] \in 1 .. 1
    BY <1>1, <2>1, <2>2, Histories DEF AtPlace
  <2> QED BY <2>1, <2>2, <2>3
<1> HIDE DEF x
<1>6. /\ \A l \in Locations \ {x} : memory'[l] = memory[l]
      /\ view'[main][x] = Len(memory'[x])
      /\ (NewestOf(x)').val = NewestOf(x).val + Block(n) /\ reg' = reg
  BY <1>1, <1>3, <1>5, AccessEffect DEF AtPlace
<1>7. (NewestOf(x)').val = Block(n)
  <2>1. Block(n) \in Int
    BY <1>1
  <2> QED BY <2>1, <1>5, <1>6
<1>8. handle' = handle /\ started' = started
  BY <1>3 DEF AccessData, MemoryStep, objects
<1>9. ASSUME NEW i \in 1 .. n - 1 PROVE Slot(i, n)'
  <2>1. i \in 1 .. MaxThreads /\ i # n /\ Place <= n + i /\ Place' <= n + i /\ ~ (Place' > n + i)
    BY ThreadProgramsAssumption, <1>1, <1>4
  <2>2. results[i] \in Locations \ {x}
    BY <1>1, <2>1, ResultLocations, ResultsDiffer DEF x
  <2>3. memory'[results[i]] = memory[results[i]]
    BY <2>2, <1>6
  <2> QED BY <2>1, <2>3, <1>1, <1>8, BlocksFixed DEF Slot, Untouched, Knows, NewestOf, AtPlace
<1>10. OwnSlot(n)'
  <2>1. Place' > n /\ ~ (Place' <= n)
    BY <1>1, <1>4
  <2>2. Collected(Place, n) = 0 /\ Collected(Place', n) = 0
    BY <1>1, <1>4 DEF Collected
  <2>3. reg[main].val = input.initial + Partial(input, 0)
    BY <1>1, <2>2 DEF OwnSlot, AtPlace
  <2>4. Partial(input, Collected(Place, n))' = Partial(input, 0)
    BY <2>2, <1>1, BlocksFixed DEF Collected
  <2>5. reg'[main].val = input'.initial + Partial(input, Collected(Place, n))'
    BY <1>1, <1>6, <2>3, <2>4
  <2>6. Knows(main, x)' /\ (NewestOf(x).val)' = Block(n)'
    BY <1>1, <1>6, <1>7, BlocksFixed DEF Knows
  <2> QED BY <2>1, <2>5, <2>6 DEF OwnSlot, x
<1> QED BY <1>1, <1>9, <1>10 DEF AccumulateInv

(* main joins a thread, and then knows its result. *)
LEMMA AccumulateJoins ==
  ASSUME NEW k, NEW n, AtPlace(k, n), Step(main), k > n, k < 2 * n
  PROVE  AccumulateInv'
<1>1. /\ n \in 1 .. MaxThreads /\ k \in 1 .. 5 * n - 2
      /\ program' = program /\ input' = input /\ num_threads(input)' = n
      /\ \A i \in 1 .. n - 1 : Slot(i, n)
      /\ OwnSlot(n) /\ main \in Threads
      /\ \A i \in 1 .. n - 1 : Added(i)' = Added(i) /\ (Added(i) => view'[i] = view[i])
  BY AtPlaceFacts
<1> DEFINE j == k - n
<1>2. Instr(main).op = "join" /\ Instr(main).handle = j /\ started = n - 1
  BY <1>1, AtPlaceFacts, AccumulateAt DEF AtPlace
<1>3. j \in 1 .. n - 1 /\ j \in 1 .. MaxThreads /\ n + j = k
  BY ThreadProgramsAssumption, <1>1
<1> HIDE DEF j
<1>4. handle[j] = j /\ j \in Handles /\ j # Empty
  <2>1. Place <= n + j /\ j <= started
    BY <1>1, <1>2, <1>3 DEF AtPlace
  <2> QED BY <2>1, <1>1, <1>3, ThreadProgramsAssumption DEF Slot, AtPlace, Handles, Empty
<1>5. JoinThread(main) /\ Held(main) = j
  <2>1. Held(main) = j
    BY <1>2, <1>4 DEF Held
  <2>2. ~ NotJoinableThrows(main)
    BY <2>1, <1>4 DEF NotJoinableThrows
  <2> QED BY <2>1, <2>2, <1>1, <1>2, StepAt
<1>6. /\ code[j] = <<>> /\ handle' = [handle EXCEPT ![j] = Empty]
      /\ view' = [view EXCEPT ![main] = JoinViews(@, {view[j]})]
      /\ memory' = memory /\ reg' = reg /\ started' = started /\ Continue(main)
  BY <1>2, <1>5 DEF JoinThread
<1>7. Place' = k + 1 /\ Place = k
  BY <1>6, AtPlaceFacts DEF AtPlace
<1>8. Added(j) /\ Knows(j, results[j])
  <2>1. Added(j)
    BY <1>1, <1>2, <1>3, <1>6 DEF Added
  <2>2. Place <= n + j
    BY <1>1, <1>3, <1>7
  <2> QED BY <2>1, <2>2, <1>1, <1>3 DEF Slot, AtPlace
<1>9. ASSUME NEW x \in Locations, Knows(main, x) \/ Knows(j, x) PROVE Knows(main, x)'
  <2>1. /\ view[main] \in Views /\ view[j] \in Views
        /\ Known(view[main], memory) /\ Known(view[j], memory)
        /\ \A l \in Locations : Len(memory[l]) \in Nat
        /\ view = [u \in Threads |-> view[u]]
    <3>1. j \in Threads
      BY <1>3, ThreadProgramsAssumption DEF Threads, Workers
    <3>2. \A l \in Locations : Len(memory[l]) \in Nat
      BY Histories DEF Positive, AtPlace
    <3> QED BY <3>1, <3>2, <1>1 DEF MemoryTyping, AtPlace
  <2> DEFINE J == JoinViews(view[main], {view[j]})
  <2>2. {view[j]} \in SUBSET Views /\ \A w \in {view[j]} : Known(w, memory)
    BY <2>1
  <2>3. /\ J \in Views /\ Known(J, memory)
        /\ \A l \in Locations : view[main][l] <= J[l] /\ \A w \in {view[j]} : w[l] <= J[l]
    BY <2>1, <2>2, JoinViewsType
  <2> HIDE DEF J
  <2>4. view'[main] = J
    BY <1>1, <1>6, <2>1 DEF J
  <2>5. J[x] \in Nat /\ J[x] <= Len(memory[x]) /\ view[main][x] <= J[x] /\ view[j][x] <= J[x]
    BY <2>3 DEF Known, Views, Positive
  <2>6. J[x] = Len(memory[x])
    <3>1. PICK l \in Nat : l = Len(memory[x])
      BY <2>1
    <3> QED BY <3>1, <2>5, <1>9 DEF Knows
  <2> QED BY <2>4, <2>6, <1>6 DEF Knows
<1>10. \A i \in 1 .. MaxThreads : results[i] \in Locations
  BY ResultLocations
<1>11. ASSUME NEW i \in 1 .. n - 1 PROVE Slot(i, n)'
  <2>1. /\ ~ Added(i)' => Untouched(results[i])'
        /\ Added(i)' => (NewestOf(results[i]).val)' = Block(i)'
    BY <1>1, <1>6, BlocksFixed DEF Slot, Untouched, NewestOf
  <2>2. i \in 1 .. MaxThreads /\ i \in Handles
    BY <1>1, ThreadProgramsAssumption DEF Handles
  <2>3. CASE i > j
    <3>1. Place <= n + i /\ ~ (Place' > n + i) /\ i # j
      BY <1>1, <1>3, <1>7, <2>3
    <3>2. handle'[i] = handle[i]
      BY <1>6, <2>2, <3>1 DEF ThreadInv, Typing, AtPlace
    <3>3. (i <= started => handle[i] = i) /\ (Added(i) => Knows(i, results[i]))
      BY <1>1, <3>1 DEF Slot, AtPlace
    <3>4. Added(i)' => Knows(i, results[i])'
      BY <1>1, <1>6, <3>3 DEF Knows
    <3> QED BY <2>1, <3>1, <3>2, <3>3, <3>4, <1>6 DEF Slot
  <2>4. CASE ~ (i > j)
    <3>1. Place' > n + i /\ ~ (Place' <= n + i) /\ (i = j \/ Place > n + i)
      BY <1>1, <1>3, <1>7, <2>4
    <3>2. Added(i) /\ (Knows(main, results[i]) \/ Knows(j, results[i]))
      BY <1>1, <1>8, <3>1 DEF Slot, AtPlace
    <3>3. Added(i)' /\ Knows(main, results[i])'
      BY <1>1, <1>9, <1>10, <2>2, <3>2
    <3> QED BY <2>1, <3>1, <3>3 DEF Slot
  <2> QED BY <2>3, <2>4
<1>12. OwnSlot(n)'
  <2>1. Place' > n /\ ~ (Place' <= n) /\ Place > n
    BY <1>1, <1>3, <1>7
  <2>2. Collected(Place, n) = 0 /\ Collected(Place', n) = 0
    BY <1>1, <1>7 DEF Collected
  <2>3. /\ reg[main].val = input.initial + Partial(input, 0)
        /\ Knows(main, results[n]) /\ NewestOf(results[n]).val = Block(n)
    BY <1>1, <2>1, <2>2 DEF OwnSlot, AtPlace
  <2>4. Partial(input, Collected(Place, n))' = Partial(input, 0)
    BY <2>2, <1>1, BlocksFixed DEF Collected
  <2>5. reg'[main].val = input'.initial + Partial(input, Collected(Place, n))'
    BY <1>1, <1>6, <2>3, <2>4
  <2>6. Knows(main, results[n])' /\ (NewestOf(results[n]).val)' = Block(n)'
    BY <1>1, <1>6, <1>9, <1>10, <2>3, BlocksFixed DEF NewestOf
  <2> QED BY <2>1, <2>5, <2>6 DEF OwnSlot
<1> QED BY <1>1, <1>11, <1>12 DEF AccumulateInv

(* main adds up a result. *)
LEMMA AccumulateCollects ==
  ASSUME NEW k, NEW n, AtPlace(k, n), Step(main), k >= 2 * n, k < 3 * n
  PROVE  AccumulateInv'
<1>1. /\ n \in 1 .. MaxThreads /\ k \in 1 .. 5 * n - 2
      /\ program' = program /\ input' = input /\ num_threads(input)' = n
      /\ \A i \in 1 .. n - 1 : Slot(i, n)
      /\ OwnSlot(n) /\ main \in Threads
      /\ \A i \in 1 .. n - 1 : Added(i)' = Added(i) /\ (Added(i) => view'[i] = view[i])
      /\ \A i \in 1 .. n : Block(i) \in Int
      /\ input.initial \in Int
  BY AtPlaceFacts
<1> DEFINE m == k - 2 * n
           j == m + 1
<1>2. Instr(main) = Access(results[j], "collect", 0)
  BY AtPlaceFacts, AccumulateAt DEF AtPlace
<1>3. m \in 0 .. n - 1 /\ j \in 1 .. n /\ k = 2 * n + m
  BY <1>1
<1> HIDE DEF m
<1> DEFINE x == results[j]
<1>4. AccessData(main) /\ x = Loc(main) /\ Instr(main).how = "collect"
  BY <1>1, <1>2, StepAt DEF Access, Loc
<1>5. Place' = k + 1 /\ Place = k
  BY <1>4, AtPlaceFacts DEF AccessData, AtPlace
<1>6. \A i \in 1 .. n - 1 : Added(i) /\ Knows(main, results[i]) /\ Place > n + i /\ Place' > n + i
  <2> TAKE i \in 1 .. n - 1
  <2>1. Place > n + i /\ Place' > n + i
    BY <1>1, <1>3, <1>5
  <2> QED BY <2>1, <1>1 DEF Slot, AtPlace
<1>7. Place > n /\ ~ (Place' <= n) /\ Place' > n
  BY <1>1, <1>3, <1>5
<1>8. Knows(main, results[n]) /\ NewestOf(results[n]).val = Block(n)
  BY <1>1, <1>7 DEF OwnSlot, AtPlace
<1>9. x \in Locations /\ view[main][x] = Len(memory[x]) /\ NewestOf(x).val = Block(j)
  <2>1. x \in Locations
    <3>1. j \in 1 .. MaxThreads
      BY <1>1, <1>3, ThreadProgramsAssumption
    <3> QED BY <3>1, ResultLocations
  <2>2. CASE j = n
    BY <2>1, <2>2, <1>8 DEF Knows
  <2>3. CASE j # n
    <3>1. j \in 1 .. n - 1
      BY <1>1, <1>3, <2>3
    <3> QED BY <2>1, <3>1, <1>1, <1>6 DEF Knows, Slot
  <2> QED BY <2>2, <2>3
<1> HIDE DEF x
<1>10. /\ \A l \in Locations \ {x} : memory'[l] = memory[l]
       /\ \A l \in Locations \ {x} : view'[main][l] = view[main][l]
       /\ view'[main][x] = Len(memory'[x])
       /\ NewestOf(x)' = NewestOf(x) /\ reg'[main].val = reg[main].val + NewestOf(x).val
  BY <1>1, <1>4, <1>9, AccessEffect DEF AtPlace
<1>11. ASSUME NEW i \in 1 .. n, Knows(main, results[i])
       PROVE  Knows(main, results[i])' /\ NewestOf(results[i])' = NewestOf(results[i])
  <2>1. CASE results[i] = x
    BY <2>1, <1>10 DEF Knows
  <2>2. CASE results[i] # x
    <3>1. results[i] \in Locations \ {x}
      BY ThreadProgramsAssumption, <1>1, <2>2, ResultLocations
    <3> QED BY <3>1, <1>10, <1>11 DEF Knows, NewestOf
  <2> QED BY <2>1, <2>2
<1>12. ASSUME NEW i \in 1 .. n - 1 PROVE Slot(i, n)'
  <2>1. Added(i) /\ Added(i)' /\ Place' > n + i /\ ~ (Place' <= n + i)
    BY <1>1, <1>3, <1>5, <1>6
  <2>2. Knows(main, results[i])' /\ NewestOf(results[i])' = NewestOf(results[i])
    BY <1>1, <1>6, <1>11
  <2>3. NewestOf(results[i]).val = Block(i)
    BY <1>1, <2>1 DEF Slot
  <2> QED BY <2>1, <2>2, <2>3, <1>1, BlocksFixed DEF Slot
<1>13. OwnSlot(n)'
  <2>1. Collected(Place, n) = m /\ Collected(Place', n) = m + 1
    BY <1>1, <1>3, <1>5 DEF Collected
  <2>2. reg[main].val = input.initial + Partial(input, m)
    BY <1>1, <2>1 DEF OwnSlot, AtPlace
  <2>3. Partial(input, m) \in Int /\ Partial(input, m + 1) = Partial(input, m) + Block(m + 1) /\ Block(m + 1) \in Int
    <3>1. /\ input \in Inputs("parallel_accumulate") /\ input.length # 0
          /\ n = num_threads(input)
      BY AccumulateFacts DEF AtPlace
    <3>2. m \in 0 .. n /\ m + 1 \in 1 .. n /\ (m + 1) - 1 = m
      BY <1>1, <1>3
    <3>3. Partial(input, m) \in Int
      BY <3>1, <3>2, BlocksFinite
    <3>4. Partial(input, m + 1) = Partial(input, m) + SumOf(block(input, m))
      BY <1>3, <3>1, OneMore
    <3>5. Block(m + 1) = SumOf(block(input, m))
      BY <3>2 DEF Block
    <3> QED BY <1>1, <3>2, <3>3, <3>4, <3>5
  <2>4. reg'[main].val = input.initial + Partial(input, m) + Block(m + 1)
    BY <1>9, <1>10, <2>2
  <2>5. reg'[main].val = input.initial + Partial(input, m + 1)
    BY <1>1, <2>3, <2>4
  <2>6. Partial(input, Collected(Place, n))' = Partial(input, m + 1)
    BY <1>1, <2>1
  <2>7. reg'[main].val = input'.initial + Partial(input, Collected(Place, n))'
    BY <1>1, <2>5, <2>6
  <2>8. Knows(main, results[n])' /\ (NewestOf(results[n]).val)' = Block(n)'
    BY <1>1, <1>8, <1>11, BlocksFixed
  <2> QED BY <1>7, <2>7, <2>8 DEF OwnSlot
<1> QED BY <1>1, <1>12, <1>13 DEF AccumulateInv

(* The destructors of threads and results. *)
LEMMA AccumulateEnds ==
  ASSUME NEW k, NEW n, AtPlace(k, n), Step(main), k >= 3 * n
  PROVE  AccumulateInv'
<1>1. /\ n \in 1 .. MaxThreads /\ k \in 1 .. 5 * n - 2
      /\ program' = program /\ input' = input /\ num_threads(input)' = n
      /\ \A i \in 1 .. n - 1 : Slot(i, n)
      /\ OwnSlot(n) /\ main \in Threads
      /\ \A i \in 1 .. n - 1 : Added(i)' = Added(i) /\ (Added(i) => view'[i] = view[i])
  BY AtPlaceFacts
<1>2. Instr(main).op \in {"destroy", "end_lifetime"}
  BY AtPlaceFacts, AccumulateAt DEF AtPlace
<1>3. memory' = memory /\ reg' = reg /\ view' = view
  <2>1. ~ StartThread(main) /\ ~ JoinThread(main)
    <3>1. ~ JoinThread(main) /\ ~ StartThread(main)
      BY <1>2 DEF JoinThread, StartThread, At, Instr
    <3> QED BY <3>1
  <2> QED BY <1>1, <1>2, <2>1, SilentStep DEF MemoryOps, AtPlace
<1>4. Place = k /\ Place' \in {k, k + 1}
  <2>1. code' = code \/ Continue(main)
    BY <1>1, <1>2, AtPlaceFacts, CodeChange DEF AtPlace, StartThread, At, Instr
  <2> QED BY <2>1, AtPlaceFacts DEF AtPlace
<1>5. ASSUME NEW i \in 1 .. n - 1 PROVE Slot(i, n)'
  <2>1. Place > n + i /\ Place' > n + i /\ ~ (Place' <= n + i)
    BY <1>1, <1>4
  <2>2. Added(i) /\ Knows(main, results[i]) /\ NewestOf(results[i]).val = Block(i)
    BY <1>1, <2>1 DEF Slot, AtPlace
  <2> QED BY <1>1, <1>3, <2>1, <2>2, BlocksFixed DEF Slot, Knows, NewestOf
<1>6. OwnSlot(n)'
  <2>1. Place > n /\ Place' > n /\ ~ (Place' <= n)
    BY <1>1, <1>4
  <2>2. Collected(Place, n) = n /\ Collected(Place', n) = n
    <3>1. ASSUME NEW q \in Nat, q >= 3 * n PROVE Collected(q, n) = n
      <4>1. ~ (q <= 2 * n)
        BY <1>1, <3>1
      <4>2. CASE q <= 3 * n
        <5>1. q - 2 * n = n
          BY <1>1, <3>1, <4>2
        <5> QED BY <4>1, <4>2, <5>1 DEF Collected
      <4>3. CASE ~ (q <= 3 * n)
        BY <4>1, <4>3 DEF Collected
      <4> QED BY <4>2, <4>3
    <3>2. k \in Nat /\ k + 1 \in Nat /\ k + 1 >= 3 * n
      BY <1>1
    <3>3. Collected(k, n) = n /\ Collected(k + 1, n) = n
      BY <3>1, <3>2
    <3> QED BY <3>3, <1>4
  <2>3. /\ reg[main].val = input.initial + Partial(input, n)
        /\ Knows(main, results[n]) /\ NewestOf(results[n]).val = Block(n)
    BY <1>1, <2>1, <2>2 DEF OwnSlot, AtPlace
  <2>4. Partial(input, Collected(Place, n))' = Partial(input, n)
    BY <2>2, <1>1, BlocksFixed DEF Collected
  <2>5. reg'[main].val = input'.initial + Partial(input, Collected(Place, n))'
    BY <1>1, <1>3, <2>3, <2>4
  <2>6. Knows(main, results[n])' /\ (NewestOf(results[n]).val)' = Block(n)'
    BY <1>1, <1>3, <2>3, BlocksFixed DEF NewestOf, Knows
  <2> QED BY <2>1, <2>5, <2>6 DEF OwnSlot
<1> QED BY <1>1, <1>5, <1>6 DEF AccumulateInv

(* Every step. *)
LEMMA AccumulateStep ==
  ASSUME ThreadInv, OnItsWay, MemoryTyping, AccumulateInv, [Next]_vars
  PROVE  AccumulateInv'
<1>1. CASE UNCHANGED vars
  <2>1. UNCHANGED <<program, input, started, handle, code, memory, view, reg, faults>>
    BY <1>1 DEF vars, objects, atomics
  <2>2. Place' = Place /\ num_threads(input)' = num_threads(input)
    BY <2>1, BlocksFixed DEF Place
  <2>3. \A i, n : Slot(i, n)' = Slot(i, n)
    BY <2>1, <2>2, BlocksFixed DEF Slot, Added, Untouched, Knows, NewestOf
  <2>4. \A n : OwnSlot(n)' = OwnSlot(n)
    BY <2>1, <2>2, BlocksFixed DEF OwnSlot, Untouched, Knows, NewestOf, Collected
  <2> QED BY <2>1, <2>2, <2>3, <2>4 DEF AccumulateInv, Accumulating
<1>2. ASSUME NEW t \in Threads, Step(t) PROVE AccumulateInv'
  <2>1. program' = program /\ input' = input
    BY <1>2, SameProgram
  <2>2. CASE ~ Accumulating
    BY <2>1, <2>2 DEF AccumulateInv, Accumulating
  <2>3. CASE Accumulating /\ t # main
    BY <1>2, <2>3, AccumulateWorker
  <2>4. CASE Accumulating /\ t = main
    <3>1. PICK n : n = num_threads(input)
      OBVIOUS
    <3>2. PICK k : k = Place
      OBVIOUS
    <3>3. CASE "start" \in faults'
      BY <1>2, <2>4, <3>3, AccumulateFails
    <3>4. CASE "start" \notin faults'
      <4>1. "start" \notin faults
        BY <1>2, <2>4, <3>1, <3>4, AccumulateMain
      <4>2. AtPlace(k, n)
        BY <2>4, <3>1, <3>2, <3>4, <4>1 DEF AtPlace
      <4>3. n \in 1 .. MaxThreads /\ k \in 1 .. 5 * n - 2
        BY <1>2, <2>4, <4>2, AtPlaceFacts
      <4>4. k < n \/ k = n \/ (k > n /\ k < 2 * n) \/ (k >= 2 * n /\ k < 3 * n) \/ k >= 3 * n
        BY <4>3
      <4> QED BY <1>2, <2>4, <4>2, <4>4, AccumulateStarts, AccumulateOwn, AccumulateJoins,
                 AccumulateCollects, AccumulateEnds
    <3> QED BY <3>3, <3>4
  <2> QED BY <2>2, <2>3, <2>4
<1>3. ASSUME NEW h \in {1, 2}, NEW g \in {1, 2}, CallAutoJoining(h, g) PROVE AccumulateInv'
  BY <1>3 DEF CallAutoJoining, OnlyCode, AccumulateInv, Accumulating
<1> QED BY <1>1, <1>2, <1>3 DEF Next

(* In every reachable state of parallel_accumulate, the result of each     *)
(* thread is 0 until it has added its block and the sum of the block       *)
(* afterwards, main has seen the result of every thread that it has        *)
(* joined, and what it has added up is init and the blocks of the results  *)
(* that it has collected.                                                  *)
THEOREM AccumulateTheorem == Spec => []AccumulateInv
<1>1. Spec => [](ThreadInv /\ MemoryTyping /\ OnItsWay)
  BY ThreadInvariant, MemoryTypingTheorem, OnItsWayAlways, PTL
<1>2. ThreadInv /\ OnItsWay /\ MemoryTyping /\ AccumulateInv /\ [Next]_vars => AccumulateInv'
  BY AccumulateStep
<1> QED BY <1>1, <1>2, AccumulateInit, PTL DEF Spec

-----------------------------------------------------------------------------
(* Data races *)

(* The programs that share nothing access nothing. *)
LEMMA CalmNoRace ==
  ASSUME CalmInv, program \in CalmPrograms, NEW t \in Threads, code[t] # <<>>
  PROVE  Instr(t).op # "access"
BY CalmRuns DEF CalmOps, LocalOps

(* The two threads of the release sequence access data one after the       *)
(* other, before C++20.                                                    *)
LEMMA ReleaseNoRace ==
  ASSUME ThreadInv, OnItsWay, ReleaseSequenceInv, MemoryTyping, Standard,
         NEW t \in Threads, t # main, code[t] # <<>>, Instr(t).op = "access"
  PROVE  view[t][Instr(t).at] = Len(memory[Instr(t).at])
<1>1. program \in Placed
  BY DEF Placed, Collecting, Standard
<1>2. /\ t \in 1 .. started /\ t \in 1 .. Starts(program, input)
      /\ Len(code[t]) \in 1 .. Len(Body(program, input, t))
      /\ Instr(t) = Body(program, input, t)[Len(Body(program, input, t)) - Len(code[t]) + 1]
  BY <1>1, WorkerAt
<1>3. t \in {1, 2}
  <2>1. Starts(program, input) = 2
    BY DEF Starts, Standard
  <2> QED BY <1>2, <2>1
<1>4. PICK l : l = Len(code[t])
  OBVIOUS
<1>5. "data" \in Locations
  BY NamedLocations
<1>6. started \in Nat
  BY DEF ThreadInv, Typing
<1>7. CASE t = 1
  <2>1. Body(program, input, t) = producer
    BY <1>7 DEF Body, Standard
  <2>2. l \in 1 .. 4 /\ Instr(t) = producer[4 - l + 1] /\ Left(1, 4) = l
    <3>1. Left(1, 4) = l
      BY <1>2, <1>4, <1>6, <1>7 DEF Left
    <3>2. l \in 1 .. 4 /\ Instr(t) = producer[4 - l + 1]
      BY <1>2, <1>4, <2>1, ReleaseBodies
    <3> QED BY <3>1, <3>2
  <2>3. CASE l = 4
    <3>1. Instr(t).at = "data"
      BY <2>2, <2>3, ReleaseBodies DEF Access
    <3>2. Len(memory["data"]) = 1
      BY <2>2, <2>3 DEF ReleaseSequenceInv, Standard
    <3>3. view[t]["data"] \in 1 .. 1
      BY <1>5, <3>2, Histories
    <3> QED BY <3>1, <3>2, <3>3
  <2>4. CASE l \in {1, 3}
    BY <2>2, <2>4, ReleaseBodies DEF Store
  <2>5. CASE l = 2
    BY <2>2, <2>5, ReleaseBodies DEF RMW
  <2> QED BY <2>2, <2>3, <2>4, <2>5
<1>8. CASE t = 2
  <2>1. Body(program, input, t) = consumer
    BY <1>8 DEF Body, Standard
  <2>2. l \in 1 .. 3 /\ Instr(t) = consumer[3 - l + 1] /\ Left(2, 3) = l
    <3>1. Left(2, 3) = l
      BY <1>2, <1>4, <1>6, <1>8 DEF Left
    <3>2. l \in 1 .. 3 /\ Instr(t) = consumer[3 - l + 1]
      BY <1>2, <1>4, <2>1, ReleaseBodies
    <3> QED BY <3>1, <3>2
  <2>3. CASE l = 2
    <3>1. Instr(t).at = "data"
      BY <2>2, <2>3, ReleaseBodies DEF Access
    <3>2. Left(2, 3) = 2 /\ Left(1, 4) \in 0 .. 4
      BY <2>2, <2>3, LeftTypes DEF Standard
    <3>3. Left(1, 4) < 3
      BY <3>2 DEF ReleaseSequenceInv, Standard
    <3>4. Len(memory["data"]) = 2 /\ view[2]["data"] = 2
      BY <3>2, <3>3 DEF ReleaseSequenceInv, Standard
    <3> QED BY <1>8, <3>1, <3>4
  <2>4. CASE l = 3
    BY <2>2, <2>4, ReleaseBodies DEF Await
  <2>5. CASE l = 1
    BY <2>2, <2>5, ReleaseBodies DEF Assert
  <2> QED BY <2>2, <2>3, <2>4, <2>5
<1> QED BY <1>3, <1>7, <1>8

(* Each result belongs to its thread until main has joined it. *)
LEMMA AccumulateNoRace ==
  ASSUME ThreadInv, OnItsWay, AccumulateInv, MemoryTyping, program = "parallel_accumulate",
         NEW t \in Threads, code[t] # <<>>, Instr(t).op = "access"
  PROVE  view[t][Instr(t).at] = Len(memory[Instr(t).at])
<1>1. Accumulating
  <2> SUFFICES ASSUME input.length = 0 PROVE FALSE
    BY DEF Accumulating
  <2>1. program \in Placed /\ Starts(program, input) = 0 /\ Code(program, input) = <<>>
    BY DEF Placed, Collecting, Starts, Code, parallel_accumulate
  <2>2. t = main
    <3>1. t # main => t \in 1 .. 0
      BY <2>1, WorkerAt
    <3> QED BY <3>1
  <2>3. "start" \notin faults
    <3>1. started \in Nat
      BY DEF ThreadInv, Typing
    <3>2. "start" \in faults => started < Starts(program, input)
      BY <2>1 DEF OnItsWay
    <3> QED BY <2>1, <3>1, <3>2
  <2>4. Place \in 1 .. 0
    BY <2>1, <2>2, <2>3, MainAt
  <2> QED BY <2>4
<1>2. PICK n : n = num_threads(input)
  OBVIOUS
<1>3. /\ n \in 1 .. MaxThreads /\ program \in Placed /\ Starts(program, input) = n - 1
      /\ (\A i \in 1 .. n - 1 : Slot(i, n)) /\ OwnSlot(n)
      /\ IsAccumulate(Code(program, input), input, n)
  BY <1>1, <1>2, AccumulateFacts DEF AccumulateInv
<1>4. CASE t # main
  <2>1. Instr(t).at = results[t]
    BY <1>4, WorkerRuns DEF Access
  <2>2. t \in 1 .. n - 1 /\ ~ Added(t) /\ t \in 1 .. MaxThreads
    BY <1>3, <1>4, WorkerAt DEF Added
  <2>3. Len(memory[results[t]]) = 1
    BY <1>3, <2>2 DEF Slot, Untouched
  <2>4. view[t][results[t]] \in 1 .. 1
    BY <2>2, <2>3, ResultLocations, Histories
  <2> QED BY <2>1, <2>3, <2>4
<1>5. CASE t = main
  <2>1. "start" \notin faults
    BY <1>3, <1>5, WhereItIs
  <2>2. PICK k : k = Place
    OBVIOUS
  <2>3. /\ k \in 1 .. 5 * n - 2
        /\ k < n => Instr(main).op = "start"
        /\ k = n => Instr(main) = Access(results[n], "add", Block(n))
        /\ k > n /\ k < 2 * n => Instr(main).op = "join"
        /\ k >= 2 * n /\ k < 3 * n => Instr(main) = Access(results[k - 2 * n + 1], "collect", 0)
        /\ k >= 3 * n => Instr(main).op \in {"destroy", "end_lifetime"}
    BY <1>1, <1>2, <1>5, <2>1, <2>2, AccumulateAt
  <2>4. k = n \/ (k >= 2 * n /\ k < 3 * n)
    <3>1. k < n \/ k = n \/ (k > n /\ k < 2 * n) \/ (k >= 2 * n /\ k < 3 * n) \/ k >= 3 * n
      BY <1>3, <2>3
    <3> QED BY <1>5, <2>3, <3>1
  <2>5. CASE k = n
    <3>1. Instr(main).at = results[n]
      BY <2>3, <2>5 DEF Access
    <3>2. Len(memory[results[n]]) = 1
      <4>1. Place <= n
        BY <1>3, <2>2, <2>5
      <4> QED BY <1>3, <2>1, <4>1 DEF OwnSlot, Untouched
    <3>3. view[main][results[n]] \in 1 .. 1
      BY <1>3, <1>5, <3>2, ResultLocations, Histories
    <3> QED BY <1>5, <3>1, <3>2, <3>3
  <2>6. CASE k >= 2 * n /\ k < 3 * n
    <3> DEFINE i == k - 2 * n + 1
    <3>0. n \in 1 .. MaxThreads /\ k \in 1 .. 5 * n - 2
      BY <1>3, <2>3
    <3>1. i \in 1 .. n /\ k > n /\ (i # n => i \in 1 .. n - 1 /\ k > n + i)
      BY ONLY <3>0, <2>6
    <3>2. Instr(main).at = results[i]
      BY <2>3, <2>6 DEF Access
    <3> HIDE DEF i
    <3>3. Knows(main, results[i])
      <4>1. CASE i = n
        BY <1>3, <2>1, <2>2, <3>1, <4>1 DEF OwnSlot
      <4>2. CASE i # n
        BY <1>3, <2>1, <2>2, <3>1, <4>2 DEF Slot
      <4> QED BY <4>1, <4>2
    <3> QED BY <1>5, <3>2, <3>3 DEF Knows
  <2> QED BY <2>4, <2>5, <2>6
<1> QED BY <1>4, <1>5

(* If t accesses data next, it has seen every access before. *)
NoRaceBy(t) == Instr(t).op = "access" => view[t][Instr(t).at] = Len(memory[Instr(t).at])

(* A program with one thread accesses atomic objects only. *)
LEMMA SingleNoRace ==
  ASSUME ThreadInv, OnItsWay, program \in Single, NEW t \in Threads, code[t] # <<>>
  PROVE  Instr(t).op # "access"
<1>1. program \in Placed /\ Starts(program, input) = 0
  BY DEF Placed, Starts, Single
<1>2. t = main
  <2>1. t # main => t \in 1 .. 0
    BY <1>1, WorkerAt
  <2> QED BY <2>1
<1>3. "start" \notin faults
  <2>1. started \in Nat
    BY DEF ThreadInv, Typing
  <2>2. "start" \in faults => started < Starts(program, input)
    BY <1>1 DEF OnItsWay
  <2> QED BY <1>1, <2>1, <2>2
<1>4. PICK k : k = Place
  OBVIOUS
<1>5. k \in 1 .. Len(Code(program, input)) /\ Instr(t) = Code(program, input)[k]
  BY <1>1, <1>2, <1>3, <1>4, MainAt
<1>6. CASE program = "atomic_flag"
  <2>1. Code(program, input) = atomic_flag
    BY <1>6 DEF Code
  <2>2. k \in 1 .. 3 /\ Instr(t) = atomic_flag[k]
    BY <1>5, <2>1, AtomicFlagPlaces
  <2> QED BY <2>2, AtomicFlagPlaces DEF Store, RMW, Assert
<1>7. CASE program = "simple_compare_exchange_weak"
  <2>1. Code(program, input) = simple_compare_exchange_weak
    BY <1>7 DEF Code
  <2>2. k \in 1 .. 9 /\ Instr(t) = simple_compare_exchange_weak[k]
    BY <1>5, <2>1, ExchangePlaces
  <2> QED BY <2>2, ExchangePlaces DEF Exchange, Load, Assert
<1>8. CASE program = "pointer_arithmetic"
  <2>1. Code(program, input) = pointer_arithmetic
    BY <1>8 DEF Code
  <2>2. k \in 1 .. 18 /\ Instr(t) = pointer_arithmetic[k]
    BY <1>5, <2>1, PointerPlaces
  <2>3. Instr(t).op \in {"read_modify_write", "load", "assert"}
    <3>1. CASE k \in 1 .. 9
      BY <2>2, <3>1, PointerPlaces DEF AddFetch, FetchAdd, RMW, Load, Assert
    <3>2. CASE k \in 10 .. 18
      BY <2>2, <3>2, PointerPlaces DEF AddFetch, FetchAdd, RMW, Load, Assert
    <3> QED BY <2>2, <3>1, <3>2
  <2> QED BY <2>3
<1> QED BY <1>6, <1>7, <1>8 DEF Single

(* Who counts under the spinlock has seen every count before. *)
LEMMA CountersNoRace ==
  ASSUME ThreadInv, OnItsWay, LockInv, program \in Counters,
         NEW t \in Threads, code[t] # <<>>
  PROVE  NoRaceBy(t)
<1>1. program \in Placed /\ program \in Collecting /\ program # "parallel_accumulate"
  BY CountersPlaced DEF Counters
<1>2. CASE t = main
  BY <1>1, <1>2, MainRuns DEF NoRaceBy
<1>3. CASE t # main /\ program = "spinlock_mutex"
  <2>1. t \in 1 .. started
    BY <1>1, <1>3, WorkerAt
  <2>2. Instr(t).op = "access" => Instr(t).at = "counter" /\ Inside(t)
    BY <1>3, WorkerRuns
  <2>3. Inside(t) => view[t]["counter"] = Len(memory["counter"])
    BY <1>3, <2>1 DEF LockInv
  <2> QED BY <2>2, <2>3 DEF NoRaceBy
<1>4. CASE t # main /\ program = "multithread_compare_exchange_weak"
  BY <1>4, WorkerRuns DEF NoRaceBy
<1> QED BY <1>2, <1>3, <1>4 DEF Counters

(* All programs together. *)
LEMMA NoRace ==
  ASSUME PlacesInv, LockInv, AccumulateInv, NEW t \in Threads, code[t] # <<>>,
         ~ (program = "release_sequence" /\ input.standard >= 20)
  PROVE  NoRaceBy(t)
<1> USE DEF PlacesInv
<1>1. CASE program \in CalmPrograms
  BY <1>1, CalmNoRace DEF NoRaceBy
<1>2. CASE program \in LocalPrograms
  <2>1. CASE t = main
    <3>1. Instr(t).op \in LocalOps \cup {"start"}
      BY <1>2, <2>1, LocalRuns
    <3> QED BY <3>1 DEF LocalOps, NoRaceBy
  <2>2. CASE t # main
    <3>1. Instr(t) = Access("someLocalState", "add", 1)
      BY <1>2, <2>2, LocalRuns
    <3>2. view[t]["someLocalState"] = Len(memory["someLocalState"])
      BY <1>2, <2>2, LocalRuns
    <3> QED BY <3>1, <3>2 DEF Access, NoRaceBy
  <2> QED BY <2>1, <2>2
<1>3. CASE program \in Single
  BY <1>3, SingleNoRace DEF NoRaceBy
<1>4. CASE program \in Counters
  BY <1>4, CountersNoRace
<1>5. CASE program = "parallel_accumulate"
  BY <1>5, AccumulateNoRace DEF NoRaceBy
<1>6. CASE program = "release_sequence"
  <2>1. input.standard \in {17, 20}
    <3>1. input \in {[NoInput EXCEPT !.standard = s] : s \in {17, 20}}
      BY <1>6 DEF ThreadInv, Typing, Inputs
    <3> QED BY <3>1 DEF NoInput
  <2>2. Standard
    BY <1>6, <2>1 DEF Standard
  <2>3. program \in Collecting /\ program # "parallel_accumulate"
    BY <1>6 DEF Collecting
  <2> QED BY <2>2, <2>3, ReleaseNoRace, MainRuns DEF NoRaceBy
<1> QED BY <1>1, <1>2, <1>3, <1>4, <1>5, <1>6, AllPrograms DEF Collecting, Counters

(* For every interleaving, exception and value that a load may return, a   *)
(* thread that accesses an object that is not atomic has seen every access *)
(* that others made to it before (by a start, a join, the spinlock or a    *)
(* release sequence), except in release_sequence since C++20.              *)
THEOREM NoDataRaceTheorem == Spec => []NoDataRace
<1>1. ASSUME PlacesInv, LockInv, AccumulateInv PROVE NoDataRace
  BY <1>1, NoRace DEF NoDataRace, NoRaceBy, At, Instr
<1>2. PlacesInv /\ LockInv /\ AccumulateInv => NoDataRace
  BY <1>1
<1>3. Spec => []LockInv
  BY CountingTheorem, PTL
<1> QED BY <1>2, <1>3, PlacesInvariant, AccumulateTheorem, PTL

-----------------------------------------------------------------------------
(* The sum *)

(* The blocks are the range, because they partition it. *)
LEMMA SumOfBlocks ==
  ASSUME NEW in \in Inputs("parallel_accumulate"), in.length # 0
  PROVE  Partial(in, num_threads(in)) = SumOf(0 .. in.length - 1)
<1> DEFINE n == num_threads(in)
           l == in.length
<1>1. n \in Nat
  BY ThreadsOfAccumulate
<1>2. Blocks(in, n) \subseteq 0 .. l - 1
  <2>1. n \in 0 .. num_threads(in)
    BY <1>1
  <2> QED BY <2>1, BlocksFinite
<1>3. \A e \in 0 .. l - 1 : \E k \in 0 .. n - 1 : e \in block(in, k)
  BY ThreadsOfAccumulate, BlocksPartition
<1> HIDE DEF n, l
<1>4. 0 .. l - 1 \subseteq Blocks(in, n)
  BY <1>3 DEF Blocks
<1>5. Blocks(in, n) = 0 .. l - 1
  BY <1>2, <1>4
<1> QED BY <1>5 DEF Partial, n, l

(* Without a range, nothing runs. *)
EmptyRange ==
  program = "parallel_accumulate" /\ input.length = 0 => reg[main].val = input.initial

(* Every step. *)
LEMMA EmptyRangeStep ==
  ASSUME ThreadInv, OnItsWay, EmptyRange, [Next]_vars
  PROVE  EmptyRange'
<1>1. CASE UNCHANGED vars
  BY <1>1 DEF vars, atomics, EmptyRange
<1>2. ASSUME NEW t \in Threads, Step(t) PROVE EmptyRange'
  <2>1. program' = program /\ input' = input
    BY <1>2, SameProgram
  <2>2. ASSUME program = "parallel_accumulate", input.length = 0 PROVE FALSE
    <3>1. program \in Placed /\ Starts(program, input) = 0 /\ Code(program, input) = <<>>
      BY <2>2 DEF Placed, Collecting, Starts, Code, parallel_accumulate
    <3>2. code[t] # <<>>
      BY <1>2, StepAt
    <3>3. t = main
      <4>1. t # main => t \in 1 .. 0
        BY <3>1, <3>2, WorkerAt
      <4> QED BY <4>1
    <3>4. "start" \notin faults
      <4>1. started \in Nat
        BY DEF ThreadInv, Typing
      <4>2. "start" \in faults => started < Starts(program, input)
        BY <3>1 DEF OnItsWay
      <4> QED BY <3>1, <4>1, <4>2
    <3>5. Place \in 1 .. 0
      BY <3>1, <3>2, <3>3, <3>4, MainAt
    <3> QED BY <3>5
  <2> QED BY <2>1, <2>2 DEF EmptyRange
<1>3. ASSUME NEW h \in {1, 2}, NEW g \in {1, 2}, CallAutoJoining(h, g) PROVE EmptyRange'
  BY <1>3 DEF CallAutoJoining, OnlyCode, EmptyRange
<1> QED BY <1>1, <1>2, <1>3 DEF Next

(* init is the element after the last one. *)
LEMMA InitialValue ==
  \A in \in Inputs("parallel_accumulate") : in.initial = 2 ^ in.length /\ in.length \in Nat
<1> DEFINE P(n, c) == [NoInput EXCEPT !.length = n, !.cores = c, !.initial = 2 ^ n]
<1>1. Inputs("parallel_accumulate") = {P(n, c) : n \in 0 .. MaxLength, c \in 0 .. MaxThreads}
  BY DEF Inputs
<1>2. ASSUME NEW n \in 0 .. MaxLength, NEW c \in 0 .. MaxThreads
      PROVE  P(n, c).length = n /\ P(n, c).initial = 2 ^ n /\ n \in Nat
  BY ThreadProgramsAssumption DEF NoInput
<1> HIDE DEF P
<1>3. \A n \in 0 .. MaxLength, c \in 0 .. MaxThreads :
        P(n, c).initial = 2 ^ P(n, c).length /\ P(n, c).length \in Nat
  BY <1>2
<1> QED BY <1>1, <1>3

(* When parallel_accumulate returns, it has added up init and every block. *)
LEMMA AllCollected ==
  ASSUME ThreadInv, OnItsWay, EmptyRange, AccumulateInv, Returned("parallel_accumulate")
  PROVE  reg[main].val = SumOf(0 .. input.length)
<1>1. /\ program = "parallel_accumulate" /\ input \in Inputs("parallel_accumulate")
      /\ "start" \notin faults /\ code[main] = <<>>
  BY DEF Returned, ThreadInv, Typing
<1>2. PICK l : l = input.length
  OBVIOUS
<1>3. l \in Nat /\ input.initial = 2 ^ l
  BY <1>1, <1>2, InitialValue
<1>4. SumOf(0 .. l) = 2 ^ l + SumOf(0 .. l - 1) /\ 2 ^ l \in Int
  BY <1>3, SumOfRange
<1>5. CASE l = 0
  <2>1. reg[main].val = 2 ^ l
    BY <1>1, <1>2, <1>3, <1>5 DEF EmptyRange
  <2>2. 0 .. l - 1 = {}
    BY <1>5
  <2>3. SumOf({}) = 0
    BY SumOfNothing DEF SumOf
  <2>4. SumOf(0 .. l - 1) = 0
    BY <2>2, <2>3
  <2>5. SumOf(0 .. l) = 2 ^ l
    BY <1>4, <2>4
  <2> QED BY <1>2, <2>1, <2>5
<1>6. CASE l # 0
  <2>1. Accumulating
    BY <1>1, <1>2, <1>6 DEF Accumulating
  <2>2. PICK n : n = num_threads(input)
    OBVIOUS
  <2>3. n \in 1 .. MaxThreads /\ IsAccumulate(Code(program, input), input, n) /\ OwnSlot(n)
    BY <2>1, <2>2, AccumulateFacts DEF AccumulateInv
  <2>4. PICK k : k = Place
    OBVIOUS
  <2>5. k = 5 * n - 1
    <3>1. Len(Code(program, input)) = n + (n - 1) + n + (n - 1) + n
      BY <2>3 DEF IsAccumulate
    <3>2. Len(code[main]) = 0
      BY <1>1
    <3>3. k = (n + (n - 1) + n + (n - 1) + n) - 0 + 1
      BY <2>4, <3>1, <3>2 DEF Place
    <3> QED BY <2>3, <3>3
  <2>6. Collected(k, n) = n
    <3>1. ~ (k <= 2 * n) /\ (k <= 3 * n => k - 2 * n = n)
      BY <2>3, <2>5
    <3> QED BY <3>1 DEF Collected
  <2>7. reg[main].val = input.initial + Partial(input, n)
    BY <1>1, <2>3, <2>4, <2>6 DEF OwnSlot
  <2>8. Partial(input, n) = SumOf(0 .. l - 1)
    BY <1>1, <1>2, <1>6, <2>2, SumOfBlocks
  <2> QED BY <1>2, <1>3, <1>4, <2>7, <2>8
<1> QED BY <1>5, <1>6

(* When parallel_accumulate returns, it returns init plus every element of *)
(* the range once, for every length, number of cores, min_per_thread and   *)
(* interleaving.                                                           *)
THEOREM SumIsCompleteTheorem == Spec => []SumIsComplete
<1>1. Init => EmptyRange
  BY DEF Init, EmptyRange, Threads
<1>2. ThreadInv /\ OnItsWay /\ EmptyRange /\ [Next]_vars => EmptyRange'
  BY EmptyRangeStep
<1>3. Spec => []EmptyRange
  BY <1>1, <1>2, ThreadInvariant, OnItsWayAlways, PTL DEF Spec
<1>4. ThreadInv /\ OnItsWay /\ EmptyRange /\ AccumulateInv => SumIsComplete
  BY AllCollected DEF SumIsComplete
<1> QED BY <1>3, <1>4, ThreadInvariant, OnItsWayAlways, AccumulateTheorem, PTL
=============================================================================
