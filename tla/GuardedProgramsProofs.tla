------------------------ MODULE GuardedProgramsProofs ------------------------
(***************************************************************************)
(* Proofs about the programs of GuardedPrograms, for any number of threads *)
(* and calls.                                                              *)
(*                                                                         *)
(* The first part is about sequences of instructions only.  A place in a   *)
(* function has a mutex locked when a lock of it comes before and no       *)
(* unlock in between; a function is disciplined when it unlocks only what  *)
(* is locked, ends with nothing locked, and jumps only between places with *)
(* the same locks.  Every function of the programs is: that is found by    *)
(* going through their instructions.  The second part shows that threads   *)
(* that run disciplined functions own exactly what their place says, and   *)
(* the properties follow from what is locked around which access.  The     *)
(* third does the same for what a function has created on its way: a       *)
(* thread past the test of a lazy initialisation knows what is created.    *)
(***************************************************************************)
EXTENDS GuardedPrograms, TLAPS

-----------------------------------------------------------------------------
(* Places in a function *)

(* Before instruction i of s, the last one about x of the kinds in and out *)
(* is one of kind in.                                                      *)
Open(s, i, in, out, x) ==
  \E j \in 1 .. i - 1 :
    /\ s[j].op = in /\ s[j].at = x
    /\ \A k \in j + 1 .. i - 1 : ~(s[k].op = out /\ s[k].at = x)

Locked(s, i, m)       == Open(s, i, "lock", "unlock", m)
Shared(s, i, m)       == Open(s, i, "lock_shared", "unlock_shared", m)
Initialising(s, i, f) == Open(s, i, "once", "done", f)

NothingOpen(s, i) ==
  \A x : ~Locked(s, i, x) /\ ~Shared(s, i, x) /\ ~Initialising(s, i, x)

(* A mutex is locked twice on the way to instruction i: no thread gets     *)
(* there.                                                                  *)
Stuck(s, i) == \E j \in 1 .. i - 1 : s[j].op = "lock" /\ Locked(s, j, s[j].at)

(* The same is open before instructions i and j. *)
SameOpen(s, i, j) ==
  \A x : /\ Locked(s, i, x) <=> Locked(s, j, x)
         /\ Shared(s, i, x) <=> Shared(s, j, x)
         /\ Initialising(s, i, x) <=> Initialising(s, j, x)

(* What is open before instruction j, when i comes before it. *)
Follows(s, i, j) ==
  /\ \A m : Locked(s, j, m) <=>
       \/ s[i].op = "lock" /\ s[i].at = m
       \/ Locked(s, i, m) /\ ~(s[i].op = "unlock" /\ s[i].at = m)
  /\ \A m : Shared(s, j, m) <=>
       \/ s[i].op = "lock_shared" /\ s[i].at = m
       \/ Shared(s, i, m) /\ ~(s[i].op = "unlock_shared" /\ s[i].at = m)
  /\ \A f : Initialising(s, j, f) <=>
       \/ s[i].op = "once" /\ s[i].at = f
       \/ Initialising(s, i, f) /\ ~(s[i].op = "done" /\ s[i].at = f)
  /\ Stuck(s, j) <=> Stuck(s, i) \/ (s[i].op = "lock" /\ Locked(s, i, s[i].at))

(* What a thread about to execute instruction i may rely on. *)
Jumps == {"unless", "once"}
Target(s, i) == i + 1 + s[i].skip

DisciplinedAt(s, i) ==
  /\ s[i].op = "unlock" => Locked(s, i, s[i].at)
  /\ s[i].op = "unlock_shared" => Shared(s, i, s[i].at)
  /\ s[i].op = "done" => Initialising(s, i, s[i].at)
  /\ s[i].op \in Jumps =>
       /\ s[i].skip \in Nat
       /\ Target(s, i) \in i + 1 .. Len(s) + 1
       /\ ~Stuck(s, Target(s, i))
       /\ SameOpen(s, i, Target(s, i))

Disciplined(s) ==
  /\ Len(s) \in Nat /\ DOMAIN s = 1 .. Len(s)
  /\ \A i \in 1 .. Len(s) : ~Stuck(s, i) => DisciplinedAt(s, i)
  /\ ~Stuck(s, Len(s) + 1) => NothingOpen(s, Len(s) + 1)

(* The mutex that is to be locked around accesses of a datum. *)
MutexOf(x) ==
  CASE x = "myList"                      -> "myMutex"
    [] x = "data"                        -> "m"
    [] x = "prepared"                    -> "some_mutex"
    [] x \in {"chunks", "results"}       -> "the_mutex"
    [] x = "entries"                     -> "entry_mutex"
    [] x \in {"resource", "resource_ptr"} -> "resource_mutex"
    [] OTHER                             -> x

WritesLocked(s) ==
  \A i \in 1 .. Len(s) : s[i].op \in Writes /\ ~Stuck(s, i) => Locked(s, i, MutexOf(s[i].at))

ReadLocked(s, i) == Locked(s, i, MutexOf(s[i].at)) \/ Shared(s, i, MutexOf(s[i].at))
ReadsLocked(s) ==
  \A i \in 1 .. Len(s) : s[i].op \in Reads /\ ~Stuck(s, i) => ReadLocked(s, i)
ReadsLockedOrFree(s) ==
  \A i \in 1 .. Len(s) :
    s[i].op \in Reads /\ ~Stuck(s, i) => ReadLocked(s, i) \/ NothingOpen(s, i)
ReadsFree(s) ==
  \A i \in 1 .. Len(s) : s[i].op \in Reads /\ ~Stuck(s, i) => NothingOpen(s, i)

-----------------------------------------------------------------------------
(* From one place to the next *)

(* Nothing is open at the beginning. *)
LEMMA OpenFirst == \A s, in, out, x : ~Open(s, 1, in, out, x)
BY DEF Open

(* One instruction opens or closes at most one thing. *)
LEMMA OpenNext ==
  ASSUME NEW s, NEW i \in Nat \ {0}, NEW j, j = i + 1, NEW in, NEW out, NEW x, in # out
  PROVE  Open(s, j, in, out, x) <=>
           \/ s[i].op = in /\ s[i].at = x
           \/ Open(s, i, in, out, x) /\ ~(s[i].op = out /\ s[i].at = x)
<1>1. CASE s[i].op = in /\ s[i].at = x
  BY <1>1 DEF Open
<1>2. CASE s[i].op = out /\ s[i].at = x
  BY <1>2 DEF Open
<1>3. CASE ~(s[i].op = in /\ s[i].at = x) /\ ~(s[i].op = out /\ s[i].at = x)
  <2>1. ASSUME Open(s, j, in, out, x) PROVE Open(s, i, in, out, x)
    BY <1>3, <2>1 DEF Open
  <2>2. ASSUME Open(s, i, in, out, x) PROVE Open(s, j, in, out, x)
    <3>1. PICK h \in 1 .. i - 1 :
            /\ s[h].op = in /\ s[h].at = x
            /\ \A k \in h + 1 .. i - 1 : ~(s[k].op = out /\ s[k].at = x)
      BY <2>2 DEF Open
    <3>2. h \in 1 .. j - 1 /\ \A k \in h + 1 .. j - 1 : ~(s[k].op = out /\ s[k].at = x)
      BY <1>3, <3>1
    <3> QED BY <3>1, <3>2 DEF Open
  <2> QED BY <1>3, <2>1, <2>2
<1> QED BY <1>1, <1>2, <1>3

(* Stuck is decided instruction by instruction, too. *)
LEMMA StuckNext ==
  ASSUME NEW s, NEW i \in Nat \ {0}, NEW j, j = i + 1
  PROVE  Stuck(s, j) <=> Stuck(s, i) \/ (s[i].op = "lock" /\ Locked(s, i, s[i].at))
<1>1. ASSUME Stuck(s, j) PROVE Stuck(s, i) \/ (s[i].op = "lock" /\ Locked(s, i, s[i].at))
  BY <1>1 DEF Stuck
<1>2. ASSUME Stuck(s, i) PROVE Stuck(s, j)
  BY <1>2 DEF Stuck
<1>3. ASSUME s[i].op = "lock" /\ Locked(s, i, s[i].at) PROVE Stuck(s, j)
  <2>1. i \in 1 .. j - 1
    OBVIOUS
  <2> QED BY <1>3, <2>1 DEF Stuck
<1> QED BY <1>1, <1>2, <1>3

(* What is open at the first place, and how each place follows from the    *)
(* one before it.                                                          *)
LEMMA First == \A s : NothingOpen(s, 1) /\ ~Stuck(s, 1)
<1>1. \A s : NothingOpen(s, 1)
  BY OpenFirst DEF NothingOpen, Locked, Shared, Initialising
<1>2. \A s : ~Stuck(s, 1)
  BY DEF Stuck
<1> QED BY <1>1, <1>2

(* What holds at the next place, for all that can be open. *)
LEMMA Following ==
  ASSUME NEW s, NEW i \in Nat \ {0}
  PROVE  Follows(s, i, i + 1)
<1> DEFINE j == i + 1
<1>1. \A x : /\ Locked(s, j, x) <=>
                  \/ s[i].op = "lock" /\ s[i].at = x
                  \/ Locked(s, i, x) /\ ~(s[i].op = "unlock" /\ s[i].at = x)
             /\ Shared(s, j, x) <=>
                  \/ s[i].op = "lock_shared" /\ s[i].at = x
                  \/ Shared(s, i, x) /\ ~(s[i].op = "unlock_shared" /\ s[i].at = x)
             /\ Initialising(s, j, x) <=>
                  \/ s[i].op = "once" /\ s[i].at = x
                  \/ Initialising(s, i, x) /\ ~(s[i].op = "done" /\ s[i].at = x)
  BY OpenNext DEF Locked, Shared, Initialising
<1>2. Stuck(s, j) <=> Stuck(s, i) \/ (s[i].op = "lock" /\ Locked(s, i, s[i].at))
  BY StuckNext
<1> QED BY <1>1, <1>2 DEF Follows

-----------------------------------------------------------------------------
(* Nothing is nested in the functions, apart from what gets stuck: a place *)
(* is free, or has one mutex locked, one shared or one initialiser running. *)

Free(s, i) == ~Stuck(s, i) /\ NothingOpen(s, i)
InLock(s, i, m) ==
  ~Stuck(s, i) /\ \A x : (Locked(s, i, x) <=> x = m) /\ ~Shared(s, i, x) /\ ~Initialising(s, i, x)
InShare(s, i, m) ==
  ~Stuck(s, i) /\ \A x : ~Locked(s, i, x) /\ (Shared(s, i, x) <=> x = m) /\ ~Initialising(s, i, x)
InOnce(s, i, f) ==
  ~Stuck(s, i) /\ \A x : ~Locked(s, i, x) /\ ~Shared(s, i, x) /\ (Initialising(s, i, x) <=> x = f)

Accesses == Reads \cup Writes

(* How the kind of a place follows from the place before and the           *)
(* instruction there.                                                      *)
Leads(s, i, j) ==
  /\ s[i].op \in Accesses =>
       /\ Free(s, i) => Free(s, j)
       /\ \A x : /\ InLock(s, i, x) => InLock(s, j, x)
                 /\ InShare(s, i, x) => InShare(s, j, x)
                 /\ InOnce(s, i, x) => InOnce(s, j, x)
  /\ s[i].op = "lock" /\ Free(s, i) => InLock(s, j, s[i].at)
  /\ s[i].op = "lock" /\ InLock(s, i, s[i].at) => Stuck(s, j)
  /\ s[i].op = "lock_shared" /\ Free(s, i) => InShare(s, j, s[i].at)
  /\ s[i].op = "once" /\ Free(s, i) => InOnce(s, j, s[i].at)
  /\ s[i].op = "unlock" /\ InLock(s, i, s[i].at) => Free(s, j)
  /\ s[i].op = "unlock_shared" /\ InShare(s, i, s[i].at) => Free(s, j)
  /\ s[i].op = "done" /\ InOnce(s, i, s[i].at) => Free(s, j)
  /\ Stuck(s, i) => Stuck(s, j)

(* The kind of the next place, from the kind of this one. *)
LEMMA Leading ==
  ASSUME NEW s, NEW i, NEW j, Follows(s, i, j)
  PROVE  Leads(s, i, j)
<1>1. ASSUME s[i].op \in Accesses
      PROVE  /\ Free(s, i) => Free(s, j)
             /\ \A x : /\ InLock(s, i, x) => InLock(s, j, x)
                       /\ InShare(s, i, x) => InShare(s, j, x)
                       /\ InOnce(s, i, x) => InOnce(s, j, x)
  <2>1. SameOpen(s, i, j) /\ (Stuck(s, i) <=> Stuck(s, j))
    BY <1>1 DEF Follows, SameOpen, Accesses, Reads, Writes
  <2> QED BY <2>1 DEF SameOpen, Free, NothingOpen, InLock, InShare, InOnce
<1>2. s[i].op = "lock" /\ Free(s, i) => InLock(s, j, s[i].at)
  BY DEF Follows, Free, NothingOpen, InLock
<1>3. s[i].op = "lock" /\ InLock(s, i, s[i].at) => Stuck(s, j)
  BY DEF Follows, InLock
<1>4. s[i].op = "lock_shared" /\ Free(s, i) => InShare(s, j, s[i].at)
  BY DEF Follows, Free, NothingOpen, InShare
<1>5. s[i].op = "once" /\ Free(s, i) => InOnce(s, j, s[i].at)
  BY DEF Follows, Free, NothingOpen, InOnce
<1>6. s[i].op = "unlock" /\ InLock(s, i, s[i].at) => Free(s, j)
  BY DEF Follows, Free, NothingOpen, InLock
<1>7. s[i].op = "unlock_shared" /\ InShare(s, i, s[i].at) => Free(s, j)
  BY DEF Follows, Free, NothingOpen, InShare
<1>8. s[i].op = "done" /\ InOnce(s, i, s[i].at) => Free(s, j)
  BY DEF Follows, Free, NothingOpen, InOnce
<1>9. Stuck(s, i) => Stuck(s, j)
  BY DEF Follows
<1> QED BY <1>1, <1>2, <1>3, <1>4, <1>5, <1>6, <1>7, <1>8, <1>9 DEF Leads

(* The functions have at most eight instructions. *)
LEMMA Places ==
  \A s : /\ Free(s, 1)
         /\ Leads(s, 1, 2) /\ Leads(s, 2, 3) /\ Leads(s, 3, 4) /\ Leads(s, 4, 5)
         /\ Leads(s, 5, 6) /\ Leads(s, 6, 7) /\ Leads(s, 7, 8) /\ Leads(s, 8, 9)
<1>1. ASSUME NEW s PROVE Free(s, 1)
  BY First DEF Free
<1>2. ASSUME NEW s
      PROVE  /\ Follows(s, 1, 2) /\ Follows(s, 2, 3) /\ Follows(s, 3, 4) /\ Follows(s, 4, 5)
             /\ Follows(s, 5, 6) /\ Follows(s, 6, 7) /\ Follows(s, 7, 8) /\ Follows(s, 8, 9)
  BY Following, 1 + 1 = 2, 2 + 1 = 3, 3 + 1 = 4, 4 + 1 = 5, 5 + 1 = 6, 6 + 1 = 7,
     7 + 1 = 8, 8 + 1 = 9
<1> QED BY <1>1, <1>2, Leading

(* What makes an instruction disciplined. *)
LEMMA DisciplinedPlaces ==
  ASSUME NEW s, NEW i
  PROVE  /\ s[i].op \in {"lock", "lock_shared", "read", "copy", "write", "create"}
              => DisciplinedAt(s, i)
         /\ s[i].op = "unlock" /\ InLock(s, i, s[i].at) => DisciplinedAt(s, i)
         /\ s[i].op = "unlock_shared" /\ InShare(s, i, s[i].at) => DisciplinedAt(s, i)
         /\ s[i].op = "done" /\ InOnce(s, i, s[i].at) => DisciplinedAt(s, i)
<1>1. s[i].op \in {"lock", "lock_shared", "read", "copy", "write", "create"}
        => DisciplinedAt(s, i)
  BY DEF DisciplinedAt, Jumps
<1>2. s[i].op = "unlock" /\ InLock(s, i, s[i].at) => DisciplinedAt(s, i)
  BY DEF DisciplinedAt, Jumps, InLock
<1>3. s[i].op = "unlock_shared" /\ InShare(s, i, s[i].at) => DisciplinedAt(s, i)
  BY DEF DisciplinedAt, Jumps, InShare
<1>4. s[i].op = "done" /\ InOnce(s, i, s[i].at) => DisciplinedAt(s, i)
  BY DEF DisciplinedAt, Jumps, InOnce
<1> QED BY <1>1, <1>2, <1>3, <1>4

(* A jump is disciplined when it lands at a place of the same kind. *)
LEMMA JumpPlaces ==
  ASSUME NEW s, NEW i, s[i].op \in Jumps, s[i].skip \in Nat, Target(s, i) \in i + 1 .. Len(s) + 1
  PROVE  /\ Free(s, i) /\ Free(s, Target(s, i)) => DisciplinedAt(s, i)
         /\ \A m : InLock(s, i, m) /\ InLock(s, Target(s, i), m) => DisciplinedAt(s, i)
<1> DEFINE j == Target(s, i)
<1>1. ASSUME SameOpen(s, i, j), ~Stuck(s, j) PROVE DisciplinedAt(s, i)
  BY <1>1 DEF DisciplinedAt, Jumps
<1>2. Free(s, i) /\ Free(s, j) => SameOpen(s, i, j) /\ ~Stuck(s, j)
  BY DEF SameOpen, Free, NothingOpen
<1>3. \A m : InLock(s, i, m) /\ InLock(s, j, m) => SameOpen(s, i, j) /\ ~Stuck(s, j)
  BY DEF SameOpen, InLock
<1> QED BY <1>1, <1>2, <1>3

(* What the kind of a place says. *)
LEMMA PlaceSays ==
  ASSUME NEW s, NEW i
  PROVE  /\ Free(s, i) => NothingOpen(s, i) /\ ~Stuck(s, i)
         /\ \A m : InLock(s, i, m) => Locked(s, i, m) /\ ~Stuck(s, i)
         /\ \A m : InShare(s, i, m) => Shared(s, i, m) /\ ~Stuck(s, i)
         /\ \A f : InOnce(s, i, f) => Initialising(s, i, f) /\ ~Stuck(s, i)
BY DEF Free, InLock, InShare, InOnce

-----------------------------------------------------------------------------
(* What the functions create *)

(* The programs that create something the first time it is used: what they *)
(* create, and the flag of a call_once.                                    *)
OnceCreators == {"call_once", "connection", "static"}
Creators     == {"single_thread", "serialized", "double_checked"} \cup OnceCreators

Resources(p) ==
  CASE p = "connection" -> {"connection"}
    [] p = "static"     -> {"instance"}
    [] p \in Creators \ {"connection", "static"} -> {"resource", "resource_ptr"}
    [] OTHER            -> {}
AllResources == {"resource", "resource_ptr", "connection", "instance"}

FlagOf(p) ==
  CASE p = "call_once"  -> "resouce_flag"
    [] p = "connection" -> "connection_init_flag"
    [] OTHER            -> "guard_of_instance"

(* What is written before place i of s; creation has begun when something   *)
(* is, or when the instruction there is a write.                           *)
Made(s, i)  == {s[j].at : j \in {k \in 1 .. i - 1 : s[k].op \in Writes}}
Begun(s, i) == Made(s, i) # {} \/ (i <= Len(s) /\ s[i].op \in Writes)

(* A creator writes each thing once, and the one that may throw first; it  *)
(* begins by a test or a call_once, which leads past the last write; it    *)
(* tests the pointer alone or under the lock, unless another test under    *)
(* the lock follows; and it reads only after all the writes.               *)
CreatorAt(p, s, i) ==
  /\ s[i].op \in Writes => s[i].at \in Resources(p) \ Made(s, i)
  /\ s[i].op = "create" => Made(s, i) = {}
  /\ s[i].op # "copy"
  /\ Begun(s, i + 1) /\ ~Begun(s, i) => s[i].op \in Jumps
  /\ s[i].op \in Jumps => ~Begun(s, i) /\ Made(s, Target(s, i)) = Resources(p)
  /\ s[i].op = "unless" =>
       /\ p \notin OnceCreators /\ s[i].at = "resource_ptr"
       /\ \/ p = "single_thread"
          \/ Locked(s, i, "resource_mutex")
          \/ p = "double_checked" /\ ~Begun(s, i + 1)
  /\ s[i].op \in {"once", "done"} => p \in OnceCreators /\ s[i].at = FlagOf(p)
  /\ s[i].op \in Writes \cup {"done"} /\ p \in OnceCreators => Initialising(s, i, FlagOf(p))
  /\ s[i].op \in {"read", "done"} => Begun(s, i)
  /\ s[i].op = "lock" => ~Begun(s, i)
  /\ s[i].op = "read" => s[i].at \in Resources(p)
  /\ Begun(s, i) /\ s[i].op \notin Writes => Made(s, i) = Resources(p)

Creator(p, s) ==
  /\ \A i \in 1 .. Len(s) : CreatorAt(p, s, i)
  /\ Made(s, Len(s) + 1) = Resources(p)
  /\ ~Begun(s, 1)

(* A function that has nothing to do with what the creators create. *)
NoResource(s) == \A i \in 1 .. Len(s) : s[i].op \in Accesses => s[i].at \notin AllResources

(* What is written follows from place to place. *)
LEMMA MadeOn ==
  ASSUME NEW s, NEW i \in Nat \ {0}
  PROVE  Made(s, i + 1) = IF s[i].op \in Writes THEN Made(s, i) \cup {s[i].at} ELSE Made(s, i)
<1>1. 1 .. (i + 1) - 1 = (1 .. i - 1) \cup {i}
  OBVIOUS
<1> QED BY <1>1 DEF Made

(* The functions have at most eight instructions. *)
LEMMA MadePlaces ==
  ASSUME NEW s
  PROVE  /\ Made(s, 1) = {}
         /\ \A i \in {1, 2, 3, 4, 5, 6, 7, 8} :
              /\ s[i].op \in Writes => Made(s, i + 1) = Made(s, i) \cup {s[i].at}
              /\ s[i].op \notin Writes => Made(s, i + 1) = Made(s, i)
<1>1. Made(s, 1) = {}
  <2>1. \A x : x \notin Made(s, 1)
    BY DEF Made
  <2>2. \A S : (\A x : x \notin S) => S = {}
    OBVIOUS
  <2> QED BY <2>1, <2>2, Zenon
<1>2. ASSUME NEW i \in {1, 2, 3, 4, 5, 6, 7, 8}
      PROVE  /\ s[i].op \in Writes => Made(s, i + 1) = Made(s, i) \cup {s[i].at}
             /\ s[i].op \notin Writes => Made(s, i + 1) = Made(s, i)
  <2>1. i \in Nat \ {0}
    OBVIOUS
  <2>2. Made(s, i + 1) = IF s[i].op \in Writes THEN Made(s, i) \cup {s[i].at} ELSE Made(s, i)
    BY <2>1, MadeOn
  <2> QED BY <2>2
<1> QED BY <1>1, <1>2

-----------------------------------------------------------------------------
(* The functions, instruction by instruction *)

(* add_to_list, list_contains, push, empty, copy, update_or_add_entry and  *)
(* get_detail: one access, with the mutex of the datum locked.             *)
LEMMA OneSection ==
  ASSUME NEW m, NEW a, a.op \in Accesses \ Jumps, MutexOf(a.at) = m
  PROVE  /\ Disciplined(Guarded(m, <<a>>))
         /\ ReadsLocked(Guarded(m, <<a>>)) /\ WritesLocked(Guarded(m, <<a>>))
         /\ a.at \notin AllResources => NoResource(Guarded(m, <<a>>))
<1> DEFINE s == Guarded(m, <<a>>)
<1>1. s \in Seq({Lock(m), a, Unlock(m)})
  BY DEF Guarded
<1>2. Len(s) = 3 /\ s[1] = Lock(m) /\ s[2] = a /\ s[3] = Unlock(m)
  BY DEF Guarded
<1> HIDE DEF s
<1>3. /\ s[1].op = "lock" /\ s[1].at = m
      /\ s[2].op \in Accesses \ Jumps /\ MutexOf(s[2].at) = m /\ s[2].at = a.at
      /\ s[3].op = "unlock" /\ s[3].at = m
  BY <1>2 DEF Lock, Unlock
<1>4. Free(s, 1) /\ InLock(s, 2, m) /\ InLock(s, 3, m) /\ Free(s, 4)
  BY <1>3, Places DEF Leads
<1>5. DOMAIN s = 1 .. 3 /\ \A i \in 1 .. 3 : i \in {1, 2, 3}
  BY <1>1, <1>2
<1>6. DisciplinedAt(s, 1) /\ DisciplinedAt(s, 2) /\ DisciplinedAt(s, 3)
  BY <1>3, <1>4, DisciplinedPlaces DEF Accesses, Reads, Writes, Jumps
<1>7. Disciplined(s)
  BY <1>2, <1>4, <1>5, <1>6, PlaceSays DEF Disciplined
<1>8. ReadsLocked(s) /\ WritesLocked(s)
  BY <1>2, <1>3, <1>4, <1>5, PlaceSays DEF ReadsLocked, WritesLocked, ReadLocked, Reads, Writes
<1>9. a.at \notin AllResources => NoResource(s)
  BY <1>2, <1>3, <1>5 DEF NoResource, Accesses, Reads, Writes
<1> QED BY <1>7, <1>8, <1>9 DEF s

(* get_and_process_data and operator==: two such sections. *)
LEMMA TwoSections ==
  ASSUME NEW m, NEW a, a.op \in Accesses \ Jumps, MutexOf(a.at) = m,
         NEW n, NEW b, b.op \in Accesses \ Jumps, MutexOf(b.at) = n
  PROVE  LET s == Guarded(m, <<a>>) \o Guarded(n, <<b>>)
         IN  /\ Disciplined(s) /\ ReadsLocked(s) /\ WritesLocked(s)
             /\ a.at \notin AllResources /\ b.at \notin AllResources => NoResource(s)
<1> DEFINE s == Guarded(m, <<a>>) \o Guarded(n, <<b>>)
<1>1. s \in Seq({Lock(m), a, Unlock(m), Lock(n), b, Unlock(n)})
  BY DEF Guarded
<1>2. /\ Len(s) = 6 /\ s[1] = Lock(m) /\ s[2] = a /\ s[3] = Unlock(m)
      /\ s[4] = Lock(n) /\ s[5] = b /\ s[6] = Unlock(n)
  BY DEF Guarded
<1> HIDE DEF s
<1>3. /\ s[1].op = "lock" /\ s[1].at = m
      /\ s[2].op \in Accesses \ Jumps /\ MutexOf(s[2].at) = m /\ s[2].at = a.at
      /\ s[3].op = "unlock" /\ s[3].at = m /\ s[4].op = "lock" /\ s[4].at = n
      /\ s[5].op \in Accesses \ Jumps /\ MutexOf(s[5].at) = n /\ s[5].at = b.at
      /\ s[6].op = "unlock" /\ s[6].at = n
  BY <1>2 DEF Lock, Unlock
<1>4. /\ Free(s, 1) /\ InLock(s, 2, m) /\ InLock(s, 3, m)
      /\ Free(s, 4) /\ InLock(s, 5, n) /\ InLock(s, 6, n) /\ Free(s, 7)
  BY <1>3, Places DEF Leads
<1>5. DOMAIN s = 1 .. 6 /\ \A i \in 1 .. 6 : i \in {1, 2, 3, 4, 5, 6}
  BY <1>1, <1>2
<1>6. /\ DisciplinedAt(s, 1) /\ DisciplinedAt(s, 2) /\ DisciplinedAt(s, 3)
      /\ DisciplinedAt(s, 4) /\ DisciplinedAt(s, 5) /\ DisciplinedAt(s, 6)
  BY <1>3, <1>4, DisciplinedPlaces DEF Accesses, Reads, Writes, Jumps
<1>7. Disciplined(s)
  BY <1>2, <1>4, <1>5, <1>6, PlaceSays DEF Disciplined
<1>8. ReadsLocked(s) /\ WritesLocked(s)
  BY <1>2, <1>3, <1>4, <1>5, PlaceSays DEF ReadsLocked, WritesLocked, ReadLocked, Reads, Writes
<1>9. a.at \notin AllResources /\ b.at \notin AllResources => NoResource(s)
  BY <1>2, <1>3, <1>5 DEF NoResource, Accesses, Reads, Writes
<1> QED BY <1>7, <1>8, <1>9 DEF s

(* Comparison of an object with itself. *)
LEMMA NoSection ==
  Disciplined(<<>>) /\ ReadsLocked(<<>>) /\ WritesLocked(<<>>) /\ NoResource(<<>>)
<1>1. Len(<<>>) = 0 /\ DOMAIN <<>> = 1 .. 0
  OBVIOUS
<1>2. NothingOpen(<<>>, 1)
  BY First
<1> QED BY <1>1, <1>2 DEF Disciplined, ReadsLocked, WritesLocked, NoResource

(* send_data, receive_data and get_my_class_instance: creation in a        *)
(* call_once, followed by the use.                                         *)
LEMMA CallOnceThenUse ==
  ASSUME NEW f, NEW x
  PROVE  LET s == CallOnce(f, <<Create(x)>>) \o <<Read(x)>>
         IN  /\ Disciplined(s) /\ ReadsFree(s)
             /\ Len(s) = 4 /\ s[1] = Once(f, 2) /\ s[2] = Create(x)
             /\ s[3] = Done(f) /\ s[4] = Read(x)
             /\ \A p \in OnceCreators : Resources(p) = {x} /\ FlagOf(p) = f => Creator(p, s)
<1> DEFINE s == CallOnce(f, <<Create(x)>>) \o <<Read(x)>>
<1>1. s \in Seq({Once(f, 2), Create(x), Done(f), Read(x)})
  BY DEF CallOnce
<1>2. Len(s) = 4 /\ s[1] = Once(f, 2) /\ s[2] = Create(x) /\ s[3] = Done(f) /\ s[4] = Read(x)
  BY DEF CallOnce
<1> HIDE DEF s
<1>3. /\ s[1].op = "once" /\ s[1].at = f /\ s[1].skip = 2 /\ s[2].op = "create" /\ s[2].at = x
      /\ s[3].op = "done" /\ s[3].at = f /\ s[4].op = "read" /\ s[4].at = x
  BY <1>2 DEF Once, Create, Done, Read
<1>4. Free(s, 1) /\ InOnce(s, 2, f) /\ InOnce(s, 3, f) /\ Free(s, 4) /\ Free(s, 5)
  BY <1>3, Places DEF Leads, Accesses, Reads, Writes
<1>5. DOMAIN s = 1 .. 4 /\ \A i \in 1 .. 4 : i \in {1, 2, 3, 4}
  BY <1>1, <1>2
<1>6. s[1].op \in Jumps /\ s[1].skip \in Nat /\ Target(s, 1) = 4 /\ 4 \in 1 + 1 .. Len(s) + 1
  BY <1>2, <1>3 DEF Target, Jumps
<1>7. /\ DisciplinedAt(s, 1) /\ DisciplinedAt(s, 2) /\ DisciplinedAt(s, 3) /\ DisciplinedAt(s, 4)
  <2>1. DisciplinedAt(s, 1)
    BY <1>4, <1>6, JumpPlaces
  <2> QED BY <1>3, <1>4, <2>1, DisciplinedPlaces
<1>8. Disciplined(s)
  BY <1>2, <1>4, <1>5, <1>7, PlaceSays DEF Disciplined
<1>9. ReadsFree(s)
  BY <1>2, <1>3, <1>4, <1>5, PlaceSays DEF ReadsFree, Reads
<1>10. /\ Made(s, 1) = {} /\ Made(s, 2) = {}
       /\ Made(s, 3) = {x} /\ Made(s, 4) = {x} /\ Made(s, 5) = {x}
  <2>1. Made(s, 1) = {}
    BY MadePlaces
  <2>2. Made(s, 2) = {}
    BY <1>3, <2>1, MadePlaces, 1 + 1 = 2 DEF Writes
  <2>3. Made(s, 3) = {x}
    BY <1>3, <2>2, MadePlaces, 2 + 1 = 3 DEF Writes
  <2>4. Made(s, 4) = {x}
    BY <1>3, <2>3, MadePlaces, 3 + 1 = 4 DEF Writes
  <2>5. Made(s, 5) = {x}
    BY <1>3, <2>4, MadePlaces, 4 + 1 = 5 DEF Writes
  <2> QED BY <2>1, <2>2, <2>3, <2>4, <2>5
<1>11. Len(s) = 4 /\ Initialising(s, 2, f) /\ Initialising(s, 3, f)
  BY <1>2, <1>4, PlaceSays
<1>12. ASSUME NEW p \in OnceCreators, Resources(p) = {x}, FlagOf(p) = f PROVE Creator(p, s)
  <2>1. CreatorAt(p, s, 1)
    BY <1>3, <1>6, <1>10, <1>11, <1>12 DEF CreatorAt, Begun, Writes, Jumps
  <2>2. CreatorAt(p, s, 2)
    BY <1>3, <1>10, <1>11, <1>12 DEF CreatorAt, Begun, Writes, Jumps
  <2>3. CreatorAt(p, s, 3)
    BY <1>3, <1>10, <1>11, <1>12 DEF CreatorAt, Begun, Writes, Jumps
  <2>4. CreatorAt(p, s, 4)
    BY <1>3, <1>10, <1>11, <1>12 DEF CreatorAt, Begun, Writes, Jumps
  <2> QED BY <1>3, <1>5, <1>10, <1>11, <1>12, <2>1, <2>2, <2>3, <2>4 DEF Creator, Begun, Writes
<1> QED BY <1>2, <1>8, <1>9, <1>12 DEF s

(* foo: what is locked at each place. *)
LEMMA foo_sections ==
  /\ Disciplined(foo) /\ ReadsFree(foo) /\ NoResource(foo)
<1> DEFINE s == foo
<1>1. s \in Seq({Lock("x.m"), Write("unprotected"), Unlock("x.m"), Read("unprotected"),
              Write("x.data")})
  BY DEF foo, process_data, evil_function, Guarded
<1>2. /\ Len(s) = 8 /\ s[1] = Lock("x.m") /\ s[2] = Write("unprotected")
      /\ s[3] = Unlock("x.m") /\ s[4] = Lock("x.m") /\ s[5] = Write("unprotected")
      /\ s[6] = Unlock("x.m") /\ s[7] = Read("unprotected") /\ s[8] = Write("x.data")
  BY DEF foo, process_data, evil_function, Guarded
<1>3. /\ s[1].op = "lock" /\ s[1].at = "x.m"
      /\ s[2].op = "write" /\ s[2].at = "unprotected"
      /\ s[3].op = "unlock" /\ s[3].at = "x.m" /\ s[4].op = "lock" /\ s[4].at = "x.m"
      /\ s[5].op = "write" /\ s[5].at = "unprotected"
      /\ s[6].op = "unlock" /\ s[6].at = "x.m"
      /\ s[7].op = "read" /\ s[7].at = "unprotected"
      /\ s[8].op = "write" /\ s[8].at = "x.data"
  BY <1>2 DEF Lock, Read, Unlock, Write
<1>4. /\ Free(s, 1) /\ InLock(s, 2, "x.m") /\ InLock(s, 3, "x.m") /\ Free(s, 4)
      /\ InLock(s, 5, "x.m") /\ InLock(s, 6, "x.m") /\ Free(s, 7) /\ Free(s, 8)
      /\ Free(s, 9)
  BY <1>3, Places DEF Leads, Accesses, Reads, Writes
<1>5. DOMAIN s = 1 .. 8 /\ \A i \in 1 .. 8 : i \in {1, 2, 3, 4, 5, 6, 7, 8}
  BY <1>1, <1>2
<1>7. /\ DisciplinedAt(s, 1) /\ DisciplinedAt(s, 2) /\ DisciplinedAt(s, 3)
      /\ DisciplinedAt(s, 4) /\ DisciplinedAt(s, 5) /\ DisciplinedAt(s, 6)
      /\ DisciplinedAt(s, 7) /\ DisciplinedAt(s, 8)
  BY <1>3, <1>4, DisciplinedPlaces
<1>8. Disciplined(s)
  BY <1>2, <1>4, <1>5, <1>7, PlaceSays DEF Disciplined
<1>9. /\ ReadsFree(s)
  BY <1>2, <1>3, <1>4, <1>5, PlaceSays
     DEF ReadsFree, Reads, Writes
<1>10. NoResource(s)
  BY <1>2, <1>3, <1>5 DEF NoResource, AllResources, Accesses, Reads, Writes
<1> QED BY <1>8, <1>9, <1>10

(* pop_ref: what is locked at each place. *)
LEMMA pop_ref_sections ==
  /\ Disciplined(pop_ref) /\ ReadsLocked(pop_ref) /\ WritesLocked(pop_ref)
  /\ NoResource(pop_ref)
<1> DEFINE s == pop_ref
<1>1. s \in Seq({Lock("m"), Read("data"), Unlock("m"), Write("data")})
  BY DEF pop_ref, empty, Guarded
<1>2. /\ Len(s) = 7 /\ s[1] = Lock("m") /\ s[2] = Lock("m") /\ s[3] = Read("data")
      /\ s[4] = Unlock("m") /\ s[5] = Read("data") /\ s[6] = Write("data")
      /\ s[7] = Unlock("m")
  BY DEF pop_ref, empty, Guarded
<1>3. /\ s[1].op = "lock" /\ s[1].at = "m" /\ s[2].op = "lock" /\ s[2].at = "m"
      /\ s[3].op = "read" /\ s[3].at = "data" /\ s[4].op = "unlock" /\ s[4].at = "m"
      /\ s[5].op = "read" /\ s[5].at = "data" /\ s[6].op = "write" /\ s[6].at = "data"
      /\ s[7].op = "unlock" /\ s[7].at = "m"
  BY <1>2 DEF Lock, Read, Unlock, Write
<1>4. /\ Free(s, 1) /\ InLock(s, 2, "m") /\ Stuck(s, 3) /\ Stuck(s, 4) /\ Stuck(s, 5)
      /\ Stuck(s, 6) /\ Stuck(s, 7) /\ Stuck(s, 8)
  BY <1>3, Places DEF Leads, Accesses, Reads, Writes
<1>5. DOMAIN s = 1 .. 7 /\ \A i \in 1 .. 7 : i \in {1, 2, 3, 4, 5, 6, 7}
  BY <1>1, <1>2
<1>7. /\ DisciplinedAt(s, 1) /\ DisciplinedAt(s, 2)
  BY <1>3, <1>4, DisciplinedPlaces
<1>8. Disciplined(s)
  BY <1>2, <1>4, <1>5, <1>7, PlaceSays DEF Disciplined
<1>9. /\ ReadsLocked(s) /\ WritesLocked(s)
  BY <1>2, <1>3, <1>4, <1>5, PlaceSays
     DEF ReadsLocked, WritesLocked, ReadLocked, MutexOf, Reads, Writes
<1>10. NoResource(s)
  BY <1>2, <1>3, <1>5 DEF NoResource, AllResources, Accesses, Reads, Writes
<1> QED BY <1>8, <1>9, <1>10

(* thread_a: what is locked at each place. *)
LEMMA thread_a_sections ==
  /\ Disciplined(thread_a) /\ ReadsFree(thread_a) /\ NoResource(thread_a)
<1> DEFINE s == thread_a
<1>1. s \in Seq({Write("low_level"), Write("high_level")})
  BY DEF thread_a, high_level_func, low_level_func
<1>2. /\ Len(s) = 2 /\ s[1] = Write("low_level") /\ s[2] = Write("high_level")
  BY DEF thread_a, high_level_func, low_level_func
<1>3. /\ s[1].op = "write" /\ s[1].at = "low_level"
      /\ s[2].op = "write" /\ s[2].at = "high_level"
  BY <1>2 DEF Write
<1>4. /\ Free(s, 1) /\ Free(s, 2) /\ Free(s, 3)
  BY <1>3, Places DEF Leads, Accesses, Reads, Writes
<1>5. DOMAIN s = 1 .. 2 /\ \A i \in 1 .. 2 : i \in {1, 2}
  BY <1>1, <1>2
<1>7. /\ DisciplinedAt(s, 1) /\ DisciplinedAt(s, 2)
  BY <1>3, <1>4, DisciplinedPlaces
<1>8. Disciplined(s)
  BY <1>2, <1>4, <1>5, <1>7, PlaceSays DEF Disciplined
<1>9. /\ ReadsFree(s)
  BY <1>2, <1>3, <1>4, <1>5, PlaceSays
     DEF ReadsFree, Reads, Writes
<1>10. NoResource(s)
  BY <1>2, <1>3, <1>5 DEF NoResource, AllResources, Accesses, Reads, Writes
<1> QED BY <1>8, <1>9, <1>10

(* thread_b: what is locked at each place. *)
LEMMA thread_b_sections ==
  /\ Disciplined(thread_b) /\ ReadsFree(thread_b) /\ NoResource(thread_b)
<1> DEFINE s == thread_b
<1>1. s \in Seq({Write("low_level"), Write("high_level"), Write("other")})
  BY DEF thread_b, other_stuff, high_level_func, low_level_func
<1>2. /\ Len(s) = 3 /\ s[1] = Write("low_level") /\ s[2] = Write("high_level")
      /\ s[3] = Write("other")
  BY DEF thread_b, other_stuff, high_level_func, low_level_func
<1>3. /\ s[1].op = "write" /\ s[1].at = "low_level"
      /\ s[2].op = "write" /\ s[2].at = "high_level"
      /\ s[3].op = "write" /\ s[3].at = "other"
  BY <1>2 DEF Write
<1>4. /\ Free(s, 1) /\ Free(s, 2) /\ Free(s, 3) /\ Free(s, 4)
  BY <1>3, Places DEF Leads, Accesses, Reads, Writes
<1>5. DOMAIN s = 1 .. 3 /\ \A i \in 1 .. 3 : i \in {1, 2, 3}
  BY <1>1, <1>2
<1>7. /\ DisciplinedAt(s, 1) /\ DisciplinedAt(s, 2) /\ DisciplinedAt(s, 3)
  BY <1>3, <1>4, DisciplinedPlaces
<1>8. Disciplined(s)
  BY <1>2, <1>4, <1>5, <1>7, PlaceSays DEF Disciplined
<1>9. /\ ReadsFree(s)
  BY <1>2, <1>3, <1>4, <1>5, PlaceSays
     DEF ReadsFree, Reads, Writes
<1>10. NoResource(s)
  BY <1>2, <1>3, <1>5 DEF NoResource, AllResources, Accesses, Reads, Writes
<1> QED BY <1>8, <1>9, <1>10

(* process_locked: what is locked at each place. *)
LEMMA process_locked_sections ==
  /\ Disciplined(process_locked) /\ ReadsLocked(process_locked)
  /\ WritesLocked(process_locked) /\ NoResource(process_locked)
<1> DEFINE s == process_locked
<1>1. s \in Seq({Lock("some_mutex"), Write("prepared"), Read("prepared"),
              Unlock("some_mutex")})
  BY DEF process_locked, get_lock
<1>2. /\ Len(s) = 4 /\ s[1] = Lock("some_mutex") /\ s[2] = Write("prepared")
      /\ s[3] = Read("prepared") /\ s[4] = Unlock("some_mutex")
  BY DEF process_locked, get_lock
<1>3. /\ s[1].op = "lock" /\ s[1].at = "some_mutex"
      /\ s[2].op = "write" /\ s[2].at = "prepared"
      /\ s[3].op = "read" /\ s[3].at = "prepared"
      /\ s[4].op = "unlock" /\ s[4].at = "some_mutex"
  BY <1>2 DEF Lock, Read, Unlock, Write
<1>4. /\ Free(s, 1) /\ InLock(s, 2, "some_mutex") /\ InLock(s, 3, "some_mutex")
      /\ InLock(s, 4, "some_mutex") /\ Free(s, 5)
  BY <1>3, Places DEF Leads, Accesses, Reads, Writes
<1>5. DOMAIN s = 1 .. 4 /\ \A i \in 1 .. 4 : i \in {1, 2, 3, 4}
  BY <1>1, <1>2
<1>7. /\ DisciplinedAt(s, 1) /\ DisciplinedAt(s, 2) /\ DisciplinedAt(s, 3)
      /\ DisciplinedAt(s, 4)
  BY <1>3, <1>4, DisciplinedPlaces
<1>8. Disciplined(s)
  BY <1>2, <1>4, <1>5, <1>7, PlaceSays DEF Disciplined
<1>9. /\ ReadsLocked(s) /\ WritesLocked(s)
  BY <1>2, <1>3, <1>4, <1>5, PlaceSays
     DEF ReadsLocked, WritesLocked, ReadLocked, MutexOf, Reads, Writes
<1>10. NoResource(s)
  BY <1>2, <1>3, <1>5 DEF NoResource, AllResources, Accesses, Reads, Writes
<1> QED BY <1>8, <1>9, <1>10

(* find_entry: what is locked at each place. *)
LEMMA find_entry_sections ==
  /\ Disciplined(find_entry) /\ ReadsLocked(find_entry) /\ WritesLocked(find_entry)
  /\ NoResource(find_entry)
<1> DEFINE s == find_entry
<1>1. s \in Seq({LockShared("entry_mutex"), Read("entries"), UnlockShared("entry_mutex")})
  BY DEF find_entry
<1>2. /\ Len(s) = 3 /\ s[1] = LockShared("entry_mutex") /\ s[2] = Read("entries")
      /\ s[3] = UnlockShared("entry_mutex")
  BY DEF find_entry
<1>3. /\ s[1].op = "lock_shared" /\ s[1].at = "entry_mutex"
      /\ s[2].op = "read" /\ s[2].at = "entries"
      /\ s[3].op = "unlock_shared" /\ s[3].at = "entry_mutex"
  BY <1>2 DEF LockShared, Read, UnlockShared
<1>4. /\ Free(s, 1) /\ InShare(s, 2, "entry_mutex") /\ InShare(s, 3, "entry_mutex")
      /\ Free(s, 4)
  BY <1>3, Places DEF Leads, Accesses, Reads, Writes
<1>5. DOMAIN s = 1 .. 3 /\ \A i \in 1 .. 3 : i \in {1, 2, 3}
  BY <1>1, <1>2
<1>7. /\ DisciplinedAt(s, 1) /\ DisciplinedAt(s, 2) /\ DisciplinedAt(s, 3)
  BY <1>3, <1>4, DisciplinedPlaces
<1>8. Disciplined(s)
  BY <1>2, <1>4, <1>5, <1>7, PlaceSays DEF Disciplined
<1>9. /\ ReadsLocked(s) /\ WritesLocked(s)
  BY <1>2, <1>3, <1>4, <1>5, PlaceSays
     DEF ReadsLocked, WritesLocked, ReadLocked, MutexOf, Reads, Writes
<1>10. NoResource(s)
  BY <1>2, <1>3, <1>5 DEF NoResource, AllResources, Accesses, Reads, Writes
<1> QED BY <1>8, <1>9, <1>10

(* lazy_initialization_single_thread: what is locked, and what is created, at each place. *)
LEMMA lazy_initialization_single_thread_sections ==
  /\ Disciplined(lazy_initialization_single_thread)
  /\ ReadsFree(lazy_initialization_single_thread)
  /\ Creator("single_thread", lazy_initialization_single_thread)
<1> DEFINE s == lazy_initialization_single_thread
<1>1. s \in Seq({Unless("resource_ptr", 2), Create("resource"), Write("resource_ptr"),
              Read("resource_ptr"), Read("resource")})
  BY DEF lazy_initialization_single_thread, LazyReset, reset, use
<1>2. /\ Len(s) = 5 /\ s[1] = Unless("resource_ptr", 2) /\ s[2] = Create("resource")
      /\ s[3] = Write("resource_ptr") /\ s[4] = Read("resource_ptr")
      /\ s[5] = Read("resource")
  BY DEF lazy_initialization_single_thread, LazyReset, reset, use
<1>3. /\ s[1].op = "unless" /\ s[1].at = "resource_ptr" /\ s[1].skip = 2
      /\ s[2].op = "create" /\ s[2].at = "resource"
      /\ s[3].op = "write" /\ s[3].at = "resource_ptr"
      /\ s[4].op = "read" /\ s[4].at = "resource_ptr"
      /\ s[5].op = "read" /\ s[5].at = "resource"
  BY <1>2 DEF Create, Read, Unless, Write
<1>4. /\ Free(s, 1) /\ Free(s, 2) /\ Free(s, 3) /\ Free(s, 4) /\ Free(s, 5)
      /\ Free(s, 6)
  BY <1>3, Places DEF Leads, Accesses, Reads, Writes
<1>5. DOMAIN s = 1 .. 5 /\ \A i \in 1 .. 5 : i \in {1, 2, 3, 4, 5}
  BY <1>1, <1>2
<1>6. /\ s[1].op \in Jumps /\ s[1].skip \in Nat /\ Target(s, 1) = 4 /\ 4 \in 1 + 1 .. Len(s) + 1
  BY <1>2, <1>3 DEF Target, Jumps
<1>7. /\ DisciplinedAt(s, 1) /\ DisciplinedAt(s, 2) /\ DisciplinedAt(s, 3)
      /\ DisciplinedAt(s, 4) /\ DisciplinedAt(s, 5)
  <2>1. DisciplinedAt(s, 1)
    BY <1>4, <1>6, JumpPlaces
  <2> QED BY <1>3, <1>4, <2>1, DisciplinedPlaces
<1>8. Disciplined(s)
  BY <1>2, <1>4, <1>5, <1>7, PlaceSays DEF Disciplined
<1>9. /\ ReadsFree(s)
  BY <1>2, <1>3, <1>4, <1>5, PlaceSays
     DEF ReadsFree, Reads, Writes
<1>10. Resources("single_thread") = {"resource", "resource_ptr"}
  BY DEF Resources, Creators, OnceCreators
<1>11. /\ Made(s, 1) = {} /\ Made(s, 2) = {} /\ Made(s, 3) = {"resource"}
       /\ Made(s, 4) = {"resource", "resource_ptr"}
       /\ Made(s, 5) = {"resource", "resource_ptr"}
       /\ Made(s, 6) = {"resource", "resource_ptr"}
  <2>1. Made(s, 1) = {}
    BY <1>3, MadePlaces DEF Writes
  <2>2. Made(s, 2) = {}
    BY <1>3, <2>1, MadePlaces, 1 + 1 = 2 DEF Writes
  <2>3. Made(s, 3) = {"resource"}
    BY <1>3, <2>2, MadePlaces, 2 + 1 = 3 DEF Writes
  <2>4. Made(s, 4) = {"resource", "resource_ptr"}
    BY <1>3, <2>3, MadePlaces, 3 + 1 = 4 DEF Writes
  <2>5. Made(s, 5) = {"resource", "resource_ptr"}
    BY <1>3, <2>4, MadePlaces, 4 + 1 = 5 DEF Writes
  <2>6. Made(s, 6) = {"resource", "resource_ptr"}
    BY <1>3, <2>5, MadePlaces, 5 + 1 = 6 DEF Writes
  <2> QED BY <2>1, <2>2, <2>3, <2>4, <2>5, <2>6
<1>12. /\ Len(s) = 5
  BY <1>2, <1>4, PlaceSays
<1>13. /\ CreatorAt("single_thread", s, 1) /\ CreatorAt("single_thread", s, 2)
       /\ CreatorAt("single_thread", s, 3) /\ CreatorAt("single_thread", s, 4)
       /\ CreatorAt("single_thread", s, 5)
  <2>1. CreatorAt("single_thread", s, 1)
    BY <1>3, <1>6, <1>10, <1>11, <1>12
       DEF CreatorAt, Begun, Writes, Jumps, OnceCreators
  <2>2. CreatorAt("single_thread", s, 2)
    BY <1>3, <1>6, <1>10, <1>11, <1>12
       DEF CreatorAt, Begun, Writes, Jumps, OnceCreators
  <2>3. CreatorAt("single_thread", s, 3)
    BY <1>3, <1>6, <1>10, <1>11, <1>12
       DEF CreatorAt, Begun, Writes, Jumps, OnceCreators
  <2>4. CreatorAt("single_thread", s, 4)
    BY <1>3, <1>6, <1>10, <1>11, <1>12
       DEF CreatorAt, Begun, Writes, Jumps, OnceCreators
  <2>5. CreatorAt("single_thread", s, 5)
    BY <1>3, <1>6, <1>10, <1>11, <1>12
       DEF CreatorAt, Begun, Writes, Jumps, OnceCreators
  <2> QED BY <2>1, <2>2, <2>3, <2>4, <2>5
<1>14. Creator("single_thread", s)
  BY <1>3, <1>5, <1>10, <1>11, <1>12, <1>13 DEF Creator, Begun, Writes
<1> QED BY <1>8, <1>9, <1>14

(* unnecesary_serialized_protection: what is locked, and what is created, at each place. *)
LEMMA unnecesary_serialized_protection_sections ==
  /\ Disciplined(unnecesary_serialized_protection)
  /\ ReadsLockedOrFree(unnecesary_serialized_protection)
  /\ WritesLocked(unnecesary_serialized_protection)
  /\ Creator("serialized", unnecesary_serialized_protection)
<1> DEFINE s == unnecesary_serialized_protection
<1>1. s \in Seq({Lock("resource_mutex"), Unless("resource_ptr", 2), Create("resource"),
              Write("resource_ptr"), Unlock("resource_mutex"), Read("resource_ptr"),
              Read("resource")})
  BY DEF unnecesary_serialized_protection, LazyReset, Guarded, reset, use
<1>2. /\ Len(s) = 7 /\ s[1] = Lock("resource_mutex") /\ s[2] = Unless("resource_ptr", 2)
      /\ s[3] = Create("resource") /\ s[4] = Write("resource_ptr")
      /\ s[5] = Unlock("resource_mutex") /\ s[6] = Read("resource_ptr")
      /\ s[7] = Read("resource")
  BY DEF unnecesary_serialized_protection, LazyReset, Guarded, reset, use
<1>3. /\ s[1].op = "lock" /\ s[1].at = "resource_mutex"
      /\ s[2].op = "unless" /\ s[2].at = "resource_ptr" /\ s[2].skip = 2
      /\ s[3].op = "create" /\ s[3].at = "resource"
      /\ s[4].op = "write" /\ s[4].at = "resource_ptr"
      /\ s[5].op = "unlock" /\ s[5].at = "resource_mutex"
      /\ s[6].op = "read" /\ s[6].at = "resource_ptr"
      /\ s[7].op = "read" /\ s[7].at = "resource"
  BY <1>2 DEF Create, Lock, Read, Unless, Unlock, Write
<1>4. /\ Free(s, 1) /\ InLock(s, 2, "resource_mutex") /\ InLock(s, 3, "resource_mutex")
      /\ InLock(s, 4, "resource_mutex") /\ InLock(s, 5, "resource_mutex") /\ Free(s, 6)
      /\ Free(s, 7) /\ Free(s, 8)
  BY <1>3, Places DEF Leads, Accesses, Reads, Writes
<1>5. DOMAIN s = 1 .. 7 /\ \A i \in 1 .. 7 : i \in {1, 2, 3, 4, 5, 6, 7}
  BY <1>1, <1>2
<1>6. /\ s[2].op \in Jumps /\ s[2].skip \in Nat /\ Target(s, 2) = 5 /\ 5 \in 2 + 1 .. Len(s) + 1
  BY <1>2, <1>3 DEF Target, Jumps
<1>7. /\ DisciplinedAt(s, 1) /\ DisciplinedAt(s, 2) /\ DisciplinedAt(s, 3)
      /\ DisciplinedAt(s, 4) /\ DisciplinedAt(s, 5) /\ DisciplinedAt(s, 6)
      /\ DisciplinedAt(s, 7)
  <2>1. DisciplinedAt(s, 2)
    BY <1>4, <1>6, JumpPlaces
  <2> QED BY <1>3, <1>4, <2>1, DisciplinedPlaces
<1>8. Disciplined(s)
  BY <1>2, <1>4, <1>5, <1>7, PlaceSays DEF Disciplined
<1>9. /\ ReadsLockedOrFree(s) /\ WritesLocked(s)
  BY <1>2, <1>3, <1>4, <1>5, PlaceSays
     DEF ReadsLockedOrFree, WritesLocked, ReadLocked, MutexOf, Reads, Writes
<1>10. Resources("serialized") = {"resource", "resource_ptr"}
  BY DEF Resources, Creators, OnceCreators
<1>11. /\ Made(s, 1) = {} /\ Made(s, 2) = {} /\ Made(s, 3) = {}
       /\ Made(s, 4) = {"resource"} /\ Made(s, 5) = {"resource", "resource_ptr"}
       /\ Made(s, 6) = {"resource", "resource_ptr"}
       /\ Made(s, 7) = {"resource", "resource_ptr"}
       /\ Made(s, 8) = {"resource", "resource_ptr"}
  <2>1. Made(s, 1) = {}
    BY <1>3, MadePlaces DEF Writes
  <2>2. Made(s, 2) = {}
    BY <1>3, <2>1, MadePlaces, 1 + 1 = 2 DEF Writes
  <2>3. Made(s, 3) = {}
    BY <1>3, <2>2, MadePlaces, 2 + 1 = 3 DEF Writes
  <2>4. Made(s, 4) = {"resource"}
    BY <1>3, <2>3, MadePlaces, 3 + 1 = 4 DEF Writes
  <2>5. Made(s, 5) = {"resource", "resource_ptr"}
    BY <1>3, <2>4, MadePlaces, 4 + 1 = 5 DEF Writes
  <2>6. Made(s, 6) = {"resource", "resource_ptr"}
    BY <1>3, <2>5, MadePlaces, 5 + 1 = 6 DEF Writes
  <2>7. Made(s, 7) = {"resource", "resource_ptr"}
    BY <1>3, <2>6, MadePlaces, 6 + 1 = 7 DEF Writes
  <2>8. Made(s, 8) = {"resource", "resource_ptr"}
    BY <1>3, <2>7, MadePlaces, 7 + 1 = 8 DEF Writes
  <2> QED BY <2>1, <2>2, <2>3, <2>4, <2>5, <2>6, <2>7, <2>8
<1>12. /\ Len(s) = 7 /\ Locked(s, 2, "resource_mutex")
  BY <1>2, <1>4, PlaceSays
<1>13. /\ CreatorAt("serialized", s, 1) /\ CreatorAt("serialized", s, 2)
       /\ CreatorAt("serialized", s, 3) /\ CreatorAt("serialized", s, 4)
       /\ CreatorAt("serialized", s, 5) /\ CreatorAt("serialized", s, 6)
       /\ CreatorAt("serialized", s, 7)
  <2>1. CreatorAt("serialized", s, 1)
    BY <1>3, <1>6, <1>10, <1>11, <1>12
       DEF CreatorAt, Begun, Writes, Jumps, OnceCreators
  <2>2. CreatorAt("serialized", s, 2)
    BY <1>3, <1>6, <1>10, <1>11, <1>12
       DEF CreatorAt, Begun, Writes, Jumps, OnceCreators
  <2>3. CreatorAt("serialized", s, 3)
    BY <1>3, <1>6, <1>10, <1>11, <1>12
       DEF CreatorAt, Begun, Writes, Jumps, OnceCreators
  <2>4. CreatorAt("serialized", s, 4)
    BY <1>3, <1>6, <1>10, <1>11, <1>12
       DEF CreatorAt, Begun, Writes, Jumps, OnceCreators
  <2>5. CreatorAt("serialized", s, 5)
    BY <1>3, <1>6, <1>10, <1>11, <1>12
       DEF CreatorAt, Begun, Writes, Jumps, OnceCreators
  <2>6. CreatorAt("serialized", s, 6)
    BY <1>3, <1>6, <1>10, <1>11, <1>12
       DEF CreatorAt, Begun, Writes, Jumps, OnceCreators
  <2>7. CreatorAt("serialized", s, 7)
    BY <1>3, <1>6, <1>10, <1>11, <1>12
       DEF CreatorAt, Begun, Writes, Jumps, OnceCreators
  <2> QED BY <2>1, <2>2, <2>3, <2>4, <2>5, <2>6, <2>7
<1>14. Creator("serialized", s)
  BY <1>3, <1>5, <1>10, <1>11, <1>12, <1>13 DEF Creator, Begun, Writes
<1> QED BY <1>8, <1>9, <1>14

(* double_checked_in_order: what is locked, and what is created, at each place. *)
LEMMA double_checked_in_order_sections ==
  /\ Disciplined(double_checked_in_order) /\ ReadsLockedOrFree(double_checked_in_order)
  /\ WritesLocked(double_checked_in_order)
  /\ Creator("double_checked", double_checked_in_order)
<1> DEFINE s == double_checked_in_order
<1>1. s \in Seq({Unless("resource_ptr", 5), Lock("resource_mutex"),
              Unless("resource_ptr", 2), Create("resource"), Write("resource_ptr"),
              Unlock("resource_mutex"), Read("resource_ptr"), Read("resource")})
  BY DEF double_checked_in_order, DoubleChecked, LazyReset, Guarded, reset, use
<1>2. /\ Len(s) = 8 /\ s[1] = Unless("resource_ptr", 5) /\ s[2] = Lock("resource_mutex")
      /\ s[3] = Unless("resource_ptr", 2) /\ s[4] = Create("resource")
      /\ s[5] = Write("resource_ptr") /\ s[6] = Unlock("resource_mutex")
      /\ s[7] = Read("resource_ptr") /\ s[8] = Read("resource")
  BY DEF double_checked_in_order, DoubleChecked, LazyReset, Guarded, reset, use
<1>3. /\ s[1].op = "unless" /\ s[1].at = "resource_ptr" /\ s[1].skip = 5
      /\ s[2].op = "lock" /\ s[2].at = "resource_mutex"
      /\ s[3].op = "unless" /\ s[3].at = "resource_ptr" /\ s[3].skip = 2
      /\ s[4].op = "create" /\ s[4].at = "resource"
      /\ s[5].op = "write" /\ s[5].at = "resource_ptr"
      /\ s[6].op = "unlock" /\ s[6].at = "resource_mutex"
      /\ s[7].op = "read" /\ s[7].at = "resource_ptr"
      /\ s[8].op = "read" /\ s[8].at = "resource"
  BY <1>2 DEF Create, Lock, Read, Unless, Unlock, Write
<1>4. /\ Free(s, 1) /\ Free(s, 2) /\ InLock(s, 3, "resource_mutex")
      /\ InLock(s, 4, "resource_mutex") /\ InLock(s, 5, "resource_mutex")
      /\ InLock(s, 6, "resource_mutex") /\ Free(s, 7) /\ Free(s, 8) /\ Free(s, 9)
  BY <1>3, Places DEF Leads, Accesses, Reads, Writes
<1>5. DOMAIN s = 1 .. 8 /\ \A i \in 1 .. 8 : i \in {1, 2, 3, 4, 5, 6, 7, 8}
  BY <1>1, <1>2
<1>6. /\ s[1].op \in Jumps /\ s[1].skip \in Nat /\ Target(s, 1) = 7 /\ 7 \in 1 + 1 .. Len(s) + 1
      /\ s[3].op \in Jumps /\ s[3].skip \in Nat /\ Target(s, 3) = 6 /\ 6 \in 3 + 1 .. Len(s) + 1
  BY <1>2, <1>3 DEF Target, Jumps
<1>7. /\ DisciplinedAt(s, 1) /\ DisciplinedAt(s, 2) /\ DisciplinedAt(s, 3)
      /\ DisciplinedAt(s, 4) /\ DisciplinedAt(s, 5) /\ DisciplinedAt(s, 6)
      /\ DisciplinedAt(s, 7) /\ DisciplinedAt(s, 8)
  <2>1. DisciplinedAt(s, 1)
    BY <1>4, <1>6, JumpPlaces
  <2>2. DisciplinedAt(s, 3)
    BY <1>4, <1>6, JumpPlaces
  <2> QED BY <1>3, <1>4, <2>1, <2>2, DisciplinedPlaces
<1>8. Disciplined(s)
  BY <1>2, <1>4, <1>5, <1>7, PlaceSays DEF Disciplined
<1>9. /\ ReadsLockedOrFree(s) /\ WritesLocked(s)
  BY <1>2, <1>3, <1>4, <1>5, PlaceSays
     DEF ReadsLockedOrFree, WritesLocked, ReadLocked, MutexOf, Reads, Writes
<1>10. Resources("double_checked") = {"resource", "resource_ptr"}
  BY DEF Resources, Creators, OnceCreators
<1>11. /\ Made(s, 1) = {} /\ Made(s, 2) = {} /\ Made(s, 3) = {} /\ Made(s, 4) = {}
       /\ Made(s, 5) = {"resource"} /\ Made(s, 6) = {"resource", "resource_ptr"}
       /\ Made(s, 7) = {"resource", "resource_ptr"}
       /\ Made(s, 8) = {"resource", "resource_ptr"}
       /\ Made(s, 9) = {"resource", "resource_ptr"}
  <2>1. Made(s, 1) = {}
    BY <1>3, MadePlaces DEF Writes
  <2>2. Made(s, 2) = {}
    BY <1>3, <2>1, MadePlaces, 1 + 1 = 2 DEF Writes
  <2>3. Made(s, 3) = {}
    BY <1>3, <2>2, MadePlaces, 2 + 1 = 3 DEF Writes
  <2>4. Made(s, 4) = {}
    BY <1>3, <2>3, MadePlaces, 3 + 1 = 4 DEF Writes
  <2>5. Made(s, 5) = {"resource"}
    BY <1>3, <2>4, MadePlaces, 4 + 1 = 5 DEF Writes
  <2>6. Made(s, 6) = {"resource", "resource_ptr"}
    BY <1>3, <2>5, MadePlaces, 5 + 1 = 6 DEF Writes
  <2>7. Made(s, 7) = {"resource", "resource_ptr"}
    BY <1>3, <2>6, MadePlaces, 6 + 1 = 7 DEF Writes
  <2>8. Made(s, 8) = {"resource", "resource_ptr"}
    BY <1>3, <2>7, MadePlaces, 7 + 1 = 8 DEF Writes
  <2>9. Made(s, 9) = {"resource", "resource_ptr"}
    BY <1>3, <2>8, MadePlaces, 8 + 1 = 9 DEF Writes
  <2> QED BY <2>1, <2>2, <2>3, <2>4, <2>5, <2>6, <2>7, <2>8, <2>9
<1>12. /\ Len(s) = 8 /\ Locked(s, 3, "resource_mutex")
  BY <1>2, <1>4, PlaceSays
<1>13. /\ CreatorAt("double_checked", s, 1) /\ CreatorAt("double_checked", s, 2)
       /\ CreatorAt("double_checked", s, 3) /\ CreatorAt("double_checked", s, 4)
       /\ CreatorAt("double_checked", s, 5) /\ CreatorAt("double_checked", s, 6)
       /\ CreatorAt("double_checked", s, 7) /\ CreatorAt("double_checked", s, 8)
  <2>1. CreatorAt("double_checked", s, 1)
    BY <1>3, <1>6, <1>10, <1>11, <1>12
       DEF CreatorAt, Begun, Writes, Jumps, OnceCreators
  <2>2. CreatorAt("double_checked", s, 2)
    BY <1>3, <1>6, <1>10, <1>11, <1>12
       DEF CreatorAt, Begun, Writes, Jumps, OnceCreators
  <2>3. CreatorAt("double_checked", s, 3)
    BY <1>3, <1>6, <1>10, <1>11, <1>12
       DEF CreatorAt, Begun, Writes, Jumps, OnceCreators
  <2>4. CreatorAt("double_checked", s, 4)
    BY <1>3, <1>6, <1>10, <1>11, <1>12
       DEF CreatorAt, Begun, Writes, Jumps, OnceCreators
  <2>5. CreatorAt("double_checked", s, 5)
    BY <1>3, <1>6, <1>10, <1>11, <1>12
       DEF CreatorAt, Begun, Writes, Jumps, OnceCreators
  <2>6. CreatorAt("double_checked", s, 6)
    BY <1>3, <1>6, <1>10, <1>11, <1>12
       DEF CreatorAt, Begun, Writes, Jumps, OnceCreators
  <2>7. CreatorAt("double_checked", s, 7)
    BY <1>3, <1>6, <1>10, <1>11, <1>12
       DEF CreatorAt, Begun, Writes, Jumps, OnceCreators
  <2>8. CreatorAt("double_checked", s, 8)
    BY <1>3, <1>6, <1>10, <1>11, <1>12
       DEF CreatorAt, Begun, Writes, Jumps, OnceCreators
  <2> QED BY <2>1, <2>2, <2>3, <2>4, <2>5, <2>6, <2>7, <2>8
<1>14. Creator("double_checked", s)
  BY <1>3, <1>5, <1>10, <1>11, <1>12, <1>13 DEF Creator, Begun, Writes
<1> QED BY <1>8, <1>9, <1>14

(* double_checked_reordered: what is locked, and what is created, at each place. *)
LEMMA double_checked_reordered_sections ==
  /\ Disciplined(double_checked_reordered)
  /\ ReadsLockedOrFree(double_checked_reordered)
  /\ WritesLocked(double_checked_reordered)
  /\ Creator("double_checked", double_checked_reordered)
<1> DEFINE s == double_checked_reordered
<1>1. s \in Seq({Unless("resource_ptr", 5), Lock("resource_mutex"),
              Unless("resource_ptr", 2), Write("resource_ptr"), Write("resource"),
              Unlock("resource_mutex"), Read("resource_ptr"), Read("resource")})
  BY DEF double_checked_reordered, DoubleChecked, Guarded, use
<1>2. /\ Len(s) = 8 /\ s[1] = Unless("resource_ptr", 5) /\ s[2] = Lock("resource_mutex")
      /\ s[3] = Unless("resource_ptr", 2) /\ s[4] = Write("resource_ptr")
      /\ s[5] = Write("resource") /\ s[6] = Unlock("resource_mutex")
      /\ s[7] = Read("resource_ptr") /\ s[8] = Read("resource")
  BY DEF double_checked_reordered, DoubleChecked, Guarded, use
<1>3. /\ s[1].op = "unless" /\ s[1].at = "resource_ptr" /\ s[1].skip = 5
      /\ s[2].op = "lock" /\ s[2].at = "resource_mutex"
      /\ s[3].op = "unless" /\ s[3].at = "resource_ptr" /\ s[3].skip = 2
      /\ s[4].op = "write" /\ s[4].at = "resource_ptr"
      /\ s[5].op = "write" /\ s[5].at = "resource"
      /\ s[6].op = "unlock" /\ s[6].at = "resource_mutex"
      /\ s[7].op = "read" /\ s[7].at = "resource_ptr"
      /\ s[8].op = "read" /\ s[8].at = "resource"
  BY <1>2 DEF Lock, Read, Unless, Unlock, Write
<1>4. /\ Free(s, 1) /\ Free(s, 2) /\ InLock(s, 3, "resource_mutex")
      /\ InLock(s, 4, "resource_mutex") /\ InLock(s, 5, "resource_mutex")
      /\ InLock(s, 6, "resource_mutex") /\ Free(s, 7) /\ Free(s, 8) /\ Free(s, 9)
  BY <1>3, Places DEF Leads, Accesses, Reads, Writes
<1>5. DOMAIN s = 1 .. 8 /\ \A i \in 1 .. 8 : i \in {1, 2, 3, 4, 5, 6, 7, 8}
  BY <1>1, <1>2
<1>6. /\ s[1].op \in Jumps /\ s[1].skip \in Nat /\ Target(s, 1) = 7 /\ 7 \in 1 + 1 .. Len(s) + 1
      /\ s[3].op \in Jumps /\ s[3].skip \in Nat /\ Target(s, 3) = 6 /\ 6 \in 3 + 1 .. Len(s) + 1
  BY <1>2, <1>3 DEF Target, Jumps
<1>7. /\ DisciplinedAt(s, 1) /\ DisciplinedAt(s, 2) /\ DisciplinedAt(s, 3)
      /\ DisciplinedAt(s, 4) /\ DisciplinedAt(s, 5) /\ DisciplinedAt(s, 6)
      /\ DisciplinedAt(s, 7) /\ DisciplinedAt(s, 8)
  <2>1. DisciplinedAt(s, 1)
    BY <1>4, <1>6, JumpPlaces
  <2>2. DisciplinedAt(s, 3)
    BY <1>4, <1>6, JumpPlaces
  <2> QED BY <1>3, <1>4, <2>1, <2>2, DisciplinedPlaces
<1>8. Disciplined(s)
  BY <1>2, <1>4, <1>5, <1>7, PlaceSays DEF Disciplined
<1>9. /\ ReadsLockedOrFree(s) /\ WritesLocked(s)
  BY <1>2, <1>3, <1>4, <1>5, PlaceSays
     DEF ReadsLockedOrFree, WritesLocked, ReadLocked, MutexOf, Reads, Writes
<1>10. Resources("double_checked") = {"resource", "resource_ptr"}
  BY DEF Resources, Creators, OnceCreators
<1>11. /\ Made(s, 1) = {} /\ Made(s, 2) = {} /\ Made(s, 3) = {} /\ Made(s, 4) = {}
       /\ Made(s, 5) = {"resource_ptr"} /\ Made(s, 6) = {"resource_ptr", "resource"}
       /\ Made(s, 7) = {"resource_ptr", "resource"}
       /\ Made(s, 8) = {"resource_ptr", "resource"}
       /\ Made(s, 9) = {"resource_ptr", "resource"}
  <2>1. Made(s, 1) = {}
    BY <1>3, MadePlaces DEF Writes
  <2>2. Made(s, 2) = {}
    BY <1>3, <2>1, MadePlaces, 1 + 1 = 2 DEF Writes
  <2>3. Made(s, 3) = {}
    BY <1>3, <2>2, MadePlaces, 2 + 1 = 3 DEF Writes
  <2>4. Made(s, 4) = {}
    BY <1>3, <2>3, MadePlaces, 3 + 1 = 4 DEF Writes
  <2>5. Made(s, 5) = {"resource_ptr"}
    BY <1>3, <2>4, MadePlaces, 4 + 1 = 5 DEF Writes
  <2>6. Made(s, 6) = {"resource_ptr", "resource"}
    BY <1>3, <2>5, MadePlaces, 5 + 1 = 6 DEF Writes
  <2>7. Made(s, 7) = {"resource_ptr", "resource"}
    BY <1>3, <2>6, MadePlaces, 6 + 1 = 7 DEF Writes
  <2>8. Made(s, 8) = {"resource_ptr", "resource"}
    BY <1>3, <2>7, MadePlaces, 7 + 1 = 8 DEF Writes
  <2>9. Made(s, 9) = {"resource_ptr", "resource"}
    BY <1>3, <2>8, MadePlaces, 8 + 1 = 9 DEF Writes
  <2> QED BY <2>1, <2>2, <2>3, <2>4, <2>5, <2>6, <2>7, <2>8, <2>9
<1>12. /\ Len(s) = 8 /\ Locked(s, 3, "resource_mutex")
  BY <1>2, <1>4, PlaceSays
<1>13. /\ CreatorAt("double_checked", s, 1) /\ CreatorAt("double_checked", s, 2)
       /\ CreatorAt("double_checked", s, 3) /\ CreatorAt("double_checked", s, 4)
       /\ CreatorAt("double_checked", s, 5) /\ CreatorAt("double_checked", s, 6)
       /\ CreatorAt("double_checked", s, 7) /\ CreatorAt("double_checked", s, 8)
  <2>1. CreatorAt("double_checked", s, 1)
    BY <1>3, <1>6, <1>10, <1>11, <1>12
       DEF CreatorAt, Begun, Writes, Jumps, OnceCreators
  <2>2. CreatorAt("double_checked", s, 2)
    BY <1>3, <1>6, <1>10, <1>11, <1>12
       DEF CreatorAt, Begun, Writes, Jumps, OnceCreators
  <2>3. CreatorAt("double_checked", s, 3)
    BY <1>3, <1>6, <1>10, <1>11, <1>12
       DEF CreatorAt, Begun, Writes, Jumps, OnceCreators
  <2>4. CreatorAt("double_checked", s, 4)
    BY <1>3, <1>6, <1>10, <1>11, <1>12
       DEF CreatorAt, Begun, Writes, Jumps, OnceCreators
  <2>5. CreatorAt("double_checked", s, 5)
    BY <1>3, <1>6, <1>10, <1>11, <1>12
       DEF CreatorAt, Begun, Writes, Jumps, OnceCreators
  <2>6. CreatorAt("double_checked", s, 6)
    BY <1>3, <1>6, <1>10, <1>11, <1>12
       DEF CreatorAt, Begun, Writes, Jumps, OnceCreators
  <2>7. CreatorAt("double_checked", s, 7)
    BY <1>3, <1>6, <1>10, <1>11, <1>12
       DEF CreatorAt, Begun, Writes, Jumps, OnceCreators
  <2>8. CreatorAt("double_checked", s, 8)
    BY <1>3, <1>6, <1>10, <1>11, <1>12
       DEF CreatorAt, Begun, Writes, Jumps, OnceCreators
  <2> QED BY <2>1, <2>2, <2>3, <2>4, <2>5, <2>6, <2>7, <2>8
<1>14. Creator("double_checked", s)
  BY <1>3, <1>5, <1>10, <1>11, <1>12, <1>13 DEF Creator, Begun, Writes
<1> QED BY <1>8, <1>9, <1>14

(* well_managed_protected_initialization: what is locked, and what is created, at each place. *)
LEMMA well_managed_protected_initialization_sections ==
  /\ Disciplined(well_managed_protected_initialization)
  /\ ReadsFree(well_managed_protected_initialization)
  /\ Creator("call_once", well_managed_protected_initialization)
<1> DEFINE s == well_managed_protected_initialization
<1>1. s \in Seq({Once("resouce_flag", 3), Create("resource"), Write("resource_ptr"),
              Done("resouce_flag"), Read("resource_ptr"), Read("resource")})
  BY DEF well_managed_protected_initialization, CallOnce, reset, use
<1>2. /\ Len(s) = 6 /\ s[1] = Once("resouce_flag", 3) /\ s[2] = Create("resource")
      /\ s[3] = Write("resource_ptr") /\ s[4] = Done("resouce_flag")
      /\ s[5] = Read("resource_ptr") /\ s[6] = Read("resource")
  BY DEF well_managed_protected_initialization, CallOnce, reset, use
<1>3. /\ s[1].op = "once" /\ s[1].at = "resouce_flag" /\ s[1].skip = 3
      /\ s[2].op = "create" /\ s[2].at = "resource"
      /\ s[3].op = "write" /\ s[3].at = "resource_ptr"
      /\ s[4].op = "done" /\ s[4].at = "resouce_flag"
      /\ s[5].op = "read" /\ s[5].at = "resource_ptr"
      /\ s[6].op = "read" /\ s[6].at = "resource"
  BY <1>2 DEF Create, Done, Once, Read, Write
<1>4. /\ Free(s, 1) /\ InOnce(s, 2, "resouce_flag") /\ InOnce(s, 3, "resouce_flag")
      /\ InOnce(s, 4, "resouce_flag") /\ Free(s, 5) /\ Free(s, 6) /\ Free(s, 7)
  BY <1>3, Places DEF Leads, Accesses, Reads, Writes
<1>5. DOMAIN s = 1 .. 6 /\ \A i \in 1 .. 6 : i \in {1, 2, 3, 4, 5, 6}
  BY <1>1, <1>2
<1>6. /\ s[1].op \in Jumps /\ s[1].skip \in Nat /\ Target(s, 1) = 5 /\ 5 \in 1 + 1 .. Len(s) + 1
  BY <1>2, <1>3 DEF Target, Jumps
<1>7. /\ DisciplinedAt(s, 1) /\ DisciplinedAt(s, 2) /\ DisciplinedAt(s, 3)
      /\ DisciplinedAt(s, 4) /\ DisciplinedAt(s, 5) /\ DisciplinedAt(s, 6)
  <2>1. DisciplinedAt(s, 1)
    BY <1>4, <1>6, JumpPlaces
  <2> QED BY <1>3, <1>4, <2>1, DisciplinedPlaces
<1>8. Disciplined(s)
  BY <1>2, <1>4, <1>5, <1>7, PlaceSays DEF Disciplined
<1>9. /\ ReadsFree(s)
  BY <1>2, <1>3, <1>4, <1>5, PlaceSays
     DEF ReadsFree, Reads, Writes
<1>10. Resources("call_once") = {"resource", "resource_ptr"}
  BY DEF Resources, Creators, OnceCreators
<1>11. /\ Made(s, 1) = {} /\ Made(s, 2) = {} /\ Made(s, 3) = {"resource"}
       /\ Made(s, 4) = {"resource", "resource_ptr"}
       /\ Made(s, 5) = {"resource", "resource_ptr"}
       /\ Made(s, 6) = {"resource", "resource_ptr"}
       /\ Made(s, 7) = {"resource", "resource_ptr"}
  <2>1. Made(s, 1) = {}
    BY <1>3, MadePlaces DEF Writes
  <2>2. Made(s, 2) = {}
    BY <1>3, <2>1, MadePlaces, 1 + 1 = 2 DEF Writes
  <2>3. Made(s, 3) = {"resource"}
    BY <1>3, <2>2, MadePlaces, 2 + 1 = 3 DEF Writes
  <2>4. Made(s, 4) = {"resource", "resource_ptr"}
    BY <1>3, <2>3, MadePlaces, 3 + 1 = 4 DEF Writes
  <2>5. Made(s, 5) = {"resource", "resource_ptr"}
    BY <1>3, <2>4, MadePlaces, 4 + 1 = 5 DEF Writes
  <2>6. Made(s, 6) = {"resource", "resource_ptr"}
    BY <1>3, <2>5, MadePlaces, 5 + 1 = 6 DEF Writes
  <2>7. Made(s, 7) = {"resource", "resource_ptr"}
    BY <1>3, <2>6, MadePlaces, 6 + 1 = 7 DEF Writes
  <2> QED BY <2>1, <2>2, <2>3, <2>4, <2>5, <2>6, <2>7
<1>12. /\ Len(s) = 6 /\ Initialising(s, 2, "resouce_flag")
       /\ Initialising(s, 3, "resouce_flag") /\ Initialising(s, 4, "resouce_flag")
       /\ FlagOf("call_once") = "resouce_flag"
  BY <1>2, <1>4, PlaceSays DEF FlagOf
<1>13. /\ CreatorAt("call_once", s, 1) /\ CreatorAt("call_once", s, 2)
       /\ CreatorAt("call_once", s, 3) /\ CreatorAt("call_once", s, 4)
       /\ CreatorAt("call_once", s, 5) /\ CreatorAt("call_once", s, 6)
  <2>1. CreatorAt("call_once", s, 1)
    BY <1>3, <1>6, <1>10, <1>11, <1>12
       DEF CreatorAt, Begun, Writes, Jumps, OnceCreators
  <2>2. CreatorAt("call_once", s, 2)
    BY <1>3, <1>6, <1>10, <1>11, <1>12
       DEF CreatorAt, Begun, Writes, Jumps, OnceCreators
  <2>3. CreatorAt("call_once", s, 3)
    BY <1>3, <1>6, <1>10, <1>11, <1>12
       DEF CreatorAt, Begun, Writes, Jumps, OnceCreators
  <2>4. CreatorAt("call_once", s, 4)
    BY <1>3, <1>6, <1>10, <1>11, <1>12
       DEF CreatorAt, Begun, Writes, Jumps, OnceCreators
  <2>5. CreatorAt("call_once", s, 5)
    BY <1>3, <1>6, <1>10, <1>11, <1>12
       DEF CreatorAt, Begun, Writes, Jumps, OnceCreators
  <2>6. CreatorAt("call_once", s, 6)
    BY <1>3, <1>6, <1>10, <1>11, <1>12
       DEF CreatorAt, Begun, Writes, Jumps, OnceCreators
  <2> QED BY <2>1, <2>2, <2>3, <2>4, <2>5, <2>6
<1>14. Creator("call_once", s)
  BY <1>3, <1>5, <1>10, <1>11, <1>12, <1>13 DEF Creator, Begun, Writes
<1> QED BY <1>8, <1>9, <1>14

-----------------------------------------------------------------------------
(* What every function of a program keeps *)

LockingPrograms  == {"list", "stack", "ownership", "granularity", "comparison", "dns"}
LockedCreation   == {"serialized", "double_checked"}
UnlockedPrograms == {"wrapper", "layered", "single_thread", "call_once", "connection", "static"}

Keeps(p, s) ==
  /\ Disciplined(s)
  /\ p \in LockingPrograms => ReadsLocked(s) /\ WritesLocked(s)
  /\ p \in LockedCreation => ReadsLockedOrFree(s) /\ WritesLocked(s)
  /\ p \in UnlockedPrograms => ReadsFree(s)

(* The functions of the programs that lock, and nothing else. *)
LEMMA LockingFunctions ==
  \A p \in LockingPrograms : \A f \in DOMAIN Operations[p] :
    LET s == Operations[p][f] IN Disciplined(s) /\ ReadsLocked(s) /\ WritesLocked(s)
<1> DEFINE Locks(s) == Disciplined(s) /\ ReadsLocked(s) /\ WritesLocked(s)
<1>1. /\ MutexOf("myList") = "myMutex" /\ MutexOf("data") = "m"
      /\ MutexOf("chunks") = "the_mutex" /\ MutexOf("results") = "the_mutex"
      /\ MutexOf("a") = "a" /\ MutexOf("b") = "b" /\ MutexOf("entries") = "entry_mutex"
  BY DEF MutexOf
<1>2. \A x : /\ Read(x).at = x /\ Read(x).op = "read"
             /\ Write(x).at = x /\ Write(x).op = "write"
             /\ Copy(x).at = x /\ Copy(x).op = "copy"
             /\ Create(x).at = x /\ Create(x).op = "create"
  BY DEF Read, Write, Copy, Create
<1>3. {"read", "write", "copy", "create"} \subseteq Accesses \ Jumps
  BY DEF Accesses, Reads, Writes, Jumps
<1>4. Locks(add_to_list) /\ Locks(list_contains)
  BY <1>1, <1>2, <1>3, OneSection DEF add_to_list, list_contains
<1>5. Locks(push) /\ Locks(empty) /\ Locks(copy)
  BY <1>1, <1>2, <1>3, OneSection DEF push, empty, copy
<1>6. Locks(pop_ref) /\ Locks(pop_ptr)
  <2>1. pop_ptr = pop_ref
    BY DEF pop_ptr, pop_ref
  <2> QED BY <2>1, pop_ref_sections
<1>7. Locks(process_locked)
  BY process_locked_sections
<1>8. Locks(get_and_process_data)
  BY <1>1, <1>2, <1>3, TwoSections DEF get_and_process_data
<1>9. Locks(equal("a", "a")) /\ Locks(equal("a", "b")) /\ Locks(equal("b", "a"))
  <2>1. equal("a", "a") = <<>>
    BY DEF equal
  <2>2. equal("a", "b") = Guarded("a", <<Read("a")>>) \o Guarded("b", <<Read("b")>>)
    BY DEF equal, get_detail
  <2>3. equal("b", "a") = Guarded("b", <<Read("b")>>) \o Guarded("a", <<Read("a")>>)
    BY DEF equal, get_detail
  <2>4. Locks(Guarded("a", <<Read("a")>>) \o Guarded("b", <<Read("b")>>))
    BY <1>1, <1>2, <1>3, TwoSections
  <2>5. Locks(Guarded("b", <<Read("b")>>) \o Guarded("a", <<Read("a")>>))
    BY <1>1, <1>2, <1>3, TwoSections
  <2>6. Locks(<<>>)
    BY NoSection
  <2> HIDE DEF Locks
  <2> QED BY <2>1, <2>2, <2>3, <2>4, <2>5, <2>6
<1>10. Locks(find_entry) /\ Locks(update_or_add_entry)
  BY <1>1, <1>2, <1>3, OneSection, find_entry_sections DEF update_or_add_entry
<1> HIDE DEF Locks
<1>11. \A f \in DOMAIN Operations["list"] : Locks(Operations["list"][f])
  BY <1>4 DEF Operations
<1>12. \A f \in DOMAIN Operations["stack"] : Locks(Operations["stack"][f])
  BY <1>5, <1>6 DEF Operations
<1>13. \A f \in DOMAIN Operations["ownership"] : Locks(Operations["ownership"][f])
  BY <1>7 DEF Operations
<1>14. \A f \in DOMAIN Operations["granularity"] : Locks(Operations["granularity"][f])
  BY <1>8 DEF Operations
<1>15. \A f \in DOMAIN Operations["comparison"] : Locks(Operations["comparison"][f])
  BY <1>9 DEF Operations
<1>16. \A f \in DOMAIN Operations["dns"] : Locks(Operations["dns"][f])
  BY <1>10 DEF Operations
<1>17. \A p \in LockingPrograms : \A f \in DOMAIN Operations[p] : Locks(Operations[p][f])
  BY <1>11, <1>12, <1>13, <1>14, <1>15, <1>16 DEF LockingPrograms
<1> QED BY <1>17 DEF Locks

(* The functions of the other programs. *)
LEMMA OtherFunctions ==
  /\ \A p \in LockedCreation : \A f \in DOMAIN Operations[p] :
       LET s == Operations[p][f] IN Disciplined(s) /\ ReadsLockedOrFree(s) /\ WritesLocked(s)
  /\ \A p \in UnlockedPrograms : \A f \in DOMAIN Operations[p] :
       LET s == Operations[p][f] IN Disciplined(s) /\ ReadsFree(s)
<1> DEFINE Creates(s) == Disciplined(s) /\ ReadsLockedOrFree(s) /\ WritesLocked(s)
           IsFree(s) == Disciplined(s) /\ ReadsFree(s)
<1>1. /\ Creates(unnecesary_serialized_protection)
      /\ Creates(double_checked_in_order) /\ Creates(double_checked_reordered)
  BY unnecesary_serialized_protection_sections, double_checked_in_order_sections,
     double_checked_reordered_sections
<1>2. /\ IsFree(foo) /\ IsFree(thread_a) /\ IsFree(thread_b)
      /\ IsFree(lazy_initialization_single_thread)
      /\ IsFree(well_managed_protected_initialization)
  BY foo_sections, thread_a_sections, thread_b_sections,
     lazy_initialization_single_thread_sections,
     well_managed_protected_initialization_sections
<1>3. IsFree(send_data) /\ IsFree(receive_data) /\ IsFree(get_my_class_instance)
  BY CallOnceThenUse
     DEF send_data, receive_data, get_my_class_instance, open_connection
<1> HIDE DEF Creates, IsFree
<1>4. \A f \in DOMAIN Operations["serialized"] : Creates(Operations["serialized"][f])
  BY <1>1 DEF Operations
<1>5. \A f \in DOMAIN Operations["double_checked"] : Creates(Operations["double_checked"][f])
  BY <1>1 DEF Operations
<1>6. \A f \in DOMAIN Operations["wrapper"] : IsFree(Operations["wrapper"][f])
  BY <1>2 DEF Operations
<1>7. \A f \in DOMAIN Operations["layered"] : IsFree(Operations["layered"][f])
  BY <1>2 DEF Operations
<1>8. \A f \in DOMAIN Operations["single_thread"] : IsFree(Operations["single_thread"][f])
  BY <1>2 DEF Operations
<1>9. \A f \in DOMAIN Operations["call_once"] : IsFree(Operations["call_once"][f])
  BY <1>2 DEF Operations
<1>10. \A f \in DOMAIN Operations["connection"] : IsFree(Operations["connection"][f])
  BY <1>3 DEF Operations
<1>11. \A f \in DOMAIN Operations["static"] : IsFree(Operations["static"][f])
  BY <1>3 DEF Operations
<1>12. \A p \in LockedCreation : \A f \in DOMAIN Operations[p] : Creates(Operations[p][f])
  BY <1>4, <1>5 DEF LockedCreation
<1>13. \A p \in UnlockedPrograms : \A f \in DOMAIN Operations[p] : IsFree(Operations[p][f])
  BY <1>6, <1>7, <1>8, <1>9, <1>10, <1>11 DEF UnlockedPrograms
<1> QED BY <1>12, <1>13 DEF Creates, IsFree

(* Every function of every program keeps the rules of its program. *)
LEMMA FunctionsKeepRules ==
  \A p \in DOMAIN Operations : \A f \in DOMAIN Operations[p] : Keeps(p, Operations[p][f])
<1>1. DOMAIN Operations = LockingPrograms \cup LockedCreation \cup UnlockedPrograms
  BY DEF Operations, LockingPrograms, LockedCreation, UnlockedPrograms
<1>2. /\ LockingPrograms \cap LockedCreation = {} /\ LockingPrograms \cap UnlockedPrograms = {}
      /\ LockedCreation \cap UnlockedPrograms = {}
  BY DEF LockingPrograms, LockedCreation, UnlockedPrograms
<1> QED BY <1>1, <1>2, LockingFunctions, OtherFunctions DEF Keeps

(* Every function of a creating program is a creator, and no other program *)
(* has anything to do with what they create.                               *)
LEMMA CreatorFunctions ==
  \A p \in Creators : \A f \in DOMAIN Operations[p] : Creator(p, Operations[p][f])
<1>1. Creator("single_thread", lazy_initialization_single_thread)
  BY lazy_initialization_single_thread_sections
<1>2. Creator("serialized", unnecesary_serialized_protection)
  BY unnecesary_serialized_protection_sections
<1>3. Creator("double_checked", double_checked_in_order)
  BY double_checked_in_order_sections
<1>4. Creator("double_checked", double_checked_reordered)
  BY double_checked_reordered_sections
<1>5. Creator("call_once", well_managed_protected_initialization)
  BY well_managed_protected_initialization_sections
<1>6. Creator("connection", send_data) /\ Creator("connection", receive_data)
  <2>1. /\ "connection" \in OnceCreators /\ Resources("connection") = {"connection"}
        /\ FlagOf("connection") = "connection_init_flag"
    BY DEF OnceCreators, Resources, FlagOf
  <2> QED BY <2>1, CallOnceThenUse DEF send_data, receive_data, open_connection
<1>7. Creator("static", get_my_class_instance)
  <2>1. /\ "static" \in OnceCreators /\ Resources("static") = {"instance"}
        /\ FlagOf("static") = "guard_of_instance"
    BY DEF OnceCreators, Resources, FlagOf
  <2> QED BY <2>1, CallOnceThenUse DEF get_my_class_instance
<1>8. \A f \in DOMAIN Operations["single_thread"] :
        Creator("single_thread", Operations["single_thread"][f])
  BY <1>1 DEF Operations
<1>9. \A f \in DOMAIN Operations["serialized"] :
        Creator("serialized", Operations["serialized"][f])
  BY <1>2 DEF Operations
<1>10. \A f \in DOMAIN Operations["double_checked"] :
         Creator("double_checked", Operations["double_checked"][f])
  BY <1>3, <1>4 DEF Operations
<1>11. \A f \in DOMAIN Operations["call_once"] :
         Creator("call_once", Operations["call_once"][f])
  BY <1>5 DEF Operations
<1>12. \A f \in DOMAIN Operations["connection"] :
         Creator("connection", Operations["connection"][f])
  BY <1>6 DEF Operations
<1>13. \A f \in DOMAIN Operations["static"] : Creator("static", Operations["static"][f])
  BY <1>7 DEF Operations
<1> QED BY <1>8, <1>9, <1>10, <1>11, <1>12, <1>13 DEF Creators, OnceCreators

(* No other program has anything to do with what the creators create. *)
LEMMA OthersCreateNothing ==
  \A p \in DOMAIN Operations \ Creators : \A f \in DOMAIN Operations[p] :
    NoResource(Operations[p][f])
<1>1. \A x : /\ Read(x).at = x /\ Read(x).op = "read"
             /\ Write(x).at = x /\ Write(x).op = "write"
             /\ Copy(x).at = x /\ Copy(x).op = "copy"
             /\ Create(x).at = x /\ Create(x).op = "create"
  BY DEF Read, Write, Copy, Create
<1>2. {"read", "write", "copy", "create"} \subseteq Accesses \ Jumps
  BY DEF Accesses, Reads, Writes, Jumps
<1>3. /\ MutexOf("myList") = "myMutex" /\ MutexOf("data") = "m"
      /\ MutexOf("chunks") = "the_mutex" /\ MutexOf("results") = "the_mutex"
      /\ MutexOf("a") = "a" /\ MutexOf("b") = "b" /\ MutexOf("entries") = "entry_mutex"
  BY DEF MutexOf
<1>4. AllResources \cap {"myList", "data", "chunks", "results", "a", "b", "entries"} = {}
  BY DEF AllResources
<1>5. NoResource(add_to_list) /\ NoResource(list_contains)
  BY <1>1, <1>2, <1>3, <1>4, OneSection DEF add_to_list, list_contains
<1>6. NoResource(push) /\ NoResource(empty) /\ NoResource(copy)
  BY <1>1, <1>2, <1>3, <1>4, OneSection DEF push, empty, copy
<1>7. NoResource(pop_ref) /\ NoResource(pop_ptr)
  <2>1. pop_ptr = pop_ref
    BY DEF pop_ptr, pop_ref
  <2> QED BY <2>1, pop_ref_sections
<1>8. NoResource(process_locked) /\ NoResource(foo) /\ NoResource(thread_a) /\ NoResource(thread_b)
  BY process_locked_sections, foo_sections, thread_a_sections, thread_b_sections
<1>9. NoResource(get_and_process_data)
  BY <1>1, <1>2, <1>3, <1>4, TwoSections DEF get_and_process_data
<1>10. /\ NoResource(equal("a", "a")) /\ NoResource(equal("a", "b"))
       /\ NoResource(equal("b", "a"))
  <2>1. equal("a", "a") = <<>>
    BY DEF equal
  <2>2. equal("a", "b") = Guarded("a", <<Read("a")>>) \o Guarded("b", <<Read("b")>>)
    BY DEF equal, get_detail
  <2>3. equal("b", "a") = Guarded("b", <<Read("b")>>) \o Guarded("a", <<Read("a")>>)
    BY DEF equal, get_detail
  <2>4. NoResource(Guarded("a", <<Read("a")>>) \o Guarded("b", <<Read("b")>>))
    BY <1>1, <1>2, <1>3, <1>4, TwoSections
  <2>5. NoResource(Guarded("b", <<Read("b")>>) \o Guarded("a", <<Read("a")>>))
    BY <1>1, <1>2, <1>3, <1>4, TwoSections
  <2> QED BY <2>1, <2>2, <2>3, <2>4, <2>5, NoSection
<1>11. NoResource(find_entry) /\ NoResource(update_or_add_entry)
  BY <1>1, <1>2, <1>3, <1>4, OneSection, find_entry_sections DEF update_or_add_entry
<1>12. \A f \in DOMAIN Operations["list"] : NoResource(Operations["list"][f])
  BY <1>5 DEF Operations
<1>13. \A f \in DOMAIN Operations["stack"] : NoResource(Operations["stack"][f])
  BY <1>6, <1>7 DEF Operations
<1>14. \A f \in DOMAIN Operations["ownership"] : NoResource(Operations["ownership"][f])
  BY <1>8 DEF Operations
<1>15. \A f \in DOMAIN Operations["wrapper"] : NoResource(Operations["wrapper"][f])
  BY <1>8 DEF Operations
<1>16. \A f \in DOMAIN Operations["layered"] : NoResource(Operations["layered"][f])
  BY <1>8 DEF Operations
<1>17. \A f \in DOMAIN Operations["granularity"] : NoResource(Operations["granularity"][f])
  BY <1>9 DEF Operations
<1>18. \A f \in DOMAIN Operations["comparison"] : NoResource(Operations["comparison"][f])
  BY <1>10 DEF Operations
<1>19. \A f \in DOMAIN Operations["dns"] : NoResource(Operations["dns"][f])
  BY <1>11 DEF Operations
<1>20. DOMAIN Operations \ Creators =
         {"list", "stack", "ownership", "wrapper", "layered", "granularity", "comparison", "dns"}
  BY DEF Operations, Creators, OnceCreators
<1> QED BY <1>12, <1>13, <1>14, <1>15, <1>16, <1>17, <1>18, <1>19, <1>20

-----------------------------------------------------------------------------
(* Threads own what their place says *)

Code(t) == Operations[program][fn[t]]

HoldsLock(t, m)  == fn[t] # NoCall /\ Locked(Code(t), ip[t], m)
HoldsShare(t, m) == fn[t] # NoCall /\ Shared(Code(t), ip[t], m)
RunsOnce(t, f)   == fn[t] # NoCall /\ Initialising(Code(t), ip[t], f)

OwnsAtPlace(t) ==
  /\ \A m \in Mutexes : owner[m] = t <=> HoldsLock(t, m)
  /\ \A m \in Mutexes : t \in sharers[m] <=> HoldsShare(t, m)
  /\ \A f \in Flags : runner[f] = t <=> RunsOnce(t, f)

OnItsWay(t) == IF fn[t] = NoCall THEN ip[t] = 1 ELSE ~Stuck(Code(t), ip[t])

(* The type of every variable. *)
TypeOK ==
  /\ program \in Programs
  /\ fn \in [Threads -> DOMAIN Operations[program] \cup {NoCall}]
  /\ ip \in [Threads -> Nat]
  /\ \A t \in Threads : fn[t] # NoCall => ip[t] \in 1 .. Len(Operations[program][fn[t]]) + 1
  /\ calls \in [Threads -> 0 .. MaxCalls]
  /\ owner \in [Mutexes -> Threads \cup {NoThread}]
  /\ sharers \in [Mutexes -> SUBSET Threads]
  /\ runner \in [Flags -> Threads \cup {NoThread}]
  /\ done \in SUBSET Flags
  /\ data \in [Data -> Nat]
  /\ seen \in [Threads -> SUBSET (Data \X Nat)]

PlaceInv == TypeOK /\ \A t \in Threads : OnItsWay(t) /\ OwnsAtPlace(t)

(* What an instruction of a function is about. *)
LEMMA SubjectOf ==
  ASSUME NEW ops, NEW p \in Programs, NEW f \in DOMAIN Operations[p],
         NEW i \in DOMAIN Operations[p][f], Operations[p][f][i].op \in ops
  PROVE  Operations[p][f][i].at \in Subjects(ops)
<1>1. Operations[p][f][i] \in {j \in Range(Operations[p][f]) : j.op \in ops}
  BY DEF Range
<1> QED BY <1>1 DEF Subjects

(* What is open somewhere is a mutex or a flag of the program. *)
LEMMA OpenSubject ==
  ASSUME NEW p \in Programs, NEW f \in DOMAIN Operations[p],
         NEW i \in 1 .. Len(Operations[p][f]) + 1, NEW x, Disciplined(Operations[p][f])
  PROVE  /\ Locked(Operations[p][f], i, x) => x \in Mutexes
         /\ Shared(Operations[p][f], i, x) => x \in Mutexes
         /\ Initialising(Operations[p][f], i, x) => x \in Flags
<1> DEFINE s == Operations[p][f]
<1>1. Len(s) \in Nat /\ DOMAIN s = 1 .. Len(s)
  BY DEF Disciplined
<1>2. ASSUME NEW in, NEW out, Open(s, i, in, out, x)
      PROVE  \E j \in DOMAIN s : s[j].op = in /\ s[j].at = x
  BY <1>1, <1>2 DEF Open
<1>3. Locked(s, i, x) => x \in Mutexes
  BY <1>2, SubjectOf DEF Locked, Mutexes
<1>4. Shared(s, i, x) => x \in Mutexes
  BY <1>2, SubjectOf DEF Shared, Mutexes
<1>5. Initialising(s, i, x) => x \in Flags
  BY <1>2, SubjectOf DEF Initialising, Flags
<1> QED BY <1>3, <1>4, <1>5

(* A thread that runs is at an instruction of a disciplined function. *)
LEMMA RunningAt ==
  ASSUME PlaceInv, NEW t \in Threads, Running(t)
  PROVE  /\ program \in Programs /\ fn[t] \in DOMAIN Operations[program]
         /\ Code(t) = Operations[program][fn[t]]
         /\ fn[t] # NoCall /\ Disciplined(Code(t))
         /\ Len(Code(t)) \in Nat /\ ip[t] \in 1 .. Len(Code(t)) /\ ip[t] \in DOMAIN Code(t)
         /\ ~Stuck(Code(t), ip[t]) /\ DisciplinedAt(Code(t), ip[t])
         /\ Instruction(t) = Code(t)[ip[t]]
         /\ Follows(Code(t), ip[t], ip[t] + 1)
<1>1. program \in Programs /\ fn[t] \in DOMAIN Operations[program] /\ fn[t] # NoCall
  BY DEF PlaceInv, TypeOK, Running
<1>2. Keeps(program, Code(t))
  BY <1>1, FunctionsKeepRules, GuardedAssumption DEF GuardedAssumption, Code
<1>3. Disciplined(Code(t))
  BY <1>2 DEF Keeps
<1>4. Len(Code(t)) \in Nat /\ ip[t] \in 1 .. Len(Code(t)) /\ ip[t] \in DOMAIN Code(t)
  BY <1>1, <1>3 DEF PlaceInv, TypeOK, Running, Code, Disciplined
<1>5. ~Stuck(Code(t), ip[t])
  BY <1>1 DEF PlaceInv, OnItsWay
<1>6. DisciplinedAt(Code(t), ip[t])
  BY <1>3, <1>4, <1>5 DEF Disciplined
<1>7. Follows(Code(t), ip[t], ip[t] + 1)
  BY <1>4, Following
<1>8. Instruction(t) = Code(t)[ip[t]]
  BY DEF Instruction, Code
<1> QED BY <1>1, <1>3, <1>4, <1>5, <1>6, <1>7, <1>8 DEF Code

(* The subject of an instruction is of its kind. *)
LEMMA SubjectTypes ==
  ASSUME PlaceInv, NEW t \in Threads, Running(t)
  PROVE  /\ Instruction(t).op \in {"lock", "unlock", "lock_shared", "unlock_shared"}
              => Subject(t) \in Mutexes
         /\ Instruction(t).op \in {"once", "done"} => Subject(t) \in Flags
         /\ Instruction(t).op \in Reads \cup Writes => Subject(t) \in Data
<1> DEFINE p == program
           f == fn[t]
           i == ip[t]
<1>1. /\ p \in Programs /\ f \in DOMAIN Operations[p] /\ i \in DOMAIN Operations[p][f]
      /\ Instruction(t) = Operations[p][f][i] /\ Subject(t) = Operations[p][f][i].at
      /\ Disciplined(Operations[p][f]) /\ DisciplinedAt(Operations[p][f], i)
      /\ i \in 1 .. Len(Operations[p][f]) + 1
  BY RunningAt DEF Subject
<1> HIDE DEF p, f, i
<1>2. Instruction(t).op \in {"lock", "lock_shared"} => Subject(t) \in Mutexes
  BY <1>1, SubjectOf DEF Mutexes
<1>3. Instruction(t).op \in {"unlock", "unlock_shared"} => Subject(t) \in Mutexes
  BY <1>1, OpenSubject DEF DisciplinedAt
<1>4. Instruction(t).op = "once" => Subject(t) \in Flags
  BY <1>1, SubjectOf DEF Flags
<1>5. Instruction(t).op = "done" => Subject(t) \in Flags
  BY <1>1, OpenSubject DEF DisciplinedAt
<1>6. Instruction(t).op \in Reads \cup Writes => Subject(t) \in Data
  BY <1>1, SubjectOf DEF Data
<1> QED BY <1>2, <1>3, <1>4, <1>5, <1>6

(* The two halves of the type invariant. *)
PlacesOK ==
  /\ program \in Programs
  /\ fn \in [Threads -> DOMAIN Operations[program] \cup {NoCall}]
  /\ ip \in [Threads -> Nat]
  /\ \A t \in Threads : fn[t] # NoCall => ip[t] \in 1 .. Len(Operations[program][fn[t]]) + 1
  /\ calls \in [Threads -> 0 .. MaxCalls]

ObjectsOK ==
  /\ owner \in [Mutexes -> Threads \cup {NoThread}]
  /\ sharers \in [Mutexes -> SUBSET Threads]
  /\ runner \in [Flags -> Threads \cup {NoThread}]
  /\ done \in SUBSET Flags
  /\ data \in [Data -> Nat]
  /\ seen \in [Threads -> SUBSET (Data \X Nat)]

(* A thread that does nothing holds what it held. *)
SamePlace(u) ==
  /\ \A m : HoldsLock(u, m)' <=> HoldsLock(u, m)
  /\ \A m : HoldsShare(u, m)' <=> HoldsShare(u, m)
  /\ \A f : RunsOnce(u, f)' <=> RunsOnce(u, f)
  /\ OnItsWay(u)' <=> OnItsWay(u)

(* Such a thread is one whose call and instruction stay the same. *)
LEMMA Unmoved ==
  ASSUME NEW u \in Threads, program' = program, fn'[u] = fn[u], ip'[u] = ip[u]
  PROVE  SamePlace(u)
BY DEF SamePlace, HoldsLock, HoldsShare, RunsOnce, OnItsWay, Code

(* A thread that has gone on to place j of its function. *)
Reaches(t, j) ==
  /\ \A m : HoldsLock(t, m)' <=> Locked(Code(t), j, m)
  /\ \A m : HoldsShare(t, m)' <=> Shared(Code(t), j, m)
  /\ \A f : RunsOnce(t, f)' <=> Initialising(Code(t), j, f)
  /\ OnItsWay(t)' <=> ~Stuck(Code(t), j)

(* A thread goes on by n instructions; the others stay where they are. *)
LEMMA Continuing ==
  ASSUME PlaceInv, NEW t \in Threads, Running(t), NEW n \in Nat, Continue(t, n),
         ip[t] + n \in 1 .. Len(Code(t)) + 1
  PROVE  /\ PlacesOK'
         /\ Reaches(t, ip[t] + n)
         /\ \A u \in Threads \ {t} : SamePlace(u)
<1>1. program' = program /\ fn' = fn /\ calls' = calls
  BY DEF Continue
<1>2. /\ ip' \in [Threads -> Nat] /\ ip'[t] = ip[t] + n
      /\ \A u \in Threads \ {t} : ip'[u] = ip[u]
  BY DEF Continue, PlaceInv, TypeOK
<1>3. PlacesOK'
  <2>1. ASSUME NEW u \in Threads, fn[u] # NoCall
        PROVE  ip'[u] \in 1 .. Len(Operations[program][fn[u]]) + 1
    BY <1>2, <2>1 DEF PlaceInv, TypeOK, Code
  <2> QED BY <1>1, <1>2, <2>1 DEF PlaceInv, TypeOK, PlacesOK
<1>4. Reaches(t, ip[t] + n)
  BY <1>1, <1>2 DEF Reaches, HoldsLock, HoldsShare, RunsOnce, OnItsWay, Code, Running
<1>5. \A u \in Threads \ {t} : SamePlace(u)
  BY <1>1, <1>2, Unmoved
<1> QED BY <1>3, <1>4, <1>5

(* A thread whose call has ended. *)
Leaves(t) ==
  /\ \A m : ~HoldsLock(t, m)' /\ ~HoldsShare(t, m)'
  /\ \A f : ~RunsOnce(t, f)'
  /\ OnItsWay(t)'

(* A call ends; the other threads stay where they are. *)
LEMMA EndingCall ==
  ASSUME PlaceInv, NEW t \in Threads, EndCall(t), UNCHANGED <<program, calls>>
  PROVE  /\ PlacesOK'
         /\ Leaves(t)
         /\ \A u \in Threads \ {t} : SamePlace(u)
<1>1. /\ fn' \in [Threads -> DOMAIN Operations[program] \cup {NoCall}] /\ fn'[t] = NoCall
      /\ ip' \in [Threads -> Nat] /\ ip'[t] = 1
      /\ \A u \in Threads \ {t} : fn'[u] = fn[u] /\ ip'[u] = ip[u]
  BY DEF EndCall, PlaceInv, TypeOK
<1>2. PlacesOK'
  <2>1. ASSUME NEW u \in Threads, fn'[u] # NoCall
        PROVE  ip'[u] \in 1 .. Len(Operations[program][fn'[u]]) + 1
    <3>1. u # t /\ fn'[u] = fn[u] /\ ip'[u] = ip[u]
      BY <1>1, <2>1
    <3> QED BY <2>1, <3>1 DEF PlaceInv, TypeOK
  <2> QED BY <1>1, <2>1 DEF PlaceInv, TypeOK, PlacesOK
<1>3. Leaves(t)
  BY <1>1 DEF Leaves, HoldsLock, HoldsShare, RunsOnce, OnItsWay
<1>4. \A u \in Threads \ {t} : SamePlace(u)
  BY <1>1, Unmoved
<1> QED BY <1>2, <1>3, <1>4

(* The place after an instruction that does not jump. *)
LEMMA NextPlace ==
  ASSUME PlaceInv, NEW t \in Threads, Running(t), Continue(t, 1)
  PROVE  /\ PlacesOK'
         /\ Reaches(t, ip[t] + 1)
         /\ \A u \in Threads \ {t} : SamePlace(u)
<1>1. ip[t] + 1 \in 1 .. Len(Code(t)) + 1
  BY RunningAt
<1> QED BY <1>1, Continuing

(* What an instruction does to the ownership of all threads. *)
Effect(t) ==
  \A u \in Threads :
    /\ \A m \in Mutexes : owner'[m] = u <=>
         \/ u = t /\ Instruction(t).op = "lock" /\ Subject(t) = m
         \/ owner[m] = u /\ ~(u = t /\ Instruction(t).op = "unlock" /\ Subject(t) = m)
    /\ \A m \in Mutexes : u \in sharers'[m] <=>
         \/ u = t /\ Instruction(t).op = "lock_shared" /\ Subject(t) = m
         \/ u \in sharers[m] /\ ~(u = t /\ Instruction(t).op = "unlock_shared" /\ Subject(t) = m)
    /\ \A f \in Flags : runner'[f] = u <=>
         \/ u = t /\ Instruction(t).op = "once" /\ Subject(t) = f
         \/ runner[f] = u /\ ~(u = t /\ Instruction(t).op = "done" /\ Subject(t) = f)

(* An instruction that has its effect, and is no second lock, keeps        *)
(* ownership as the places say.                                            *)
LEMMA EffectKeeps ==
  ASSUME PlaceInv, NEW t \in Threads, Running(t), Continue(t, 1), Effect(t), ObjectsOK',
         Instruction(t).op = "lock" => Subject(t) \in Mutexes /\ owner[Subject(t)] # t
  PROVE  PlaceInv'
<1> DEFINE i == ip[t]
           s == Code(t)
<1>1. /\ s[i].op = Instruction(t).op /\ s[i].at = Subject(t)
      /\ Follows(s, i, i + 1) /\ ~Stuck(s, i) /\ fn[t] # NoCall
  BY RunningAt DEF Subject
<1>2. PlacesOK' /\ Reaches(t, i + 1) /\ \A u \in Threads \ {t} : SamePlace(u)
  BY NextPlace
<1>3. /\ \A m \in Mutexes : owner[m] = t <=> Locked(s, i, m)
      /\ \A m \in Mutexes : t \in sharers[m] <=> Shared(s, i, m)
      /\ \A f \in Flags : runner[f] = t <=> Initialising(s, i, f)
  BY <1>1 DEF PlaceInv, OwnsAtPlace, HoldsLock, HoldsShare, RunsOnce
<1>4. OnItsWay(t)'
  BY <1>1, <1>2, <1>3 DEF Reaches, Follows
<1>5. \A m \in Mutexes : owner'[m] = t <=> HoldsLock(t, m)'
  BY <1>1, <1>2, <1>3 DEF Reaches, Follows, Effect
<1>6. \A m \in Mutexes : t \in sharers'[m] <=> HoldsShare(t, m)'
  BY <1>1, <1>2, <1>3 DEF Reaches, Follows, Effect
<1>7. \A f \in Flags : runner'[f] = t <=> RunsOnce(t, f)'
  BY <1>1, <1>2, <1>3 DEF Reaches, Follows, Effect
<1>8. OwnsAtPlace(t)'
  BY <1>5, <1>6, <1>7 DEF OwnsAtPlace
<1>9. ASSUME NEW u \in Threads \ {t} PROVE OwnsAtPlace(u)' /\ OnItsWay(u)'
  BY <1>2 DEF PlaceInv, OwnsAtPlace, SamePlace, Effect
<1>10. TypeOK'
  BY <1>2 DEF TypeOK, PlacesOK, ObjectsOK
<1> QED BY <1>4, <1>8, <1>9, <1>10 DEF PlaceInv

(* An instruction that changes no owner goes on by one, or jumps. *)
LEMMA PlainKeeps ==
  ASSUME PlaceInv, NEW t \in Threads, Running(t), Continue(t, 1),
         UNCHANGED <<owner, sharers, runner>>, ObjectsOK',
         Instruction(t).op \in Reads \cup Writes
  PROVE  PlaceInv'
<1>1. Instruction(t).op \notin {"lock", "unlock", "lock_shared", "unlock_shared", "once", "done"}
  BY DEF Reads, Writes
<1>2. Effect(t)
  BY <1>1 DEF Effect
<1> QED BY <1>1, <1>2, EffectKeeps

(* A test or a call_once that jumps changes no owner. *)
LEMMA JumpKeeps ==
  ASSUME PlaceInv, NEW t \in Threads, Running(t),
         Instruction(t).op \in Jumps, Continue(t, 1 + Instruction(t).skip),
         UNCHANGED <<owner, sharers, runner>>, ObjectsOK'
  PROVE  PlaceInv'
<1> DEFINE i == ip[t]
           s == Code(t)
           j == Target(s, i)
           n == 1 + Instruction(t).skip
<1>1. /\ s[i] = Instruction(t) /\ DisciplinedAt(s, i) /\ i \in 1 .. Len(s) /\ Len(s) \in Nat
      /\ ~Stuck(s, i) /\ fn[t] # NoCall
  BY RunningAt
<1>2. j \in i + 1 .. Len(s) + 1 /\ ~Stuck(s, j) /\ SameOpen(s, i, j)
  BY <1>1 DEF DisciplinedAt
<1>3. j = i + n /\ n \in Nat /\ i + n \in 1 .. Len(s) + 1
  <2>1. Instruction(t).skip \in Nat
    BY <1>1 DEF DisciplinedAt
  <2> QED BY <1>1, <1>2, <2>1 DEF Target
<1>4. PlacesOK' /\ Reaches(t, j) /\ \A u \in Threads \ {t} : SamePlace(u)
  <2>1. PlacesOK' /\ Reaches(t, i + n) /\ \A u \in Threads \ {t} : SamePlace(u)
    BY <1>3, Continuing
  <2> QED BY <1>3, <2>1
<1>5. OwnsAtPlace(t)' /\ OnItsWay(t)'
  BY <1>1, <1>2, <1>4
     DEF PlaceInv, OwnsAtPlace, Reaches, SameOpen, HoldsLock, HoldsShare, RunsOnce
<1>6. ASSUME NEW u \in Threads \ {t} PROVE OwnsAtPlace(u)' /\ OnItsWay(u)'
  BY <1>4 DEF PlaceInv, OwnsAtPlace, SamePlace
<1>7. TypeOK'
  BY <1>4 DEF TypeOK, PlacesOK, ObjectsOK
<1> QED BY <1>5, <1>6, <1>7 DEF PlaceInv

(* A call that ends owns nothing. *)
LEMMA EndKeeps ==
  ASSUME PlaceInv, NEW t \in Threads, EndCall(t), UNCHANGED <<program, calls>>, ObjectsOK',
         \A m \in Mutexes : owner'[m] # t /\ t \notin sharers'[m],
         \A f \in Flags : runner'[f] # t,
         \A u \in Threads \ {t} :
           /\ \A m \in Mutexes : owner'[m] = u <=> owner[m] = u
           /\ \A m \in Mutexes : u \in sharers'[m] <=> u \in sharers[m]
           /\ \A f \in Flags : runner'[f] = u <=> runner[f] = u
  PROVE  PlaceInv'
<1>1. PlacesOK' /\ Leaves(t) /\ \A u \in Threads \ {t} : SamePlace(u)
  BY EndingCall
<1>2. OwnsAtPlace(t)' /\ OnItsWay(t)'
  BY <1>1 DEF OwnsAtPlace, Leaves
<1>3. ASSUME NEW u \in Threads \ {t} PROVE OwnsAtPlace(u)' /\ OnItsWay(u)'
  BY <1>1 DEF PlaceInv, OwnsAtPlace, SamePlace
<1>4. TypeOK'
  BY <1>1 DEF TypeOK, PlacesOK, ObjectsOK
<1> QED BY <1>2, <1>3, <1>4 DEF PlaceInv

(* Locking and unlocking. *)
LEMMA LocksKeep ==
  ASSUME PlaceInv, NEW t \in Threads,
         LockExclusive(t) \/ UnlockExclusive(t) \/ LockForReading(t) \/ UnlockForReading(t)
  PROVE  PlaceInv'
<1> DEFINE x == Subject(t)
<1>1. ObjectsOK
  BY DEF PlaceInv, TypeOK, ObjectsOK
<1>2. CASE LockExclusive(t)
  <2>1. /\ Running(t) /\ Instruction(t).op = "lock" /\ owner[x] = NoThread
        /\ owner' = [owner EXCEPT ![x] = t] /\ Continue(t, 1)
        /\ UNCHANGED <<sharers, runner, done, data, seen>>
    BY <1>2 DEF LockExclusive, At
  <2>2. x \in Mutexes
    BY <2>1, SubjectTypes
  <2>3. ObjectsOK'
    BY <1>1, <2>1, <2>2 DEF ObjectsOK
  <2>4. Effect(t)
    BY <1>1, <2>1, <2>2, GuardedAssumption DEF Effect, ObjectsOK, GuardedAssumption
  <2> QED BY <2>1, <2>2, <2>3, <2>4, EffectKeeps, GuardedAssumption DEF GuardedAssumption
<1>3. CASE UnlockExclusive(t)
  <2>1. /\ Running(t) /\ Instruction(t).op = "unlock"
        /\ owner' = [owner EXCEPT ![x] = NoThread] /\ Continue(t, 1) /\ LeaveSection(t)
        /\ UNCHANGED <<sharers, runner, done, data>>
    BY <1>3 DEF UnlockExclusive, At
  <2>2. x \in Mutexes
    BY <2>1, SubjectTypes
  <2>3. owner[x] = t
    BY <2>1, <2>2, RunningAt DEF DisciplinedAt, Subject, PlaceInv, OwnsAtPlace, HoldsLock
  <2>4. ObjectsOK'
    BY <1>1, <2>1, <2>2 DEF ObjectsOK, LeaveSection
  <2>5. Effect(t)
    BY <1>1, <2>1, <2>2, <2>3, GuardedAssumption DEF Effect, ObjectsOK, GuardedAssumption
  <2> QED BY <2>1, <2>4, <2>5, EffectKeeps
<1>4. CASE LockForReading(t)
  <2>1. /\ Running(t) /\ Instruction(t).op = "lock_shared"
        /\ sharers' = [sharers EXCEPT ![x] = @ \cup {t}] /\ Continue(t, 1)
        /\ UNCHANGED <<owner, runner, done, data, seen>>
    BY <1>4 DEF LockForReading, At
  <2>2. x \in Mutexes
    BY <2>1, SubjectTypes
  <2>3. ObjectsOK'
    BY <1>1, <2>1, <2>2 DEF ObjectsOK
  <2>4. Effect(t)
    BY <1>1, <2>1, <2>2 DEF Effect, ObjectsOK
  <2> QED BY <2>1, <2>3, <2>4, EffectKeeps
<1>5. CASE UnlockForReading(t)
  <2>1. /\ Running(t) /\ Instruction(t).op = "unlock_shared"
        /\ sharers' = [sharers EXCEPT ![x] = @ \ {t}] /\ Continue(t, 1) /\ LeaveSection(t)
        /\ UNCHANGED <<owner, runner, done, data>>
    BY <1>5 DEF UnlockForReading, At
  <2>2. x \in Mutexes
    BY <2>1, SubjectTypes
  <2>3. ObjectsOK'
    BY <1>1, <2>1, <2>2 DEF ObjectsOK, LeaveSection
  <2>4. Effect(t)
    BY <1>1, <2>1, <2>2 DEF Effect, ObjectsOK
  <2> QED BY <2>1, <2>3, <2>4, EffectKeeps
<1> QED BY <1>2, <1>3, <1>4, <1>5

(* Access to data. *)
LEMMA AccessesKeep ==
  ASSUME PlaceInv, NEW t \in Threads, ReadData(t) \/ TestForNull(t) \/ WriteData(t)
  PROVE  PlaceInv'
<1> DEFINE x == Subject(t)
<1>1. ObjectsOK
  BY DEF PlaceInv, TypeOK, ObjectsOK
<1>2. ASSUME x \in Data, Saw(t, x), UNCHANGED <<owner, sharers, runner, done, data>>
      PROVE  ObjectsOK'
  <2>1. <<x, data[x]>> \in Data \X Nat
    BY <1>1, <1>2 DEF ObjectsOK
  <2>2. seen' \in [Threads -> SUBSET (Data \X Nat)]
    BY <1>1, <1>2, <2>1 DEF ObjectsOK, Saw
  <2> QED BY <1>1, <1>2, <2>2 DEF ObjectsOK
<1>3. CASE ReadData(t)
  <2>1. /\ Running(t) /\ Instruction(t).op \in Reads \cup Writes
        /\ Saw(t, x) /\ Continue(t, 1) /\ UNCHANGED <<owner, sharers, runner, done, data>>
    BY <1>3 DEF ReadData, At, Reads
  <2> QED BY <1>2, <2>1, SubjectTypes, PlainKeeps
<1>4. CASE TestForNull(t)
  <2>1. /\ Running(t) /\ Instruction(t).op = "unless"
        /\ Saw(t, x) /\ UNCHANGED <<owner, sharers, runner, done, data>>
        /\ Continue(t, 1) \/ Continue(t, 1 + Instruction(t).skip)
    BY <1>4 DEF TestForNull, At
  <2>2. Instruction(t).op \in Reads \cup Writes /\ Instruction(t).op \in Jumps
    BY <2>1 DEF Reads, Jumps
  <2>3. ObjectsOK'
    BY <1>2, <2>1, <2>2, SubjectTypes
  <2> QED BY <2>1, <2>2, <2>3, PlainKeeps, JumpKeeps
<1>5. CASE WriteData(t)
  <2>1. /\ Running(t) /\ Instruction(t).op \in Reads \cup Writes /\ Continue(t, 1)
        /\ data' = [data EXCEPT ![x] = @ + 1]
        /\ seen' = [seen EXCEPT ![t] = {r \in @ : r[1] # x}]
        /\ UNCHANGED <<owner, sharers, runner, done>>
    BY <1>5 DEF WriteData, At, Writes
  <2>2. x \in Data
    BY <2>1, SubjectTypes
  <2>3. ObjectsOK'
    BY <1>1, <2>1, <2>2 DEF ObjectsOK
  <2> QED BY <2>1, <2>3, PlainKeeps
<1> QED BY <1>3, <1>4, <1>5

(* call_once. *)
LEMMA CallOnceKeeps ==
  ASSUME PlaceInv, NEW t \in Threads, BeginOnce(t) \/ PassOnce(t) \/ EndOnce(t)
  PROVE  PlaceInv'
<1> DEFINE x == Subject(t)
<1>1. ObjectsOK
  BY DEF PlaceInv, TypeOK, ObjectsOK
<1>2. CASE BeginOnce(t)
  <2>1. /\ Running(t) /\ Instruction(t).op = "once" /\ runner[x] = NoThread
        /\ runner' = [runner EXCEPT ![x] = t] /\ Continue(t, 1)
        /\ UNCHANGED <<owner, sharers, done, data, seen>>
    BY <1>2 DEF BeginOnce, At
  <2>2. x \in Flags
    BY <2>1, SubjectTypes
  <2>3. ObjectsOK'
    BY <1>1, <2>1, <2>2 DEF ObjectsOK
  <2>4. Effect(t)
    BY <1>1, <2>1, <2>2, GuardedAssumption DEF Effect, ObjectsOK, GuardedAssumption
  <2> QED BY <2>1, <2>3, <2>4, EffectKeeps
<1>3. CASE PassOnce(t)
  <2>1. /\ Running(t) /\ Instruction(t).op \in Jumps /\ Continue(t, 1 + Instruction(t).skip)
        /\ UNCHANGED <<owner, sharers, runner, done, data, seen>>
    BY <1>3 DEF PassOnce, At, Jumps
  <2>2. ObjectsOK'
    BY <1>1, <2>1 DEF ObjectsOK
  <2> QED BY <2>1, <2>2, JumpKeeps
<1>4. CASE EndOnce(t)
  <2>1. /\ Running(t) /\ Instruction(t).op = "done"
        /\ done' = done \cup {x} /\ runner' = [runner EXCEPT ![x] = NoThread]
        /\ Continue(t, 1) /\ LeaveSection(t) /\ UNCHANGED <<owner, sharers, data>>
    BY <1>4 DEF EndOnce, At
  <2>2. x \in Flags
    BY <2>1, SubjectTypes
  <2>3. runner[x] = t
    BY <2>1, <2>2, RunningAt DEF DisciplinedAt, Subject, PlaceInv, OwnsAtPlace, RunsOnce
  <2>4. ObjectsOK'
    BY <1>1, <2>1, <2>2 DEF ObjectsOK, LeaveSection
  <2>5. Effect(t)
    BY <1>1, <2>1, <2>2, <2>3, GuardedAssumption DEF Effect, ObjectsOK, GuardedAssumption
  <2> QED BY <2>1, <2>4, <2>5, EffectKeeps
<1> QED BY <1>2, <1>3, <1>4

(* The beginning and the end of a call. *)
LEMMA CallsKeep ==
  ASSUME PlaceInv, NEW t \in Threads,
         Throw(t) \/ Return(t) \/ \E f \in DOMAIN Operations[program] : Call(t, f)
  PROVE  PlaceInv'
<1>1. ObjectsOK
  BY DEF PlaceInv, TypeOK, ObjectsOK
<1>2. CASE Throw(t)
  <2>1. /\ owner' = [m \in Mutexes |-> IF owner[m] = t THEN NoThread ELSE owner[m]]
        /\ sharers' = [m \in Mutexes |-> sharers[m] \ {t}]
        /\ runner' = [f \in Flags |-> IF runner[f] = t THEN NoThread ELSE runner[f]]
        /\ EndCall(t) /\ LeaveSection(t) /\ UNCHANGED <<program, calls, done, data>>
    BY <1>2 DEF Throw
  <2>2. ObjectsOK'
    BY <1>1, <2>1 DEF ObjectsOK, LeaveSection
  <2>3. /\ \A m \in Mutexes : owner'[m] # t /\ t \notin sharers'[m]
        /\ \A f \in Flags : runner'[f] # t
    BY <2>1, GuardedAssumption DEF GuardedAssumption
  <2>4. \A u \in Threads \ {t} :
          /\ \A m \in Mutexes : owner'[m] = u <=> owner[m] = u
          /\ \A m \in Mutexes : u \in sharers'[m] <=> u \in sharers[m]
          /\ \A f \in Flags : runner'[f] = u <=> runner[f] = u
    BY <2>1, GuardedAssumption DEF GuardedAssumption
  <2> QED BY <2>1, <2>2, <2>3, <2>4, EndKeeps
<1>3. CASE Return(t)
  <2>1. /\ fn[t] # NoCall /\ ~Running(t) /\ EndCall(t)
        /\ UNCHANGED <<program, calls, owner, sharers, runner, done, data, seen>>
    BY <1>3 DEF Return
  <2>2. ObjectsOK'
    BY <1>1, <2>1 DEF ObjectsOK
  <2>3. Keeps(program, Code(t))
    BY <2>1, FunctionsKeepRules, GuardedAssumption
       DEF GuardedAssumption, Code, PlaceInv, TypeOK
  <2>4. ip[t] = Len(Code(t)) + 1
    <3>1. ip[t] \in 1 .. Len(Code(t)) + 1 /\ ~(ip[t] <= Len(Code(t)))
      BY <2>1 DEF PlaceInv, TypeOK, Running, Code
    <3>2. Len(Code(t)) \in Nat
      BY <2>3 DEF Keeps, Disciplined
    <3> QED BY <3>1, <3>2
  <2>5. NothingOpen(Code(t), ip[t])
    BY <2>1, <2>3, <2>4 DEF PlaceInv, OnItsWay, Keeps, Disciplined
  <2>6. /\ \A m \in Mutexes : owner[m] # t /\ t \notin sharers[m]
        /\ \A f \in Flags : runner[f] # t
    BY <2>5 DEF PlaceInv, OwnsAtPlace, HoldsLock, HoldsShare, RunsOnce, NothingOpen
  <2> QED BY <2>1, <2>2, <2>6, EndKeeps
<1>4. ASSUME NEW f \in DOMAIN Operations[program], Call(t, f) PROVE PlaceInv'
  <2>1. /\ fn[t] = NoCall /\ calls[t] < MaxCalls
        /\ fn' = [fn EXCEPT ![t] = f] /\ calls' = [calls EXCEPT ![t] = @ + 1]
        /\ UNCHANGED <<program, ip, owner, sharers, runner, done, data, seen>>
    BY <1>4 DEF Call
  <2>2. ObjectsOK'
    BY <1>1, <2>1 DEF ObjectsOK
  <2>3. fn' \in [Threads -> DOMAIN Operations[program] \cup {NoCall}] /\ fn'[t] = f /\ f # NoCall
    BY <2>1, GuardedAssumption DEF PlaceInv, TypeOK, GuardedAssumption
  <2>4. ip[t] = 1
    BY <2>1 DEF PlaceInv, OnItsWay
  <2>5. Len(Operations[program][f]) \in Nat
    BY FunctionsKeepRules, GuardedAssumption
       DEF GuardedAssumption, PlaceInv, TypeOK, Keeps, Disciplined
  <2>6. calls' \in [Threads -> 0 .. MaxCalls]
    BY <2>1, GuardedAssumption DEF PlaceInv, TypeOK, GuardedAssumption
  <2>7. TypeOK'
    <3>1. ASSUME NEW u \in Threads, fn'[u] # NoCall
          PROVE  ip[u] \in 1 .. Len(Operations[program][fn'[u]]) + 1
      <4>1. CASE u = t
        BY <2>3, <2>4, <2>5, <4>1
      <4>2. CASE u # t
        BY <2>1, <3>1, <4>2 DEF PlaceInv, TypeOK
      <4> QED BY <4>1, <4>2
    <3> QED BY <2>1, <2>2, <2>3, <2>6, <3>1 DEF PlaceInv, TypeOK, ObjectsOK
  <2>8. OwnsAtPlace(t)' /\ OnItsWay(t)'
    <3>1. /\ \A m : ~HoldsLock(t, m)' /\ ~HoldsShare(t, m)' /\ ~RunsOnce(t, m)'
          /\ OnItsWay(t)'
      BY <2>1, <2>3, <2>4, First DEF HoldsLock, HoldsShare, RunsOnce, OnItsWay, NothingOpen
    <3>2. \A m : ~HoldsLock(t, m) /\ ~HoldsShare(t, m) /\ ~RunsOnce(t, m)
      BY <2>1 DEF HoldsLock, HoldsShare, RunsOnce
    <3> QED BY <2>1, <3>1, <3>2 DEF PlaceInv, OwnsAtPlace
  <2>9. ASSUME NEW u \in Threads \ {t} PROVE OwnsAtPlace(u)' /\ OnItsWay(u)'
    <3>1. SamePlace(u)
      BY <2>1, Unmoved DEF PlaceInv, TypeOK
    <3> QED BY <2>1, <3>1 DEF PlaceInv, OwnsAtPlace, SamePlace
  <2> QED BY <2>7, <2>8, <2>9 DEF PlaceInv
<1> QED BY <1>2, <1>3, <1>4

(* Nobody owns anything at the beginning. *)
LEMMA PlaceInitial == Init => PlaceInv
<1> SUFFICES ASSUME Init PROVE PlaceInv
  OBVIOUS
<1>1. TypeOK
  BY GuardedAssumption DEF Init, TypeOK, GuardedAssumption
<1>2. ASSUME NEW t \in Threads PROVE OnItsWay(t) /\ OwnsAtPlace(t)
  BY GuardedAssumption
     DEF Init, OnItsWay, OwnsAtPlace, HoldsLock, HoldsShare, RunsOnce, GuardedAssumption
<1> QED BY <1>1, <1>2 DEF PlaceInv

(* Every step keeps ownership as the places say. *)
LEMMA PlaceStep == PlaceInv /\ [Next]_vars => PlaceInv'
<1> SUFFICES ASSUME PlaceInv, [Next]_vars PROVE PlaceInv'
  OBVIOUS
<1>1. ASSUME NEW t \in Threads, Step(t) \/ \E f \in DOMAIN Operations[program] : Call(t, f)
      PROVE  PlaceInv'
  BY <1>1, LocksKeep, AccessesKeep, CallOnceKeeps, CallsKeep DEF Step
<1>2. CASE UNCHANGED vars
  BY <1>2 DEF vars, PlaceInv, TypeOK, OnItsWay, OwnsAtPlace, HoldsLock, HoldsShare, RunsOnce, Code
<1> QED BY <1>1, <1>2 DEF Next

(* At every place a thread owns what its function has locked on the way.   *)
THEOREM PlaceInvariance == Spec => []PlaceInv
<1> QED BY PlaceInitial, PlaceStep, PTL DEF Spec

(* Every variable has its type: ip stays inside the functions, whatever    *)
(* their tests skip, and only mutexes and flags of the program are used.   *)
THEOREM TypeCorrect == Spec => []TypeOK
<1>1. PlaceInv => TypeOK
  BY DEF PlaceInv
<1> QED BY <1>1, PlaceInvariance, PTL

(* Whoever is between two calls has given back all he had: nothing is open *)
(* where a function ends, and a throw gives back what is.                  *)
THEOREM LocksGivenBackTheorem == Spec => []LocksGivenBack
<1>1. PlaceInv => LocksGivenBack
  BY DEF PlaceInv, OwnsAtPlace, HoldsLock, HoldsShare, RunsOnce, LocksGivenBack, InSection
<1> QED BY <1>1, PlaceInvariance, PTL

-----------------------------------------------------------------------------
(* Exclusion *)

(* An owner excludes those who share, a flag that is done has no runner,   *)
(* and the program for a single thread has one.                            *)
Excluded == \A m \in Mutexes : sharers[m] # {} => owner[m] = NoThread
Undone   == \A f \in Flags : runner[f] # NoThread => f \notin done
Alone ==
  /\ \A t \in Threads : fn[t] # NoCall => calls[t] # 0
  /\ program = "single_thread" => \A t, u \in Threads : calls[t] # 0 /\ calls[u] # 0 => t = u

Exclusion == Excluded /\ Undone /\ Alone

(* Every step keeps owners exclusive, flags consistent, a thread alone. *)
LEMMA ExclusionStep == PlaceInv /\ Exclusion /\ [Next]_vars => Exclusion'
<1> SUFFICES ASSUME PlaceInv, Exclusion, [Next]_vars PROVE Exclusion'
  OBVIOUS
<1> USE GuardedAssumption DEF GuardedAssumption
<1>1. Excluded'
  <2>1. ASSUME NEW t \in Threads, LockExclusive(t) PROVE Excluded'
    BY <2>1 DEF LockExclusive, Exclusion, Excluded, PlaceInv, TypeOK
  <2>2. ASSUME NEW t \in Threads, UnlockExclusive(t) PROVE Excluded'
    BY <2>2 DEF UnlockExclusive, Exclusion, Excluded, PlaceInv, TypeOK
  <2>3. ASSUME NEW t \in Threads, LockForReading(t) PROVE Excluded'
    BY <2>3 DEF LockForReading, Exclusion, Excluded, PlaceInv, TypeOK
  <2>4. ASSUME NEW t \in Threads, UnlockForReading(t) PROVE Excluded'
    BY <2>4 DEF UnlockForReading, Exclusion, Excluded, PlaceInv, TypeOK
  <2>5. ASSUME NEW t \in Threads, Throw(t) PROVE Excluded'
    BY <2>5 DEF Throw, Exclusion, Excluded, PlaceInv, TypeOK
  <2>6. CASE UNCHANGED <<owner, sharers>>
    BY <2>6 DEF Exclusion, Excluded
  <2> QED BY <2>1, <2>2, <2>3, <2>4, <2>5, <2>6
          DEF Next, Step, vars, ReadData, TestForNull, WriteData, BeginOnce, PassOnce, EndOnce,
              Return, Call
<1>2. Undone'
  <2>1. ASSUME NEW t \in Threads, BeginOnce(t) PROVE Undone'
    BY <2>1 DEF BeginOnce, Exclusion, Undone, PlaceInv, TypeOK
  <2>2. ASSUME NEW t \in Threads, EndOnce(t) PROVE Undone'
    BY <2>2 DEF EndOnce, Exclusion, Undone, PlaceInv, TypeOK
  <2>3. ASSUME NEW t \in Threads, Throw(t) PROVE Undone'
    BY <2>3 DEF Throw, Exclusion, Undone, PlaceInv, TypeOK
  <2>4. CASE UNCHANGED <<runner, done>>
    BY <2>4 DEF Exclusion, Undone
  <2> QED BY <2>1, <2>2, <2>3, <2>4
          DEF Next, Step, vars, LockExclusive, UnlockExclusive, LockForReading, UnlockForReading,
              ReadData, TestForNull, WriteData, PassOnce, Return, Call
<1>3. Alone'
  <2>1. ASSUME NEW t \in Threads, NEW f \in DOMAIN Operations[program], Call(t, f) PROVE Alone'
    <3>1. /\ calls' = [calls EXCEPT ![t] = @ + 1] /\ fn' = [fn EXCEPT ![t] = f]
          /\ program' = program
          /\ program = "single_thread" => \A u \in Threads \ {t} : calls[u] = 0
      BY <2>1 DEF Call
    <3>2. /\ calls \in [Threads -> 0 .. MaxCalls]
          /\ fn \in [Threads -> DOMAIN Operations[program] \cup {NoCall}]
      BY DEF PlaceInv, TypeOK
    <3>3. /\ calls'[t] # 0
          /\ \A u \in Threads \ {t} : calls'[u] = calls[u] /\ fn'[u] = fn[u]
      BY <3>1, <3>2
    <3> QED BY <3>1, <3>3 DEF Exclusion, Alone
  <2>2. ASSUME NEW t \in Threads, EndCall(t), UNCHANGED <<program, calls>> PROVE Alone'
    BY <2>2 DEF EndCall, Exclusion, Alone, PlaceInv, TypeOK
  <2>3. CASE UNCHANGED <<program, fn, calls>>
    BY <2>3 DEF Exclusion, Alone
  <2> QED BY <2>1, <2>2, <2>3
          DEF Next, Step, vars, LockExclusive, UnlockExclusive, LockForReading, UnlockForReading,
              ReadData, TestForNull, WriteData, Throw, BeginOnce, PassOnce, EndOnce, Return,
              Continue
<1> QED BY <1>1, <1>2, <1>3 DEF Exclusion

-----------------------------------------------------------------------------
(* Sections *)

(* What a thread has seen in a section it has seen in one with the mutex   *)
(* of the datum, and it still has that mutex.                              *)
SectionOf(t, x) ==
  /\ MutexOf(x) \in Mutexes
  /\ owner[MutexOf(x)] = t \/ t \in sharers[MutexOf(x)]

SeenInSection(t) ==
  \A r \in seen[t] :
    /\ data[r[1]] = r[2]
    /\ SectionOf(t, r[1])
    /\ program \notin UnlockedPrograms

SectionInv == \A t \in Threads : SeenInSection(t)

(* A thread is in a section when its place is. *)
LEMMA InSectionAtPlace ==
  ASSUME PlaceInv, NEW t \in Threads, Running(t)
  PROVE  InSection(t) => ~NothingOpen(Code(t), ip[t])
BY DEF InSection, PlaceInv, OwnsAtPlace, HoldsLock, HoldsShare, RunsOnce, NothingOpen

(* A function keeps the rules of its program where a thread runs it. *)
LEMMA RunningKeeps ==
  ASSUME PlaceInv, NEW t \in Threads, Running(t)
  PROVE  Keeps(program, Code(t))
BY RunningAt, FunctionsKeepRules, GuardedAssumption DEF GuardedAssumption

(* The programs that lock, create under a lock, and neither, are all. *)
LEMMA ProgramKinds ==
  PlaceInv => /\ program \in LockingPrograms \cup LockedCreation \cup UnlockedPrograms
              /\ program \in UnlockedPrograms => program \notin LockingPrograms \cup LockedCreation
BY GuardedAssumption
   DEF GuardedAssumption, PlaceInv, TypeOK, Operations, LockingPrograms, LockedCreation,
       UnlockedPrograms

(* A place with something locked holds the mutex. *)
LEMMA LockedMeansOwned ==
  ASSUME PlaceInv, NEW t \in Threads, Running(t), NEW m
  PROVE  /\ Locked(Code(t), ip[t], m) => m \in Mutexes /\ owner[m] = t
         /\ Shared(Code(t), ip[t], m) => m \in Mutexes /\ t \in sharers[m]
         /\ Initialising(Code(t), ip[t], m) => m \in Flags /\ runner[m] = t
<1>1. /\ program \in Programs /\ fn[t] \in DOMAIN Operations[program] /\ fn[t] # NoCall
      /\ Code(t) = Operations[program][fn[t]] /\ Disciplined(Code(t))
      /\ ip[t] \in 1 .. Len(Code(t)) + 1
  BY RunningAt
<1>2. /\ Locked(Code(t), ip[t], m) => m \in Mutexes
      /\ Shared(Code(t), ip[t], m) => m \in Mutexes
      /\ Initialising(Code(t), ip[t], m) => m \in Flags
  BY <1>1, OpenSubject
<1> QED BY <1>1, <1>2 DEF PlaceInv, OwnsAtPlace, HoldsLock, HoldsShare, RunsOnce

(* A read inside a section has the mutex of the datum. *)
LEMMA ReadInSection ==
  ASSUME PlaceInv, NEW t \in Threads, Running(t), Instruction(t).op \in Reads, InSection(t)
  PROVE  SectionOf(t, Subject(t)) /\ program \notin UnlockedPrograms
<1> DEFINE s == Code(t)
           i == ip[t]
<1>1. /\ i \in 1 .. Len(s) /\ ~Stuck(s, i) /\ s[i].op \in Reads /\ s[i].at = Subject(t)
      /\ ~NothingOpen(s, i) /\ Keeps(program, s)
  BY RunningAt, RunningKeeps, InSectionAtPlace DEF Subject
<1>2. program \notin UnlockedPrograms
  BY <1>1 DEF Keeps, ReadsFree
<1>3. ReadLocked(s, i)
  BY <1>1, <1>2, ProgramKinds DEF Keeps, ReadsLocked, ReadsLockedOrFree
<1> QED BY <1>1, <1>2, <1>3, LockedMeansOwned DEF ReadLocked, SectionOf

(* So has a write in the programs that read inside sections. *)
LEMMA WriteInSection ==
  ASSUME PlaceInv, NEW t \in Threads, Running(t), Instruction(t).op \in Writes,
         program \notin UnlockedPrograms
  PROVE  MutexOf(Subject(t)) \in Mutexes /\ owner[MutexOf(Subject(t))] = t
<1> DEFINE s == Code(t)
           i == ip[t]
<1>1. /\ i \in 1 .. Len(s) /\ ~Stuck(s, i) /\ s[i].op \in Writes /\ s[i].at = Subject(t)
      /\ Keeps(program, s)
  BY RunningAt, RunningKeeps DEF Subject
<1>2. Locked(s, i, MutexOf(Subject(t)))
  BY <1>1, ProgramKinds DEF Keeps, WritesLocked
<1> QED BY <1>2, LockedMeansOwned

(* What the others own they keep. *)
LEMMA OthersKeepSections ==
  ASSUME PlaceInv, NEW t \in Threads, Step(t), NEW u \in Threads \ {t}, NEW x, SectionOf(u, x)
  PROVE  SectionOf(u, x)'
<1> DEFINE m == MutexOf(x)
           y == Subject(t)
<1>1. m \in Mutexes /\ (owner[m] = u \/ u \in sharers[m])
  BY DEF SectionOf
<1>2. owner \in [Mutexes -> Threads \cup {NoThread}] /\ sharers \in [Mutexes -> SUBSET Threads]
  BY DEF PlaceInv, TypeOK
<1> SUFFICES owner'[m] = u \/ u \in sharers'[m]
  BY <1>1 DEF SectionOf
<1>3. CASE LockExclusive(t)
  BY <1>1, <1>2, <1>3, GuardedAssumption DEF LockExclusive, GuardedAssumption
<1>4. CASE UnlockExclusive(t)
  <2>1. /\ Running(t) /\ Instruction(t).op = "unlock" /\ sharers' = sharers
        /\ owner' = [owner EXCEPT ![y] = NoThread]
    BY <1>4 DEF UnlockExclusive, At
  <2>2. owner[y] = t
    BY <2>1, RunningAt, LockedMeansOwned DEF DisciplinedAt, Subject
  <2> QED BY <1>1, <1>2, <2>1, <2>2
<1>5. CASE LockForReading(t)
  BY <1>1, <1>2, <1>5 DEF LockForReading
<1>6. CASE UnlockForReading(t)
  BY <1>1, <1>2, <1>6 DEF UnlockForReading
<1>7. CASE Throw(t)
  BY <1>1, <1>2, <1>7 DEF Throw
<1>8. CASE UNCHANGED <<owner, sharers>>
  BY <1>1, <1>8
<1> QED BY <1>3, <1>4, <1>5, <1>6, <1>7, <1>8
        DEF Step, ReadData, TestForNull, WriteData, BeginOnce, PassOnce, EndOnce, Return

(* One step of thread t. *)
LEMMA SectionStepOf ==
  ASSUME PlaceInv, Exclusion, SectionInv, NEW t \in Threads, Step(t)
  PROVE  SectionInv'
<1> DEFINE x == Subject(t)
<1>1. /\ seen \in [Threads -> SUBSET (Data \X Nat)] /\ data \in [Data -> Nat]
      /\ owner \in [Mutexes -> Threads \cup {NoThread}]
  BY DEF PlaceInv, TypeOK
<1>2. program' = program
  BY DEF Step, LockExclusive, UnlockExclusive, LockForReading, UnlockForReading, ReadData,
         TestForNull, WriteData, Throw, BeginOnce, PassOnce, EndOnce, Return, Continue
<1>3. ASSUME NEW u \in Threads \ {t}, data' = data, seen'[u] = seen[u]
      PROVE  SeenInSection(u)'
  BY <1>2, <1>3, OthersKeepSections DEF SectionInv, SeenInSection
<1>4. ASSUME seen'[t] = {} PROVE SeenInSection(t)'
  BY <1>4 DEF SeenInSection
<1>5. CASE ReadData(t) \/ TestForNull(t)
  <2>1. /\ Running(t) /\ Instruction(t).op \in Reads /\ Saw(t, x)
        /\ UNCHANGED <<owner, sharers, data>>
    BY <1>5 DEF ReadData, TestForNull, At, Reads
  <2>2. \A u \in Threads \ {t} : SeenInSection(u)'
    <3>1. \A u \in Threads \ {t} : seen'[u] = seen[u]
      BY <1>1, <2>1 DEF Saw
    <3> QED BY <1>3, <2>1, <3>1
  <2>3. ASSUME NEW r \in seen'[t], r \notin seen[t]
        PROVE  InSection(t) /\ r = <<x, data[x]>>
    BY <1>1, <2>1, <2>3 DEF Saw
  <2>4. ASSUME NEW r \in seen'[t]
        PROVE  data[r[1]] = r[2] /\ SectionOf(t, r[1]) /\ program \notin UnlockedPrograms
    <3>1. CASE r \in seen[t]
      BY <3>1 DEF SectionInv, SeenInSection
    <3>2. CASE r \notin seen[t]
      BY <2>1, <2>3, <3>2, ReadInSection
    <3> QED BY <3>1, <3>2
  <2>5. SeenInSection(t)'
    BY <1>2, <2>1, <2>4 DEF SeenInSection, SectionOf
  <2> QED BY <2>2, <2>5 DEF SectionInv
<1>6. CASE WriteData(t)
  <2>1. /\ Running(t) /\ Instruction(t).op \in Writes
        /\ data' = [data EXCEPT ![x] = @ + 1]
        /\ seen' = [seen EXCEPT ![t] = {r \in @ : r[1] # x}]
        /\ UNCHANGED <<owner, sharers>>
    BY <1>6 DEF WriteData, At, Writes
  <2>2. ASSUME NEW u \in Threads, NEW r \in seen'[u]
        PROVE  r \in seen[u] /\ r[1] # x
    <3>1. CASE u = t
      BY <1>1, <2>1, <2>2, <3>1
    <3>2. CASE u # t
      <4>1. r \in seen[u]
        BY <1>1, <2>1, <2>2, <3>2
      <4>2. SectionOf(u, r[1]) /\ program \notin UnlockedPrograms
        BY <4>1 DEF SectionInv, SeenInSection
      <4>3. MutexOf(x) \in Mutexes /\ owner[MutexOf(x)] = t
        BY <2>1, <4>2, WriteInSection
      <4>4. r[1] # x
        BY <3>2, <4>2, <4>3, GuardedAssumption
           DEF SectionOf, Exclusion, Excluded, GuardedAssumption
      <4> QED BY <4>1, <4>4
    <3> QED BY <3>1, <3>2
  <2>3. ASSUME NEW u \in Threads, NEW r \in seen'[u]
        PROVE  data'[r[1]] = r[2] /\ SectionOf(u, r[1])' /\ program' \notin UnlockedPrograms
    <3>1. r \in seen[u] /\ r[1] # x
      BY <2>2, <2>3
    <3>2. r \in Data \X Nat
      BY <1>1, <3>1
    <3>3. r[1] \in Data
      BY <3>2
    <3>4. data'[r[1]] = data[r[1]]
      BY <1>1, <2>1, <3>1, <3>3
    <3> QED BY <1>2, <2>1, <3>1, <3>4 DEF SectionInv, SeenInSection, SectionOf
  <2> QED BY <2>3 DEF SectionInv, SeenInSection
<1>7. CASE UnlockExclusive(t) \/ UnlockForReading(t) \/ EndOnce(t) \/ Throw(t)
  <2>1. data' = data /\ seen' = [seen EXCEPT ![t] = {}]
    BY <1>7 DEF UnlockExclusive, UnlockForReading, EndOnce, Throw, LeaveSection
  <2>2. seen'[t] = {} /\ \A u \in Threads \ {t} : seen'[u] = seen[u]
    BY <1>1, <2>1
  <2> QED BY <1>3, <1>4, <2>1, <2>2 DEF SectionInv
<1>8. CASE LockExclusive(t) \/ LockForReading(t) \/ BeginOnce(t) \/ PassOnce(t) \/ Return(t)
  <2>1. data' = data /\ seen' = seen
    BY <1>8 DEF LockExclusive, LockForReading, BeginOnce, PassOnce, Return
  <2>2. ASSUME NEW m \in Mutexes, owner[m] = t \/ t \in sharers[m]
        PROVE  owner'[m] = t \/ t \in sharers'[m]
    BY <1>1, <1>8, <2>2
       DEF LockExclusive, LockForReading, BeginOnce, PassOnce, Return, PlaceInv, TypeOK
  <2>3. SeenInSection(t)'
    BY <1>2, <2>1, <2>2 DEF SectionInv, SeenInSection, SectionOf
  <2> QED BY <1>3, <2>1, <2>3 DEF SectionInv
<1> QED BY <1>5, <1>6, <1>7, <1>8 DEF Step

(* Every step leaves what was seen in a section as it was seen. *)
LEMMA SectionStep == PlaceInv /\ Exclusion /\ SectionInv /\ [Next]_vars => SectionInv'
<1> SUFFICES ASSUME PlaceInv, Exclusion, SectionInv, [Next]_vars PROVE SectionInv'
  OBVIOUS
<1>1. ASSUME NEW t \in Threads, Step(t) PROVE SectionInv'
  BY <1>1, SectionStepOf
<1>2. CASE UNCHANGED <<program, owner, sharers, data, seen>>
  BY <1>2 DEF SectionInv, SeenInSection, SectionOf
<1> QED BY <1>1, <1>2 DEF Next, Call, vars

(* Nothing is owned or seen at the beginning. *)
LEMMA ExclusionInitial == Init => Exclusion /\ SectionInv
<1> SUFFICES ASSUME Init PROVE Exclusion /\ SectionInv
  OBVIOUS
<1>1. Exclusion
  BY DEF Init, Exclusion, Excluded, Undone, Alone
<1>2. SectionInv
  BY DEF Init, SectionInv, SeenInSection
<1> QED BY <1>1, <1>2

(* Mutexes exclude, and what was seen in a section is still so. *)
THEOREM SectionInvariance == Spec => [](PlaceInv /\ Exclusion /\ SectionInv)
<1> DEFINE I == PlaceInv /\ Exclusion /\ SectionInv
<1>1. Init => I
  BY PlaceInitial, ExclusionInitial
<1>2. I /\ [Next]_vars => I'
  BY PlaceStep, ExclusionStep, SectionStep
<1> QED BY <1>1, <1>2, PTL DEF Spec

(* What a call reads while it holds a lock, or runs an initialiser, stays  *)
(* as it is until it lets go, in every program.                            *)
THEOREM SectionsAreAtomicTheorem == Spec => []SectionsAreAtomic
<1>1. SectionInv => SectionsAreAtomic
  BY DEF SectionInv, SeenInSection, SectionsAreAtomic
<1> QED BY <1>1, SectionInvariance, PTL

-----------------------------------------------------------------------------
(* What a thread knows to be created *)

Writing(t) == Running(t) /\ Instruction(t).op \in Writes

(* What the program creates, as far as it is data of the program. *)
Objects == Resources(program) \cap Data

(* The functions of the creators show whether creation has begun: past the *)
(* test that decides it, a thread knows what has been created, except      *)
(* outside the lock of double-checked locking.                             *)
Knows(t) ==
  /\ fn[t] # NoCall /\ Begun(Code(t), ip[t])
  /\ program = "double_checked" => Locked(Code(t), ip[t], "resource_mutex")

AsMade(t) == \A x \in Objects : data[x] = IF x \in Made(Code(t), ip[t]) THEN 1 ELSE 0

AllAre(n) == \A x \in Objects : data[x] = n

CreationInv ==
  /\ program \in Creators =>
       /\ \A t \in Threads : Knows(t) => AsMade(t)
       /\ (\A t \in Threads : ~Writing(t)) => AllAre(0) \/ AllAre(1)
       /\ program \in OnceCreators =>
            /\ FlagOf(program) \in done => AllAre(1)
            /\ FlagOf(program) \notin done /\ runner[FlagOf(program)] = NoThread => AllAre(0)
  /\ \A x \in Data \cap AllResources : x \notin Objects => data[x] = 0

(* A creator has created everything where it has begun and does not write. *)
LEMMA Finished ==
  ASSUME NEW p, NEW s, Creator(p, s), Len(s) \in Nat, NEW i \in 1 .. Len(s) + 1,
         Begun(s, i), i <= Len(s) => s[i].op \notin Writes
  PROVE  Made(s, i) = Resources(p)
<1>1. CASE i <= Len(s)
  BY <1>1 DEF Creator, CreatorAt
<1>2. CASE i = Len(s) + 1
  BY <1>2 DEF Creator
<1> QED BY <1>1, <1>2

(* A thread of a creating program is at a place of a creator. *)
LEMMA CreatorHere ==
  ASSUME PlaceInv, program \in Creators, NEW t \in Threads, fn[t] # NoCall
  PROVE  /\ Creator(program, Code(t)) /\ Len(Code(t)) \in Nat
         /\ ip[t] \in 1 .. Len(Code(t)) + 1
         /\ Running(t) <=> ip[t] <= Len(Code(t))
         /\ Running(t) => CreatorAt(program, Code(t), ip[t])
<1>1. program \in DOMAIN Operations /\ fn[t] \in DOMAIN Operations[program]
  BY GuardedAssumption DEF GuardedAssumption, PlaceInv, TypeOK
<1>2. Creator(program, Code(t)) /\ Len(Code(t)) \in Nat
  BY <1>1, CreatorFunctions, FunctionsKeepRules DEF Code, Keeps, Disciplined
<1>3. ip[t] \in 1 .. Len(Code(t)) + 1 /\ (Running(t) <=> ip[t] <= Len(Code(t)))
  BY DEF PlaceInv, TypeOK, Running, Code
<1> QED BY <1>2, <1>3 DEF Creator

(* Who writes has what the program excludes others by. *)
LEMMA WriterOwns ==
  ASSUME PlaceInv, program \in Creators, NEW t \in Threads, Writing(t)
  PROVE  /\ program \in LockedCreation =>
              /\ owner["resource_mutex"] = t
              /\ Locked(Code(t), ip[t], "resource_mutex")
         /\ program \in OnceCreators => runner[FlagOf(program)] = t
         /\ Knows(t)
         /\ Subject(t) \in Resources(program) \ Made(Code(t), ip[t]) /\ Subject(t) \in Objects
<1> DEFINE s == Code(t)
           i == ip[t]
<1>1. /\ i \in 1 .. Len(s) /\ ~Stuck(s, i) /\ s[i].op \in Writes /\ s[i].at = Subject(t)
      /\ fn[t] # NoCall /\ Keeps(program, s) /\ Len(s) \in Nat
  BY RunningAt, RunningKeeps DEF Subject, Writing
<1>2. CreatorAt(program, s, i)
  BY <1>1, CreatorHere DEF Writing
<1>3. Subject(t) \in Resources(program) \ Made(s, i) /\ Subject(t) \in Objects
  <2>1. Subject(t) \in Data
    BY SubjectTypes DEF Writing
  <2> QED BY <1>1, <1>2, <2>1 DEF CreatorAt, Objects
<1>4. ASSUME program \in LockedCreation
      PROVE  owner["resource_mutex"] = t /\ Locked(s, i, "resource_mutex")
  <2>1. Locked(s, i, MutexOf(Subject(t)))
    BY <1>1, <1>4 DEF Keeps, WritesLocked
  <2>2. Resources(program) = {"resource", "resource_ptr"}
    BY <1>4 DEF LockedCreation, Resources, Creators, OnceCreators
  <2>3. MutexOf(Subject(t)) = "resource_mutex"
    BY <1>3, <2>2 DEF MutexOf
  <2> QED BY <2>1, <2>3, LockedMeansOwned DEF Writing
<1>5. program \in OnceCreators => runner[FlagOf(program)] = t
  BY <1>1, <1>2, LockedMeansOwned DEF CreatorAt, Writing
<1>6. Knows(t)
  BY <1>1, <1>4 DEF Knows, Begun, LockedCreation
<1> QED BY <1>3, <1>4, <1>5, <1>6

(* At most one thread is about to write. *)
LEMMA OneWriter ==
  ASSUME PlaceInv, Exclusion, program \in Creators, NEW t \in Threads, Writing(t),
         NEW u \in Threads, Writing(u)
  PROVE  t = u
<1>1. program = "single_thread" \/ program \in LockedCreation \/ program \in OnceCreators
  BY DEF Creators, LockedCreation
<1>2. CASE program = "single_thread"
  BY <1>2 DEF Exclusion, Alone, Writing, Running
<1> QED BY <1>1, <1>2, WriterOwns

(* While one thread writes, nobody else knows anything. *)
LEMMA OnlyWriterKnows ==
  ASSUME PlaceInv, Exclusion, CreationInv, program \in Creators,
         NEW t \in Threads, Writing(t), NEW u \in Threads, Knows(u)
  PROVE  t = u
<1> DEFINE s == Code(u)
           i == ip[u]
           x == Subject(t)
<1>1. x \in Resources(program) \ Made(Code(t), ip[t]) /\ x \in Objects /\ Knows(t)
  BY WriterOwns
<1>2. data[x] = 0
  BY <1>1 DEF CreationInv, AsMade
<1>3. x \notin Made(s, i)
  BY <1>1, <1>2 DEF CreationInv, AsMade
<1>4. fn[u] # NoCall /\ Begun(s, i) /\ Made(s, i) # Resources(program)
  BY <1>1, <1>3 DEF Knows
<1>5. /\ Creator(program, s) /\ Len(s) \in Nat /\ i \in 1 .. Len(s) + 1
      /\ Running(u) <=> i <= Len(s)
  BY <1>4, CreatorHere
<1>6. i <= Len(s) /\ s[i].op \in Writes
  BY <1>4, <1>5, Finished
<1>7. Writing(u)
  BY <1>5, <1>6 DEF Writing, Instruction, Code
<1> QED BY <1>7, OneWriter

(* Nobody writes while a thread makes the test under the lock, or alone.   *)
LEMMA NobodyWrites ==
  ASSUME PlaceInv, Exclusion, program \in Creators, NEW t \in Threads, At(t, "unless"),
         program = "single_thread" \/ Locked(Code(t), ip[t], "resource_mutex")
  PROVE  \A u \in Threads : ~Writing(u)
<1> SUFFICES ASSUME NEW u \in Threads, Writing(u) PROVE FALSE
  OBVIOUS
<1>1. Running(t) /\ Instruction(t).op = "unless" /\ fn[t] # NoCall
  BY DEF At, Running
<1>2. t # u
  BY <1>1 DEF Writing, Writes
<1>3. program \notin OnceCreators
  <2>1. CreatorAt(program, Code(t), ip[t]) /\ Instruction(t) = Code(t)[ip[t]]
    BY <1>1, CreatorHere DEF Instruction, Code
  <2> QED BY <1>1, <2>1 DEF CreatorAt
<1>4. CASE program = "single_thread"
  BY <1>1, <1>2, <1>4 DEF Exclusion, Alone, Writing, Running
<1>5. CASE program # "single_thread"
  <2>1. program \in LockedCreation
    BY <1>3, <1>5 DEF Creators, LockedCreation
  <2>2. owner["resource_mutex"] = u
    BY <2>1, WriterOwns
  <2>3. owner["resource_mutex"] = t
    BY <1>1, <1>5, LockedMeansOwned
  <2> QED BY <1>2, <2>2, <2>3
<1> QED BY <1>4, <1>5

-----------------------------------------------------------------------------
(* Creation, step by step *)

(* A thread that does nothing knows what it knew. *)
Stays(u) ==
  /\ Knows(u)' <=> Knows(u)
  /\ Writing(u)' <=> Writing(u)
  /\ Made(Code(u), ip[u])' = Made(Code(u), ip[u])

(* A thread whose call and instruction stay the same. *)
LEMMA Staying ==
  ASSUME NEW u \in Threads, program' = program, fn'[u] = fn[u], ip'[u] = ip[u]
  PROVE  Stays(u)
BY DEF Stays, Knows, Writing, Running, Instruction, Code

(* A step of one thread leaves the others where they are. *)
LEMMA OthersStay ==
  ASSUME PlaceInv, NEW t \in Threads, NEW n, Continue(t, n) \/ (EndCall(t) /\ program' = program)
  PROVE  \A u \in Threads \ {t} : Stays(u)
<1>1. program' = program /\ \A u \in Threads \ {t} : fn'[u] = fn[u] /\ ip'[u] = ip[u]
  BY DEF PlaceInv, TypeOK, Continue, EndCall
<1> QED BY <1>1, Staying

(* What is to be shown of a step that writes nothing. *)
FlagKept ==
  program \in OnceCreators =>
    /\ FlagOf(program) \in done' => AllAre(1)
    /\ FlagOf(program) \notin done' /\ runner'[FlagOf(program)] = NoThread => AllAre(0)

(* A step that writes nothing keeps what the threads know. *)
LEMMA NothingWritten ==
  ASSUME CreationInv, NEW t \in Threads, program' = program, data' = data,
         \A u \in Threads \ {t} : Stays(u),
         program \in Creators =>
           /\ Knows(t)' => AsMade(t)'
           /\ ~Writing(t) \/ AllAre(0)
           /\ FlagKept
  PROVE  CreationInv'
<1>1. Objects' = Objects /\ \A n : AllAre(n)' <=> AllAre(n)
  BY DEF Objects, AllAre
<1>2. ASSUME program \in Creators
      PROVE  /\ \A u \in Threads : Knows(u)' => AsMade(u)'
             /\ (\A u \in Threads : ~Writing(u)') => AllAre(0) \/ AllAre(1)
  <2>1. ASSUME NEW u \in Threads, u # t, Knows(u)' PROVE AsMade(u)'
    <3>1. Knows(u) /\ AsMade(u) /\ Made(Code(u), ip[u])' = Made(Code(u), ip[u])
      BY <1>2, <2>1 DEF Stays, CreationInv
    <3> QED BY <1>1, <3>1 DEF AsMade
  <2>2. (\A u \in Threads : ~Writing(u)') => AllAre(0) \/ AllAre(1)
    BY <1>2 DEF Stays, CreationInv
  <2> QED BY <1>2, <2>1, <2>2
<1>3. \A x \in Data \cap AllResources : x \notin Objects' => data'[x] = 0
  BY <1>1 DEF CreationInv
<1> QED BY <1>1, <1>2, <1>3 DEF CreationInv, FlagKept

(* The next instruction of a thread that has written nothing. *)
LEMMA KnowsOn ==
  ASSUME PlaceInv, CreationInv, program \in Creators, NEW t \in Threads, Running(t),
         Continue(t, 1), data' = data, Instruction(t).op \notin Writes \cup Jumps, Knows(t)'
  PROVE  Knows(t) /\ AsMade(t) /\ AsMade(t)'
<1> DEFINE s == Code(t)
           i == ip[t]
<1>1. /\ s[i] = Instruction(t) /\ i \in 1 .. Len(s) /\ Follows(s, i, i + 1) /\ fn[t] # NoCall
  BY RunningAt
<1>2. CreatorAt(program, s, i)
  BY <1>1, CreatorHere
<1>3. program' = program /\ Code(t)' = s /\ ip'[t] = i + 1
  BY DEF Continue, PlaceInv, TypeOK, Code
<1>4. /\ Begun(s, i + 1)
      /\ program = "double_checked" => Locked(s, i + 1, "resource_mutex")
  BY <1>3 DEF Knows
<1>5. Begun(s, i)
  BY <1>1, <1>2, <1>4 DEF CreatorAt
<1>6. program = "double_checked" => Locked(s, i, "resource_mutex")
  BY <1>1, <1>2, <1>4, <1>5 DEF CreatorAt, Follows
<1>7. Knows(t)
  BY <1>1, <1>5, <1>6 DEF Knows
<1>8. AsMade(t)
  BY <1>7 DEF CreationInv
<1>9. Made(s, i + 1) = Made(s, i)
  <2>1. i \in Nat \ {0} /\ s[i].op \notin Writes
    BY <1>1
  <2> QED BY <2>1, MadeOn
<1>10. AsMade(t)'
  BY <1>3, <1>8, <1>9 DEF AsMade, Objects
<1> QED BY <1>7, <1>8, <1>10

(* Locking, unlocking and reading leave everything created as it is. *)
LEMMA PlainStepsCreate ==
  ASSUME PlaceInv, CreationInv, NEW t \in Threads, Running(t), Continue(t, 1),
         Instruction(t).op \notin Writes \cup Jumps, UNCHANGED <<runner, done, data>>
  PROVE  CreationInv'
<1>1. program' = program /\ \A u \in Threads \ {t} : Stays(u)
  BY OthersStay DEF Continue
<1>2. ASSUME program \in Creators
      PROVE  (Knows(t)' => AsMade(t)') /\ ~Writing(t) /\ FlagKept
  BY <1>2, KnowsOn DEF Writing, FlagKept, CreationInv
<1> QED BY <1>1, <1>2, NothingWritten

(* A call that ends, and does not throw, changes nothing created. *)
LEMMA EndsCreate ==
  ASSUME PlaceInv, CreationInv, NEW t \in Threads, ~Writing(t), EndCall(t),
         UNCHANGED <<program, runner, done, data>>
  PROVE  CreationInv'
<1>1. \A u \in Threads \ {t} : Stays(u)
  BY OthersStay
<1>2. ~Knows(t)'
  BY DEF EndCall, PlaceInv, TypeOK, Knows
<1>3. program \in Creators => FlagKept
  BY DEF CreationInv, FlagKept
<1> QED BY <1>1, <1>2, <1>3, NothingWritten

(* A call begins before anything is known. *)
LEMMA CallCreates ==
  ASSUME PlaceInv, CreationInv, NEW t \in Threads, NEW f \in DOMAIN Operations[program], Call(t, f)
  PROVE  CreationInv'
<1>1. /\ fn[t] = NoCall /\ fn' = [fn EXCEPT ![t] = f] /\ ip' = ip /\ program' = program
      /\ UNCHANGED <<runner, done, data>>
  BY DEF Call
<1>2. \A u \in Threads \ {t} : Stays(u)
  BY <1>1, Staying DEF PlaceInv, TypeOK
<1>3. ASSUME program \in Creators PROVE ~Knows(t)'
  <2>1. Creator(program, Operations[program][f])
    BY <1>3, CreatorFunctions
  <2>2. ip[t] = 1 /\ fn'[t] = f
    BY <1>1 DEF PlaceInv, TypeOK, OnItsWay
  <2> QED BY <1>1, <2>1, <2>2 DEF Knows, Code, Creator
<1>4. ~Writing(t)
  BY <1>1 DEF Writing, Running
<1>5. program \in Creators => FlagKept
  BY <1>1 DEF CreationInv, FlagKept
<1> QED BY <1>1, <1>2, <1>3, <1>4, <1>5, NothingWritten

(* The test for null, with nobody writing, tells whether all is created. *)
LEMMA TestCreates ==
  ASSUME PlaceInv, Exclusion, CreationInv, NEW t \in Threads, TestForNull(t)
  PROVE  CreationInv'
<1> DEFINE s == Code(t)
           i == ip[t]
           x == Subject(t)
           n == IF data[x] = 0 THEN 1 ELSE 1 + Instruction(t).skip
           j == i + n
<1>1. /\ At(t, "unless") /\ Running(t) /\ Instruction(t).op = "unless"
      /\ Continue(t, n) /\ UNCHANGED <<runner, done, data>>
  BY DEF TestForNull, At
<1>2. /\ s[i] = Instruction(t) /\ i \in 1 .. Len(s) /\ fn[t] # NoCall /\ x = s[i].at
      /\ DisciplinedAt(s, i) /\ Follows(s, i, i + 1)
  BY <1>1, RunningAt DEF Subject
<1>3. /\ j \in Int /\ i \in Nat \ {0}
      /\ data[x] = 0 => j = i + 1
      /\ data[x] # 0 => j = Target(s, i)
  <2>1. Instruction(t).skip \in Nat
    BY <1>1, <1>2 DEF DisciplinedAt, Jumps
  <2> QED BY <1>2, <2>1 DEF Target
<1>4. program' = program /\ \A u \in Threads \ {t} : Stays(u)
  BY <1>1, OthersStay DEF Continue
<1>5. ~Writing(t)
  BY <1>1 DEF Writing, Writes
<1>6. Code(t)' = s /\ ip'[t] = j
  BY <1>1 DEF Continue, PlaceInv, TypeOK, Code
<1> HIDE DEF n, j
<1>7. ASSUME program \in Creators, Knows(t)' PROVE AsMade(t)'
  <2>1. CreatorAt(program, s, i) /\ s[i].op = "unless" /\ s[i].op \in Jumps
    BY <1>1, <1>2, <1>7, CreatorHere DEF Jumps
  <2>2. /\ Begun(s, j)
        /\ program = "double_checked" => Locked(s, j, "resource_mutex")
    BY <1>4, <1>6, <1>7 DEF Knows
  <2>3. j = i + 1 \/ j = Target(s, i)
    BY <1>3
  <2>4. program = "single_thread" \/ Locked(s, i, "resource_mutex")
    <3>1. Locked(s, j, "resource_mutex") => Locked(s, i, "resource_mutex")
      BY <1>2, <2>1, <2>3 DEF DisciplinedAt, SameOpen, Follows
    <3> QED BY <2>1, <2>2, <3>1 DEF CreatorAt
  <2>5. AllAre(0) \/ AllAre(1)
    BY <1>1, <1>7, <2>4, NobodyWrites DEF CreationInv
  <2>6. x \in Objects
    <3>1. x \in Data
      BY <1>1, SubjectTypes DEF Reads
    <3>2. x = "resource_ptr" /\ program \notin OnceCreators
      BY <1>2, <2>1 DEF CreatorAt
    <3>3. "resource_ptr" \in Resources(program)
      BY <1>7, <3>2 DEF Resources, Creators, OnceCreators
    <3> QED BY <3>1, <3>2, <3>3 DEF Objects
  <2>7. CASE data[x] = 0
    <3>1. AllAre(0)
      BY <2>5, <2>6, <2>7 DEF AllAre
    <3>2. Made(s, j) = {}
      <4>1. i \in Nat \ {0} /\ j = i + 1 /\ s[i].op \notin Writes
        BY <1>3, <2>1, <2>7 DEF Writes
      <4>2. Made(s, i) = {}
        BY <2>1 DEF CreatorAt, Begun
      <4> QED BY <4>1, <4>2, MadeOn
    <3> QED BY <1>1, <1>4, <1>6, <3>1, <3>2 DEF AsMade, AllAre, Objects
  <2>8. CASE data[x] # 0
    <3>1. AllAre(1)
      BY <2>5, <2>6, <2>8 DEF AllAre
    <3>2. Made(s, j) = Resources(program)
      <4>1. j = Target(s, i)
        BY <1>3, <2>8
      <4> QED BY <2>1, <4>1 DEF CreatorAt
    <3> QED BY <1>1, <1>4, <1>6, <3>1, <3>2 DEF AsMade, AllAre, Objects
  <2> QED BY <2>7, <2>8
<1>8. program \in Creators => FlagKept
  BY <1>1 DEF CreationInv, FlagKept
<1> QED BY <1>1, <1>4, <1>5, <1>7, <1>8, NothingWritten

(* call_once: the initialiser runs when nothing is created, and leaves     *)
(* everything created.                                                     *)
LEMMA OnceStepsCreate ==
  ASSUME PlaceInv, Exclusion, CreationInv, NEW t \in Threads,
         BeginOnce(t) \/ PassOnce(t) \/ EndOnce(t)
  PROVE  CreationInv'
<1> DEFINE s == Code(t)
           i == ip[t]
           x == Subject(t)
<1>1. Running(t) /\ data' = data /\ Instruction(t).op \in {"once", "done"}
  BY DEF BeginOnce, PassOnce, EndOnce, At
<1>2. /\ s[i] = Instruction(t) /\ i \in 1 .. Len(s) /\ fn[t] # NoCall /\ x = s[i].at
      /\ x \in Flags
  BY <1>1, RunningAt, SubjectTypes DEF Subject
<1>3. program' = program /\ \A u \in Threads \ {t} : Stays(u)
  BY OthersStay DEF Continue, BeginOnce, PassOnce, EndOnce
<1>4. ~Writing(t)
  BY <1>1 DEF Writing, Writes
<1>5. ASSUME program \in Creators
      PROVE  CreatorAt(program, s, i) /\ program \in OnceCreators /\ x = FlagOf(program)
  BY <1>1, <1>2, <1>5, CreatorHere DEF CreatorAt
<1>6. runner \in [Flags -> Threads \cup {NoThread}]
  BY DEF PlaceInv, TypeOK
<1>7. CASE BeginOnce(t)
  <2>1. /\ Instruction(t).op = "once" /\ x \notin done /\ runner[x] = NoThread
        /\ runner' = [runner EXCEPT ![x] = t] /\ Continue(t, 1) /\ done' = done
    BY <1>7 DEF BeginOnce, At
  <2>2. ASSUME program \in Creators PROVE FlagKept /\ AllAre(0) /\ AsMade(t)'
    <3>1. FlagKept /\ AllAre(0)
      BY <1>2, <1>5, <1>6, <2>1, <2>2, GuardedAssumption
         DEF FlagKept, CreationInv, GuardedAssumption
    <3>2. Made(s, i + 1) = {}
      <4>1. i \in Nat \ {0} /\ s[i].op \in Jumps /\ s[i].op \notin Writes
        BY <1>2, <2>1 DEF Jumps, Writes
      <4>2. Made(s, i) = {}
        BY <1>5, <2>2, <4>1 DEF CreatorAt, Begun
      <4> QED BY <4>1, <4>2, MadeOn
    <3>3. Code(t)' = s /\ ip'[t] = i + 1
      BY <2>1 DEF Continue, PlaceInv, TypeOK, Code
    <3> QED BY <1>1, <1>3, <3>1, <3>2, <3>3 DEF AsMade, AllAre, Objects
  <2> QED BY <1>1, <1>3, <1>4, <2>2, NothingWritten
<1>8. CASE PassOnce(t)
  <2>1. /\ Instruction(t).op = "once" /\ x \in done /\ Continue(t, 1 + Instruction(t).skip)
        /\ UNCHANGED <<runner, done>>
    BY <1>8 DEF PassOnce, At
  <2>2. ASSUME program \in Creators PROVE FlagKept /\ AsMade(t)'
    <3>1. FlagKept /\ AllAre(1)
      BY <1>5, <2>1, <2>2 DEF FlagKept, CreationInv
    <3>2. Made(s, Target(s, i)) = Resources(program)
      BY <1>2, <1>5, <2>1, <2>2 DEF CreatorAt, Jumps
    <3>3. Code(t)' = s /\ ip'[t] = Target(s, i)
      <4>1. Code(t)' = s /\ ip'[t] = i + (1 + s[i].skip)
        BY <1>2, <2>1 DEF Continue, PlaceInv, TypeOK, Code
      <4>2. s[i].skip \in Nat
        BY <1>1, <1>2, <2>1, RunningAt DEF DisciplinedAt, Jumps
      <4>3. \A a, b \in Nat : a + (1 + b) = a + 1 + b
        OBVIOUS
      <4>4. i \in Nat
        BY DEF PlaceInv, TypeOK
      <4> QED BY <4>1, <4>2, <4>3, <4>4 DEF Target
    <3> QED BY <1>1, <1>3, <3>1, <3>2, <3>3 DEF AsMade, AllAre, Objects
  <2> QED BY <1>1, <1>3, <1>4, <2>2, NothingWritten
<1>9. CASE EndOnce(t)
  <2>1. /\ Instruction(t).op = "done" /\ done' = done \cup {x}
        /\ runner' = [runner EXCEPT ![x] = NoThread] /\ Continue(t, 1)
    BY <1>9 DEF EndOnce, At
  <2>2. ASSUME program \in Creators
        PROVE  FlagKept /\ (Knows(t)' => AsMade(t)')
    <3>1. Begun(s, i) /\ s[i].op \notin Writes /\ Made(s, i) = Resources(program)
      BY <1>2, <1>5, <2>1, <2>2 DEF CreatorAt, Writes
    <3>2. Knows(t)
      BY <1>2, <1>5, <2>2, <3>1 DEF Knows, OnceCreators
    <3>3. AllAre(1)
      BY <2>2, <3>1, <3>2 DEF CreationInv, AsMade, AllAre, Objects
    <3>4. FlagKept
      BY <1>5, <2>1, <2>2, <3>3 DEF FlagKept
    <3>5. Knows(t)' => AsMade(t)'
      <4>1. Instruction(t).op \notin Writes \cup Jumps
        BY <2>1 DEF Writes, Jumps
      <4> QED BY <1>1, <2>1, <2>2, <4>1, KnowsOn
    <3> QED BY <3>4, <3>5
  <2> QED BY <1>1, <1>3, <1>4, <2>2, NothingWritten
<1> QED BY <1>7, <1>8, <1>9

(* A write of what is not yet created, by the one thread that may. *)
LEMMA WriteCreates ==
  ASSUME PlaceInv, Exclusion, CreationInv, NEW t \in Threads, WriteData(t)
  PROVE  CreationInv'
<1> DEFINE s == Code(t)
           i == ip[t]
           x == Subject(t)
<1>1. /\ Running(t) /\ Writing(t) /\ Continue(t, 1) /\ data' = [data EXCEPT ![x] = @ + 1]
      /\ UNCHANGED <<runner, done>> /\ x \in Data
  <2>1. Running(t) /\ Instruction(t).op \in Writes
    BY DEF WriteData, At, Writes
  <2> QED BY <2>1, SubjectTypes DEF WriteData, Writing
<1>2. /\ s[i] = Instruction(t) /\ i \in 1 .. Len(s) /\ x = s[i].at /\ s[i].op \in Writes
      /\ i \in Nat \ {0} /\ fn[t] # NoCall /\ Len(s) \in Nat
  BY <1>1, RunningAt DEF Subject, Writing
<1>3. program' = program /\ Objects' = Objects /\ \A u \in Threads \ {t} : Stays(u)
  BY <1>1, OthersStay DEF Continue, Objects
<1>4. Code(t)' = s /\ ip'[t] = i + 1
  BY <1>1 DEF Continue, PlaceInv, TypeOK, Code
<1>5. \A y \in Data : data'[y] = IF y = x THEN data[x] + 1 ELSE data[y]
  BY <1>1 DEF PlaceInv, TypeOK
<1>6. ASSUME program \in Creators
      PROVE  /\ \A u \in Threads : Knows(u)' => AsMade(u)'
             /\ (\A u \in Threads : ~Writing(u)') => AllAre(1)'
             /\ program \in OnceCreators =>
                  FlagOf(program) \notin done /\ runner[FlagOf(program)] # NoThread
             /\ x \in Objects
  <2>1. Knows(t) /\ x \in Objects \ Made(s, i)
    BY <1>1, <1>6, WriterOwns
  <2>2. AsMade(t)
    BY <1>6, <2>1 DEF CreationInv
  <2>3. Made(s, i + 1) = Made(s, i) \cup {x}
    BY <1>2, MadeOn
  <2>4. AsMade(t)'
    BY <1>3, <1>4, <1>5, <2>1, <2>2, <2>3 DEF AsMade, Objects
  <2>5. ASSUME NEW u \in Threads, Knows(u)' PROVE AsMade(u)'
    <3>1. ASSUME u # t PROVE Knows(u)
      BY <1>3, <2>5, <3>1 DEF Stays
    <3>2. u = t
      BY <1>1, <1>6, <3>1, OnlyWriterKnows
    <3> QED BY <2>4, <3>2
  <2>6. ASSUME \A u \in Threads : ~Writing(u)' PROVE AllAre(1)'
    <3>1. Begun(s, i + 1)
      BY <2>3 DEF Begun
    <3>2. i + 1 \in 1 .. Len(s) + 1
      BY <1>2
    <3>3. ASSUME i + 1 <= Len(s) PROVE s[i + 1].op \notin Writes
      <4>1. Running(t)' /\ Instruction(t)' = s[i + 1]
        BY <1>1, <1>2, <1>3, <1>4, <3>3 DEF Running, Instruction, Code, Continue
      <4> QED BY <2>6, <4>1 DEF Writing
    <3>4. Creator(program, s)
      BY <1>2, <1>6, CreatorHere
    <3>5. Made(s, i + 1) = Resources(program)
      BY <1>2, <3>1, <3>2, <3>3, <3>4, Finished
    <3> QED BY <1>3, <1>4, <2>4, <3>5 DEF AsMade, AllAre, Objects
  <2>7. ASSUME program \in OnceCreators
        PROVE  FlagOf(program) \notin done /\ runner[FlagOf(program)] # NoThread
    <3>1. CreatorAt(program, s, i)
      BY <1>1, <1>2, <1>6, CreatorHere
    <3>2. FlagOf(program) \in Flags /\ runner[FlagOf(program)] = t
      BY <1>1, <1>2, <2>7, <3>1, LockedMeansOwned DEF CreatorAt
    <3> QED BY <3>2, GuardedAssumption DEF Exclusion, Undone, GuardedAssumption
  <2> QED BY <2>1, <2>5, <2>6, <2>7
<1>7. ASSUME NEW y \in Data \cap AllResources, y \notin Objects PROVE data'[y] = 0
  <2>1. y # x
    <3>1. CASE program \in Creators
      BY <1>6, <1>7, <3>1
    <3>2. CASE program \notin Creators
      <4>1. NoResource(s)
        BY <1>1, <3>2, RunningAt, OthersCreateNothing, GuardedAssumption DEF GuardedAssumption
      <4> QED BY <1>2, <1>7, <4>1 DEF NoResource, Accesses
    <3> QED BY <3>1, <3>2
  <2> QED BY <1>5, <1>7, <2>1 DEF CreationInv
<1> QED BY <1>1, <1>3, <1>6, <1>7 DEF CreationInv

(* A creation that throws was the first write. *)
LEMMA ThrowCreates ==
  ASSUME PlaceInv, Exclusion, CreationInv, NEW t \in Threads, Throw(t)
  PROVE  CreationInv'
<1> DEFINE s == Code(t)
           i == ip[t]
<1>1. /\ Running(t) /\ Instruction(t).op \in {"create", "copy"} /\ EndCall(t)
      /\ UNCHANGED <<program, done, data>>
      /\ runner' = [f \in Flags |-> IF runner[f] = t THEN NoThread ELSE runner[f]]
  BY DEF Throw, At
<1>2. \A u \in Threads \ {t} : Stays(u)
  BY <1>1, OthersStay
<1>3. ~Knows(t)'
  BY <1>1 DEF EndCall, PlaceInv, TypeOK, Knows
<1>4. ASSUME program \in Creators PROVE AllAre(0) /\ FlagKept
  <2>1. CreatorAt(program, s, i) /\ s[i] = Instruction(t)
    BY <1>1, <1>4, CreatorHere, RunningAt
  <2>2. Writing(t) /\ Made(s, i) = {}
    BY <1>1, <2>1 DEF CreatorAt, Writing, Writes
  <2>3. Knows(t)
    BY <1>4, <2>2, WriterOwns
  <2>4. AllAre(0)
    BY <1>4, <2>2, <2>3 DEF CreationInv, AsMade, AllAre
  <2>5. ASSUME program \in OnceCreators PROVE FlagOf(program) \notin done
    <3>1. FlagOf(program) \in Flags /\ runner[FlagOf(program)] = t
      BY <1>1, <2>1, <2>2, <2>5, LockedMeansOwned DEF CreatorAt, Writing
    <3> QED BY <3>1, GuardedAssumption DEF Exclusion, Undone, GuardedAssumption
  <2> QED BY <1>1, <2>4, <2>5 DEF FlagKept
<1> QED BY <1>1, <1>2, <1>3, <1>4, NothingWritten

(* Every step keeps what the threads know true. *)
LEMMA CreationStep == PlaceInv /\ Exclusion /\ CreationInv /\ [Next]_vars => CreationInv'
<1> SUFFICES ASSUME PlaceInv, Exclusion, CreationInv, [Next]_vars PROVE CreationInv'
  OBVIOUS
<1>1. ASSUME NEW t \in Threads, LockExclusive(t) \/ UnlockExclusive(t) \/ LockForReading(t)
                                \/ UnlockForReading(t) \/ ReadData(t)
      PROVE  CreationInv'
  <2>1. /\ Running(t) /\ Continue(t, 1) /\ Instruction(t).op \notin Writes \cup Jumps
        /\ UNCHANGED <<runner, done, data>>
    BY <1>1 DEF LockExclusive, UnlockExclusive, LockForReading, UnlockForReading, ReadData, At,
                Writes, Jumps
  <2> QED BY <2>1, PlainStepsCreate
<1>2. ASSUME NEW t \in Threads, Return(t) PROVE CreationInv'
  BY <1>2, EndsCreate DEF Return, Writing
<1>3. ASSUME NEW t \in Threads, Step(t) PROVE CreationInv'
  BY <1>1, <1>2, <1>3, TestCreates, OnceStepsCreate, WriteCreates, ThrowCreates DEF Step
<1>4. CASE UNCHANGED vars
  BY <1>4 DEF vars, CreationInv, Knows, AsMade, AllAre, Objects, Writing, Running, Instruction, Code
<1> QED BY <1>3, <1>4, CallCreates DEF Next

(* Nothing is created, and nobody knows anything, at the beginning. *)
LEMMA CreationInitial == Init => CreationInv
<1> SUFFICES ASSUME Init PROVE CreationInv
  OBVIOUS
<1>1. AllAre(0)
  BY DEF Init, AllAre, Objects
<1>2. \A t \in Threads : ~Knows(t)
  BY DEF Init, Knows
<1>3. \A x \in Data \cap AllResources : data[x] = 0
  BY DEF Init
<1> QED BY <1>1, <1>2, <1>3 DEF Init, CreationInv

(* Whatever a thread finds out about the resource past its test is true.   *)
THEOREM CreationInvariance == Spec => [](PlaceInv /\ Exclusion /\ CreationInv)
<1> DEFINE I == PlaceInv /\ Exclusion /\ CreationInv
<1>1. Init => I
  BY PlaceInitial, ExclusionInitial, CreationInitial
<1>2. I /\ [Next]_vars => I'
  BY PlaceStep, ExclusionStep, CreationStep
<1> QED BY <1>1, <1>2, PTL DEF Spec

(* Nothing is created twice: a thread that writes knows what it has made,  *)
(* and while nobody writes all is made once, or nothing is.                *)
THEOREM CreatedOnceTheorem == Spec => []CreatedOnce
<1>1. ASSUME PlaceInv, CreationInv PROVE CreatedOnce
  <2> SUFFICES ASSUME NEW x \in Created \cap Data PROVE data[x] <= 1
    BY DEF CreatedOnce
  <2>1. x \in Data \cap AllResources
    BY DEF Created, AllResources
  <2>2. CASE x \notin Objects
    BY <1>1, <2>1, <2>2 DEF CreationInv
  <2>3. CASE x \in Objects
    <3>1. program \in Creators
      BY <2>3 DEF Objects, Resources, Creators, OnceCreators
    <3>2. CASE \E t \in Threads : Writing(t)
      BY <1>1, <2>3, <3>1, <3>2, WriterOwns DEF CreationInv, AsMade
    <3>3. CASE \A t \in Threads : ~Writing(t)
      BY <1>1, <2>3, <3>1, <3>3 DEF CreationInv, AllAre
    <3> QED BY <3>2, <3>3
  <2> QED BY <2>2, <2>3
<1> QED BY <1>1, CreationInvariance, PTL

-----------------------------------------------------------------------------
(* Double-checked locking *)

(* Past its test, or its own write, a thread knows that the pointer is set *)
(* even outside the lock, though not that there is a resource.             *)
PointerSet ==
  program = "double_checked" =>
    \A t \in Threads :
      fn[t] # NoCall /\ "resource_ptr" \in Made(Code(t), ip[t]) => data["resource_ptr"] # 0

(* The pointer is a datum that is only ever set. *)
LEMMA PointerStays ==
  ASSUME PlaceInv, NEW t \in Threads, Step(t), NEW x \in Data, data[x] # 0
  PROVE  data'[x] # 0
<1>1. data \in [Data -> Nat]
  BY DEF PlaceInv, TypeOK
<1>2. CASE data' = data
  BY <1>2
<1>3. CASE WriteData(t)
  BY <1>1, <1>3 DEF WriteData
<1> QED BY <1>2, <1>3 DEF Step, LockExclusive, UnlockExclusive, LockForReading,
        UnlockForReading, ReadData, TestForNull, Throw, BeginOnce, PassOnce, EndOnce, Return

(* The pointer is a datum of the program that double-checks. *)
LEMMA PointerIsData ==
  ASSUME PlaceInv, program = "double_checked", NEW t \in Threads, fn[t] # NoCall,
         "resource_ptr" \in Made(Code(t), ip[t])
  PROVE  "resource_ptr" \in Data
<1>1. /\ program \in Programs /\ fn[t] \in DOMAIN Operations[program]
      /\ Code(t) = Operations[program][fn[t]]
      /\ ip[t] \in 1 .. Len(Code(t)) + 1
  BY DEF PlaceInv, TypeOK, Code
<1>2. Len(Code(t)) \in Nat /\ DOMAIN Code(t) = 1 .. Len(Code(t))
  BY <1>1, FunctionsKeepRules, GuardedAssumption DEF GuardedAssumption, Keeps, Disciplined
<1>3. PICK j \in 1 .. ip[t] - 1 : Code(t)[j].op \in Writes /\ Code(t)[j].at = "resource_ptr"
  BY DEF Made
<1>4. j \in DOMAIN Code(t)
  BY <1>1, <1>2
<1>5. Code(t)[j].at \in Subjects(Reads \cup Writes)
  BY <1>1, <1>3, <1>4, SubjectOf
<1> QED BY <1>3, <1>5 DEF Data

(* The step of the thread itself. *)
LEMMA PointerMine ==
  ASSUME PlaceInv, PointerSet, program = "double_checked", NEW t \in Threads, Step(t),
         fn'[t] # NoCall, "resource_ptr" \in Made(Code(t), ip[t])'
  PROVE  data'["resource_ptr"] # 0
<1> DEFINE s == Code(t)
           i == ip[t]
<1>1. CASE Throw(t) \/ Return(t)
  BY <1>1 DEF Throw, Return, EndCall, PlaceInv, TypeOK
<1>2. CASE ~(Throw(t) \/ Return(t))
  <2>1. PICK n : Running(t) /\ Continue(t, n)
    BY <1>2 DEF Step, LockExclusive, UnlockExclusive, LockForReading, UnlockForReading, ReadData,
                TestForNull, WriteData, BeginOnce, PassOnce, EndOnce, At
  <2>2. Code(t)' = s /\ ip'[t] = i + n
    BY <2>1 DEF Continue, PlaceInv, TypeOK, Code
  <2>3. /\ s[i] = Instruction(t) /\ i \in Nat \ {0} /\ fn[t] # NoCall
        /\ CreatorAt(program, s, i) /\ Subject(t) = s[i].at
    BY <2>1, RunningAt, CreatorHere DEF Subject, Creators
  <2>4. Instruction(t).op \notin {"once", "done"}
    BY <2>3 DEF CreatorAt, OnceCreators
  <2>5. CASE WriteData(t)
    <3>1. /\ s[i].op \in Writes /\ ip'[t] = i + 1 /\ Subject(t) \in Data
          /\ data' = [data EXCEPT ![Subject(t)] = @ + 1]
      <4>1. /\ s[i].op \in Writes /\ ip' = [ip EXCEPT ![t] = @ + 1]
            /\ data' = [data EXCEPT ![Subject(t)] = @ + 1]
        BY <2>3, <2>5 DEF WriteData, At, Writes, Continue
      <4>2. ip'[t] = i + 1
        BY <4>1 DEF PlaceInv, TypeOK
      <4>3. Subject(t) \in Data
        BY <2>1, <2>3, <4>1, SubjectTypes
      <4> QED BY <4>1, <4>2, <4>3
    <3>2. Made(s, i + 1) = Made(s, i) \cup {Subject(t)}
      BY <2>3, <3>1, MadeOn
    <3>3. "resource_ptr" \in Made(s, i) \/ Subject(t) = "resource_ptr"
      BY <2>2, <3>1, <3>2
    <3>4. CASE Subject(t) = "resource_ptr"
      BY <3>1, <3>4 DEF PlaceInv, TypeOK
    <3>5. CASE "resource_ptr" \in Made(s, i)
      BY <2>3, <3>5, PointerIsData, PointerStays DEF PointerSet
    <3> QED BY <3>3, <3>4, <3>5
  <2>6. CASE TestForNull(t) /\ data[Subject(t)] # 0
    <3>1. Subject(t) = "resource_ptr" /\ data' = data
      BY <2>3, <2>6 DEF TestForNull, At, CreatorAt
    <3> QED BY <2>6, <3>1
  <2>7. CASE ~WriteData(t) /\ ~(TestForNull(t) /\ data[Subject(t)] # 0)
    <3>1. Continue(t, 1) /\ s[i].op \notin Writes
      BY <1>2, <2>3, <2>4, <2>7
         DEF Step, LockExclusive, UnlockExclusive, LockForReading, UnlockForReading, ReadData,
             TestForNull, BeginOnce, PassOnce, EndOnce, At, Writes
    <3>2. ip'[t] = i + 1
      BY <3>1 DEF Continue, PlaceInv, TypeOK
    <3>3. "resource_ptr" \in Made(s, i)
      BY <2>2, <2>3, <3>1, <3>2, MadeOn
    <3> QED BY <2>3, <3>3, PointerIsData, PointerStays DEF PointerSet
  <2> QED BY <2>5, <2>6, <2>7
<1> QED BY <1>1, <1>2

(* Every step keeps the pointer set where it is known to be. *)
LEMMA PointerStep == PlaceInv /\ PointerSet /\ [Next]_vars => PointerSet'
<1> SUFFICES ASSUME PlaceInv, PointerSet, [Next]_vars, program' = "double_checked",
                    NEW u \in Threads, fn'[u] # NoCall, "resource_ptr" \in Made(Code(u), ip[u])'
             PROVE  data'["resource_ptr"] # 0
  BY DEF PointerSet
<1>1. CASE UNCHANGED vars
  BY <1>1 DEF vars, PointerSet, Code
<1>2. ASSUME NEW t \in Threads, Step(t) PROVE data'["resource_ptr"] # 0
  <2>1. program' = program
    BY <1>2 DEF Step, LockExclusive, UnlockExclusive, LockForReading, UnlockForReading, ReadData,
                TestForNull, WriteData, Throw, BeginOnce, PassOnce, EndOnce, Return, Continue
  <2>2. CASE u = t
    BY <1>2, <2>1, <2>2, PointerMine
  <2>3. CASE u # t
    <3>1. fn'[u] = fn[u] /\ ip'[u] = ip[u]
      BY <1>2, <2>3
         DEF Step, LockExclusive, UnlockExclusive, LockForReading, UnlockForReading, ReadData,
             TestForNull, WriteData, Throw, BeginOnce, PassOnce, EndOnce, Return, Continue,
             EndCall, PlaceInv, TypeOK
    <3>2. fn[u] # NoCall /\ "resource_ptr" \in Made(Code(u), ip[u])
      BY <2>1, <3>1 DEF Code
    <3> QED BY <1>2, <2>1, <3>2, PointerIsData, PointerStays DEF PointerSet
  <2> QED BY <2>2, <2>3
<1>3. ASSUME NEW t \in Threads, NEW f \in DOMAIN Operations[program], Call(t, f)
      PROVE  data'["resource_ptr"] # 0
  <2>1. /\ fn[t] = NoCall /\ fn' = [fn EXCEPT ![t] = f] /\ ip' = ip /\ program' = program
        /\ data' = data
    BY <1>3 DEF Call
  <2>2. CASE u = t
    <3>1. ip'[u] = 1
      BY <2>1, <2>2 DEF PlaceInv, OnItsWay
    <3>2. Made(Code(u)', 1) = {}
      BY MadePlaces
    <3> QED BY <3>1, <3>2
  <2>3. CASE u # t
    <3>1. fn'[u] = fn[u]
      BY <2>1, <2>3 DEF PlaceInv, TypeOK
    <3> QED BY <2>1, <3>1 DEF PointerSet, Code
  <2> QED BY <2>2, <2>3
<1> QED BY <1>1, <1>2, <1>3 DEF Next

(* A thread that reads what a program creates. *)
LEMMA ReaderKnows ==
  ASSUME PlaceInv, CreationInv, NEW t \in Threads, At(t, "read"), Subject(t) \in AllResources,
         program # "double_checked"
  PROVE  data[Subject(t)] = 1
<1> DEFINE s == Code(t)
           i == ip[t]
           x == Subject(t)
<1>1. /\ Running(t) /\ s[i].op = "read" /\ s[i].at = x /\ i \in 1 .. Len(s) /\ fn[t] # NoCall
      /\ Instruction(t).op = "read"
  BY RunningAt DEF At, Subject
<1>2. program \in Creators
  <2>1. ASSUME program \notin Creators PROVE NoResource(s)
    BY <1>1, <2>1, RunningAt, OthersCreateNothing, GuardedAssumption DEF GuardedAssumption
  <2> QED BY <1>1, <2>1 DEF NoResource, Accesses, Reads
<1>3. CreatorAt(program, s, i)
  BY <1>1, <1>2, CreatorHere
<1>4. x \in Resources(program) /\ Begun(s, i) /\ Made(s, i) = Resources(program)
  BY <1>1, <1>3 DEF CreatorAt, Writes
<1>5. x \in Objects
  BY <1>1, <1>4, SubjectTypes DEF Reads, Objects
<1>6. Knows(t)
  BY <1>1, <1>4 DEF Knows
<1> QED BY <1>2, <1>4, <1>5, <1>6 DEF CreationInv, AsMade

(* So it stays, in all that was shown before. *)
THEOREM PointerInvariance == Spec => [](PlaceInv /\ Exclusion /\ CreationInv /\ PointerSet)
<1>1. Init => PointerSet
  BY DEF Init, PointerSet
<1> QED BY <1>1, PointerStep, CreationInvariance, PTL DEF Spec

(* Where a thread of double-checked locking uses the resource the pointer  *)
(* is set, and unless all is created one thread is half way.               *)
LEMMA PointerKnown ==
  ASSUME PlaceInv, Exclusion, CreationInv, PointerSet, program = "double_checked",
         NEW t \in Threads, At(t, "read")
  PROVE  /\ Subject(t) \in {"resource", "resource_ptr"} \cap Objects
         /\ data["resource_ptr"] # 0 /\ "resource_ptr" \in Objects
         /\ (\A u \in Threads : ~Writing(u)) => AllAre(1)
         /\ \A u \in Threads : Writing(u) => PointerFirst(u)
<1> DEFINE s == Code(t)
           i == ip[t]
<1>1. /\ Running(t) /\ s[i].op = "read" /\ s[i].at = Subject(t) /\ fn[t] # NoCall
      /\ Instruction(t).op = "read" /\ CreatorAt(program, s, i)
  BY RunningAt, CreatorHere DEF At, Subject, Creators
<1>2. Resources(program) = {"resource", "resource_ptr"}
  BY DEF Resources, Creators, OnceCreators
<1>3. Subject(t) \in Resources(program) /\ Made(s, i) = Resources(program)
  BY <1>1 DEF CreatorAt, Writes
<1>4. Subject(t) \in Objects
  BY <1>1, <1>3, SubjectTypes DEF Reads, Objects
<1>5. data["resource_ptr"] # 0
  BY <1>1, <1>2, <1>3 DEF PointerSet
<1>6. "resource_ptr" \in Objects
  BY <1>1, <1>2, <1>3, PointerIsData DEF Objects
<1>7. (\A u \in Threads : ~Writing(u)) => AllAre(1)
  BY <1>5, <1>6 DEF CreationInv, Creators, AllAre
<1>8. ASSUME NEW u \in Threads, Writing(u) PROVE PointerFirst(u)
  <2>1. Knows(u) /\ Subject(u) \in Resources(program) \ Made(Code(u), ip[u])
    BY <1>8, WriterOwns DEF Creators
  <2>2. "resource_ptr" \in Made(Code(u), ip[u])
    BY <1>5, <1>6, <2>1 DEF CreationInv, AsMade, Creators
  <2>3. Subject(u) = "resource"
    BY <1>2, <2>1, <2>2
  <2>4. Instruction(u) = Code(u)[ip[u]] /\ CreatorAt(program, Code(u), ip[u])
    BY <1>8, RunningAt, CreatorHere DEF Writing, Creators
  <2>5. Instruction(u).op = "write"
    BY <1>8, <2>2, <2>4 DEF CreatorAt, Writing, Writes
  <2> QED BY <1>8, <2>3, <2>5 DEF PointerFirst, At, Writing
<1> QED BY <1>2, <1>3, <1>4, <1>5, <1>6, <1>7, <1>8

(* Every program uses what has been created; double-checked locking may    *)
(* use it before, but only while a thread that has set the pointer is      *)
(* about to create the resource.                                           *)
THEOREM UsesCreatedTheorem == Spec => []UsesCreated
<1>1. ASSUME PlaceInv, Exclusion, CreationInv, PointerSet PROVE UsesCreated
  <2> SUFFICES ASSUME NEW t \in Threads, At(t, "read"), Subject(t) \in Created,
                      program = "double_checked", \A u \in Threads : ~PointerFirst(u)
               PROVE  data[Subject(t)] = 1
    BY <1>1, ReaderKnows DEF UsesCreated, Created, AllResources
  <2> QED BY <1>1, PointerKnown DEF AllAre
<1> QED BY <1>1, PointerInvariance, PTL

(* With x.m locked nothing else is: process_data is all that locks.        *)
LEMMA WrapperLocks ==
  ASSUME PlaceInv, program = "wrapper", NEW t \in Threads, Running(t), InSection(t)
  PROVE  "x.m" \in Mutexes /\ owner["x.m"] = t
<1> DEFINE s == Code(t)
           i == ip[t]
<1>1. s = foo /\ ~NothingOpen(s, i) /\ i \in 1 .. Len(s)
  <2>1. fn[t] \in DOMAIN Operations["wrapper"] /\ s = Operations["wrapper"][fn[t]]
    BY RunningAt
  <2> QED BY <2>1, InSectionAtPlace, RunningAt DEF Operations
<1>2. \A j \in 1 .. Len(s) : s[j].op \notin {"lock_shared", "once"}
                             /\ (s[j].op = "lock" => s[j].at = "x.m")
  BY <1>1 DEF foo, process_data, evil_function, Guarded, Lock, Unlock, Read, Write
<1>3. \A x : /\ Locked(s, i, x) => x = "x.m"
             /\ ~Shared(s, i, x) /\ ~Initialising(s, i, x)
  <2> HIDE DEF s, i
  <2> QED BY <1>1, <1>2 DEF Locked, Shared, Initialising, Open
<1>4. Locked(s, i, "x.m")
  BY <1>1, <1>3 DEF NothingOpen
<1> QED BY <1>4, LockedMeansOwned

(* Nobody accesses what another thread is about to write, but in the       *)
(* programs with documented races.                                         *)
LEMMA NoRace ==
  ASSUME PlaceInv, Exclusion, CreationInv, NEW t \in Threads, NEW u \in Threads, Racing(t, u)
  PROVE  program \in {"wrapper", "double_checked", "layered"}
<1> SUFFICES ASSUME program \notin {"wrapper", "double_checked", "layered"} PROVE FALSE
  OBVIOUS
<1> DEFINE s == Code(u)
           i == ip[u]
           x == Subject(t)
<1>1. t # u /\ Running(t) /\ Running(u) /\ Writing(t) /\ Subject(u) = x
  BY DEF Racing, Writing
<1>2. /\ i \in 1 .. Len(s) /\ ~Stuck(s, i) /\ s[i] = Instruction(u) /\ s[i].at = x
      /\ s[i].op \in Reads \cup Writes /\ fn[u] # NoCall /\ Keeps(program, s)
  BY <1>1, RunningAt, RunningKeeps DEF Racing, Subject
<1>3. program \in LockingPrograms \/ program \in Creators
  BY ProgramKinds DEF LockingPrograms, LockedCreation, UnlockedPrograms, Creators, OnceCreators
<1>4. CASE program \in LockingPrograms
  <2>1. MutexOf(x) \in Mutexes /\ owner[MutexOf(x)] = t
    BY <1>1, <1>4, ProgramKinds, WriteInSection DEF Writing
  <2>2. Locked(s, i, MutexOf(x)) \/ Shared(s, i, MutexOf(x))
    BY <1>2, <1>4 DEF Keeps, ReadsLocked, WritesLocked, ReadLocked
  <2>3. owner[MutexOf(x)] = u \/ u \in sharers[MutexOf(x)]
    BY <1>1, <2>2, LockedMeansOwned
  <2> QED BY <1>1, <2>1, <2>3, GuardedAssumption DEF Exclusion, Excluded, GuardedAssumption
<1>5. CASE program \in Creators
  <2>1. CreatorAt(program, s, i)
    BY <1>1, <1>2, <1>5, CreatorHere
  <2>2. ~Writing(u)
    BY <1>1, <1>5, OneWriter
  <2>3. s[i].op \in {"read", "unless"}
    BY <1>1, <1>2, <2>1, <2>2 DEF CreatorAt, Writing, Reads
  <2>4. CASE s[i].op = "unless"
    <3>1. program = "single_thread" \/ Locked(s, i, "resource_mutex")
      BY <2>1, <2>4 DEF CreatorAt
    <3> QED BY <1>1, <1>2, <1>5, <2>4, <3>1, NobodyWrites DEF At
  <2>5. CASE s[i].op = "read"
    <3>1. Begun(s, i)
      BY <2>1, <2>5 DEF CreatorAt
    <3>2. Knows(u)
      BY <1>2, <3>1 DEF Knows
    <3> QED BY <1>1, <1>5, <3>2, OnlyWriterKnows
  <2> QED BY <2>3, <2>4, <2>5
<1> QED BY <1>3, <1>4, <1>5

(* Where it is in the three: in double-checked locking it is the pointer,  *)
(* or the resource while a thread is half way; in the wrapper one of the   *)
(* two is outside the lock.                                                *)
LEMMA DocumentedRaces ==
  ASSUME PlaceInv, Exclusion, CreationInv, PointerSet,
         NEW t \in Threads, NEW u \in Threads, Racing(t, u)
  PROVE  /\ program = "wrapper" => ~(InSection(t) /\ InSection(u))
         /\ program = "double_checked" =>
              /\ Instruction(u).op \in Reads
              /\ Subject(t) = "resource_ptr" \/ PointerFirst(t)
<1>1. t # u /\ Running(t) /\ Running(u) /\ Writing(t) /\ Subject(u) = Subject(t)
  BY DEF Racing, Writing
<1>2. ASSUME program = "wrapper" PROVE ~(InSection(t) /\ InSection(u))
  BY <1>1, <1>2, WrapperLocks
<1>3. ASSUME program = "double_checked"
      PROVE  /\ Instruction(u).op \in Reads
             /\ Subject(t) = "resource_ptr" \/ PointerFirst(t)
  <2>1. Instruction(u).op \in Reads
    BY <1>1, <1>3, OneWriter DEF Writing, Racing, Creators
  <2>2. CASE Instruction(u).op = "read"
    <3>1. At(u, "read")
      BY <1>1, <2>2 DEF At
    <3>2. Subject(u) \in {"resource", "resource_ptr"} /\ PointerFirst(t)
      BY <1>1, <1>3, <3>1, PointerKnown
    <3> QED BY <2>1, <3>2
  <2>3. CASE Instruction(u).op # "read"
    <3>1. Instruction(u) = Code(u)[ip[u]] /\ CreatorAt(program, Code(u), ip[u])
      BY <1>1, <1>3, RunningAt, CreatorHere DEF Creators
    <3>2. Subject(u) = "resource_ptr"
      BY <2>1, <2>3, <3>1 DEF CreatorAt, Reads, Subject
    <3> QED BY <1>1, <2>1, <3>2
  <2> QED BY <2>2, <2>3
<1> QED BY <1>2, <1>3

(* Data races happen only in the three programs whose comments say so, and *)
(* there only as they say.                                                 *)
THEOREM RacesWhereDocumentedTheorem == Spec => []RacesWhereDocumented
<1>1. ASSUME PlaceInv, Exclusion, CreationInv, PointerSet PROVE RacesWhereDocumented
  BY <1>1, NoRace, DocumentedRaces DEF RacesWhereDocumented
<1> QED BY <1>1, PointerInvariance, PTL
=============================================================================
