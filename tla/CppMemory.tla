----------------------------- MODULE CppMemory ------------------------------
(***************************************************************************)
(* The memory model of C++, as far as the programs need it.  A location    *)
(* has a history: the messages written to it, in modification order.  A    *)
(* thread has a view: the newest message of each location that it knows    *)
(* of, and it never reads an older one.  A message carries the heads of    *)
(* the release sequences it belongs to; a thread that reads it with        *)
(* acquire learns what the threads of these heads knew.                    *)
(*                                                                         *)
(* Every write goes to the end of the modification order.                  *)
(***************************************************************************)
EXTENDS Integers, Sequences, FiniteSetsExt

Message(v, heads) == [val |-> v, heads |-> heads]

JoinViews(view, views) ==
  [x \in DOMAIN view |-> Max({view[x]} \cup {w[x] : w \in views})]

Acquires(order) == order \in {"acquire", "acq_rel", "seq_cst"}
Releases(order) == order \in {"release", "acq_rel", "seq_cst"}

(* What thread t, with this view, knows after it has read message i of x.  *)
AfterRead(view, x, i, m, order) ==
  JoinViews([view EXCEPT ![x] = i],
            IF Acquires(order) THEN {h.view : h \in m.heads} ELSE {})

(* The head that a release of t adds. *)
OwnHead(t, view, order) ==
  IF Releases(order) THEN {[by |-> t, view |-> view]} ELSE {}

(* A store continues the release sequences that its own thread heads, and  *)
(* since C++20 not even these.                                             *)
Stored(t, view, v, last, order, standard) ==
  Message(v, OwnHead(t, view, order)
             \cup IF standard < 20 THEN {h \in last.heads : h.by = t} ELSE {})

(* A read-modify-write continues all release sequences. *)
Modified(t, view, v, last, order) ==
  Message(v, OwnHead(t, view, order) \cup last.heads)
=============================================================================
