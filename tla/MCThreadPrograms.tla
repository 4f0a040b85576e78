-------------------------- MODULE MCThreadPrograms --------------------------
(* Instances of ThreadPrograms for TLC. *)
EXTENDS ThreadPrograms

AllPrograms ==
  {"hello_world", "worspace1", "oops", "better_oops", "much_better_oops", "scoped",
   "scoped_empty", "auto_joining", "edit_document", "containers", "parallel_accumulate",
   "atomic_flag", "spinlock_mutex", "simple_compare_exchange_weak",
   "multithread_compare_exchange_weak", "release_sequence", "pointer_arithmetic"}

SimpleExchange == {"simple_compare_exchange_weak"}

(* One result for each of three threads. *)
SomeResults == <<"results[0]", "results[1]", "results[2]">>

SomeGarbage == {0, 7}
=============================================================================
