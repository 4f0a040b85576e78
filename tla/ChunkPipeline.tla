---------------------------- MODULE ChunkPipeline ----------------------------
(***************************************************************************)
(* The program of Chapter 4 around threadsafe_queue: threads that run      *)
(* data_preparation_thread prepare chunks and push them, threads that run  *)
(* data_processing_thread take them with wait_and_pop and process them.    *)
(*                                                                         *)
(* A chunk is a value of Values and is prepared once: Values bounds the    *)
(* loop `while(more_data_to_prepare())`, MaxCalls the loop `while(true)`.  *)
(* The copy of a data_chunk, an empty class, does not throw; a bad_alloc   *)
(* in push would end the program and is left out.                          *)
(***************************************************************************)
EXTENDS ThreadSafeQueue, Functions

CONSTANTS
  Preparers,    \* the threads that run data_preparation_thread
  Processors    \* the threads that run data_processing_thread

ASSUME PipelineAssumption ==
  /\ Threads = Preparers \cup Processors
  /\ Preparers \cap Processors = {}

VARIABLES
  prepared,     \* the chunks each preparer has prepared, in order
  data,         \* the local variable `data` of each processor
  processed     \* the chunks each processor has processed, in order

pvars == <<prepared, data, processed>>

PInit ==
  /\ Init
  /\ prepared = [p \in Preparers |-> <<>>]
  /\ data = [c \in Processors |-> NoValue]
  /\ processed = [c \in Processors |-> <<>>]

Fresh(v) == \A p \in Preparers : v \notin Range(prepared[p])

(* data_chunk const data = prepare_data(); safe_queue.push(data); *)
Prepare(p, v) ==
  /\ Fresh(v)
  /\ Call(p, "push", v)
  /\ prepared' = [prepared EXCEPT ![p] = Append(@, v)]
  /\ UNCHANGED <<data, processed>>

(* Mutant: the next chunk is taken before the last one is processed. *)
AwaitTooEarly(c) ==
  /\ Call(c, "wait_and_pop", NoValue)
  /\ UNCHANGED pvars

(* data_chunk data; safe_queue.wait_and_pop(data); *)
Await(c) ==
  /\ data[c] = NoValue
  /\ Call(c, "wait_and_pop", NoValue)
  /\ UNCHANGED pvars

(* wait_and_pop returns and has assigned the popped value to `data`. *)
Receive(c) ==
  /\ data' = [data EXCEPT ![c] = val[c]]
  /\ Unlock(c)
  /\ UNCHANGED <<prepared, processed>>

(* process(data) *)
Process(c) ==
  /\ pc[c] = "idle"
  /\ data[c] # NoValue
  /\ processed' = [processed EXCEPT ![c] = Append(@, data[c])]
  /\ data' = [data EXCEPT ![c] = NoValue]
  /\ UNCHANGED <<vars, prepared>>

(* Every other step inside the queue. *)
QueueStep(t) ==
  /\ Step(t) \/ WakeSpuriously(t)
  /\ pc[t] = "unlock" => t \in Preparers
  /\ pc'[t] # "unwind"
  /\ UNCHANGED pvars

ProcessorStep(c) == Await(c) \/ Receive(c) \/ Process(c)

PNext ==
  \/ \E p \in Preparers, v \in Values : Prepare(p, v)
  \/ \E c \in Processors : ProcessorStep(c)
  \/ \E t \in Threads : QueueStep(t)

PSpec == PInit /\ [][PNext]_<<vars, pvars>>

(* The threads run; a preparer may have no more data to prepare. *)
PFairness ==
  /\ \A t \in Threads : WF_<<vars, pvars>>(QueueStep(t) /\ Step(t))
  /\ \A c \in Processors : WF_<<vars, pvars>>(ProcessorStep(c))

PFairSpec == PSpec /\ PFairness

-----------------------------------------------------------------------------

(* The chunk a thread carries: in a push before it took effect, in a       *)
(* wait_and_pop after it did, or in the processor's `data`.                *)
Carried(t) ==
  (IF Result(t) = NoValue \/ pc[t] = "notify"
        \/ (op[t] = "push" /\ pc[t] = "unlock")
     THEN {} ELSE {Result(t)})
  \cup (IF t \in Processors /\ data[t] # NoValue THEN {data[t]} ELSE {})

(* No chunk is lost on its way and none is processed twice: every prepared *)
(* chunk is in exactly one place: carried by one thread, in the queue at   *)
(* one position, or processed once.                                        *)
ChunkInOnePlace ==
  \A v \in Values :
    Cardinality({t \in Threads : v \in Carried(t)})
      + Cardinality({i \in DOMAIN data_queue : data_queue[i] = v})
      + Cardinality(UNION {{<<c, i>> : i \in {k \in DOMAIN processed[c] : processed[c][k] = v}} :
                             c \in Processors})
    = IF Fresh(v) THEN 0 ELSE 1

(* Whatever the number of processors, each one processes the chunks of one *)
(* preparer in the order in which that one prepared them.                  *)
ProcessedInOrder ==
  \A p \in Preparers, c \in Processors : \A i, k \in DOMAIN processed[c] :
    i < k /\ {processed[c][i], processed[c][k]} \subseteq Range(prepared[p])
      => \E j, l \in DOMAIN prepared[p] :
           /\ j < l
           /\ prepared[p][j] = processed[c][i] /\ prepared[p][l] = processed[c][k]

(* Every chunk that was prepared is processed in the end. *)
ChunkProcessed ==
  \A v \in Values :
    ~Fresh(v) ~> \E c \in Processors : v \in Range(processed[c])
=============================================================================
