------------------------- MODULE ChunkPipelineProofs -------------------------
(***************************************************************************)
(* Theorems about ChunkPipeline, for any numbers of preparers, processors  *)
(* and chunks.                                                             *)
(***************************************************************************)
EXTENDS ChunkPipeline, ThreadSafeQueueProofs

PTypeOK ==
  /\ prepared \in [Preparers -> Seq(Values)]
  /\ data \in [Processors -> Values \cup {NoValue}]
  /\ processed \in [Processors -> Seq(Values)]

(* Preparers only push and processors only wait for a value, and into a    *)
(* `data` that holds none; no copy throws.                                 *)
Roles ==
  /\ \A t \in Threads : pc[t] # "unwind"
  /\ \A p \in Preparers : op[p] = "push"
  /\ \A c \in Processors : pc[c] # "idle" => op[c] = "wait_and_pop" /\ data[c] = NoValue
  /\ \A c \in Processors : pc[c] = "unlock" => val[c] \in Values

-----------------------------------------------------------------------------
(* Where the chunks are: Carried, data_queue and processed hold different  *)
(* chunks, and together those that have been prepared.                     *)

Distinct(s) == \A i, k \in DOMAIN s : s[i] = s[k] => i = k

PreparedOnce ==
  /\ \A p \in Preparers : Distinct(prepared[p])
  /\ \A p, r \in Preparers : p # r => Range(prepared[p]) \cap Range(prepared[r]) = {}

Apart ==
  /\ \A t, u \in Threads : t # u => Carried(t) \cap Carried(u) = {}
  /\ \A t \in Threads : Carried(t) \cap Range(data_queue) = {}
  /\ \A t \in Threads, c \in Processors : Carried(t) \cap Range(processed[c]) = {}
  /\ \A c \in Processors : Range(data_queue) \cap Range(processed[c]) = {}
  /\ \A c, d \in Processors : c # d => Range(processed[c]) \cap Range(processed[d]) = {}
  /\ Distinct(data_queue)
  /\ \A c \in Processors : Distinct(processed[c])

Somewhere(v) ==
  \/ \E t \in Threads : v \in Carried(t)
  \/ v \in Range(data_queue)
  \/ \E c \in Processors : v \in Range(processed[c])

NoneLost == \A v \in Values : Somewhere(v) <=> ~Fresh(v)

-----------------------------------------------------------------------------
(* The order along the way: what a processor has processed comes before    *)
(* what it carries, that before what is in the queue, and all this before  *)
(* what a preparer is about to push, the last chunk it has prepared.       *)

(* If one preparer prepared both v and w, it prepared v first. *)
Earlier(v, w) ==
  \A p \in Preparers :
    v \in Range(prepared[p]) /\ w \in Range(prepared[p])
      => \E j, l \in DOMAIN prepared[p] :
           j < l /\ prepared[p][j] = v /\ prepared[p][l] = w

Ascending(s) == \A i, k \in DOMAIN s : i < k => Earlier(s[i], s[k])

InOrder ==
  /\ Ascending(data_queue)
  /\ \A c \in Processors :
       /\ Ascending(processed[c])
       /\ \A v \in Range(processed[c]), w \in Carried(c) \cup Range(data_queue) : Earlier(v, w)
       /\ \A v \in Carried(c), w \in Range(data_queue) : Earlier(v, w)
  /\ \A p \in Preparers : \A w \in Carried(p) :
       prepared[p] # <<>> /\ w = prepared[p][Len(prepared[p])]

Flow == PreparedOnce /\ Apart /\ NoneLost /\ InOrder

-----------------------------------------------------------------------------
(* What Append and Tail do to the elements of a sequence.                  *)

(* a is s with e at its end. *)
Extends(a, s, e) ==
  /\ DOMAIN s = 1..Len(s) /\ Len(s) \in Nat
  /\ DOMAIN a = 1..(Len(s) + 1) /\ Len(a) = Len(s) + 1 /\ a # <<>>
  /\ \A i \in 1..Len(s) : a[i] = s[i]
  /\ a[Len(s) + 1] = e
  /\ Range(a) = Range(s) \cup {e}
  /\ Distinct(s) /\ e \notin Range(s) => Distinct(a)

LEMMA AppendOne ==
  ASSUME NEW S, NEW s \in Seq(S), NEW e \in S
  PROVE  Extends(Append(s, e), s, e)
<1> DEFINE a == Append(s, e)
<1>1. /\ DOMAIN s = 1..Len(s) /\ Len(s) \in Nat
      /\ a \in Seq(S) /\ Len(a) = Len(s) + 1 /\ a # <<>>
      /\ \A i \in 1..Len(s) : a[i] = s[i]
      /\ a[Len(s) + 1] = e
  BY AppendProperties, LenProperties
<1> HIDE DEF a
<1>2. DOMAIN a = 1..(Len(s) + 1)
  BY <1>1, LenProperties
<1>3. 1..(Len(s) + 1) = 1..Len(s) \cup {Len(s) + 1}
  BY <1>1
<1>4. \A i \in DOMAIN a : (i \in DOMAIN s /\ a[i] = s[i]) \/ (i = Len(s) + 1 /\ a[i] = e)
  BY <1>1, <1>2, <1>3
<1>5. /\ \A i \in DOMAIN s : i \in DOMAIN a /\ a[i] = s[i]
      /\ Len(s) + 1 \in DOMAIN a /\ a[Len(s) + 1] = e
  BY <1>1, <1>2, <1>3
<1>6. Range(a) = Range(s) \cup {e}
  BY <1>4, <1>5 DEF Range
<1>7. Distinct(s) /\ e \notin Range(s) => Distinct(a)
  BY <1>4 DEF Distinct, Range
<1>8. Extends(a, s, e)
  BY <1>1, <1>2, <1>6, <1>7 DEF Extends
<1> QED
  BY <1>8 DEF a

LEMMA TailOne ==
  ASSUME NEW S, NEW s \in Seq(S), s # <<>>, Distinct(s)
  PROVE  /\ DOMAIN Tail(s) \in SUBSET Nat
         /\ \A i \in DOMAIN Tail(s) : i + 1 \in DOMAIN s /\ Tail(s)[i] = s[i + 1]
         /\ 1 \in DOMAIN s /\ Head(s) = s[1] /\ DOMAIN s \in SUBSET Nat
         /\ \A i \in DOMAIN s : 1 <= i
         /\ Head(s) \in Range(s)
         /\ Range(Tail(s)) = Range(s) \ {Head(s)}
         /\ Distinct(Tail(s))
<1> DEFINE r == Tail(s)
<1>1. /\ DOMAIN s = 1..Len(s) /\ Len(s) \in Nat /\ Len(s) # 0 /\ Head(s) = s[1]
      /\ r \in Seq(S) /\ Len(r) = Len(s) - 1
      /\ \A i \in 1..Len(r) : r[i] = s[i + 1]
  BY HeadTailProperties, LenProperties, EmptySeq
<1>2. DOMAIN r = 1..(Len(s) - 1)
  BY <1>1, LenProperties
<1> HIDE DEF r
<1>3. DOMAIN r \in SUBSET Nat /\ \A i \in DOMAIN r : i + 1 \in DOMAIN s /\ r[i] = s[i + 1]
  BY <1>1, <1>2
<1>4. 1 \in DOMAIN s /\ \A i \in DOMAIN s : i \in Nat /\ 1 <= i /\ (i = 1 \/ i - 1 \in DOMAIN r)
  BY <1>1, <1>2
<1>5. \A i \in DOMAIN s : i = 1 \/ (i - 1 \in DOMAIN r /\ r[i - 1] = s[i])
  <2> TAKE i \in DOMAIN s
  <2>1. i \in Nat /\ (i - 1) + 1 = i
    BY <1>4
  <2> QED
    BY <1>3, <1>4, <2>1
<1>6. Range(r) = Range(s) \ {s[1]}
  <2>1. ASSUME NEW i \in DOMAIN r PROVE r[i] \in Range(s) /\ r[i] # s[1]
    <3>1. i \in Nat /\ i + 1 # 1 /\ i + 1 \in DOMAIN s
      BY <1>1, <1>2
    <3> QED
      BY <1>3, <1>4, <3>1 DEF Range, Distinct
  <2>2. ASSUME NEW i \in DOMAIN s, s[i] # s[1] PROVE s[i] \in Range(r)
    BY <1>5, <2>2 DEF Range
  <2> QED
    BY <2>1, <2>2 DEF Range
<1>7. Distinct(r)
  <2> SUFFICES ASSUME NEW i \in DOMAIN r, NEW k \in DOMAIN r, r[i] = r[k] PROVE i = k
    BY DEF Distinct
  <2>1. i + 1 = k + 1
    BY <1>3 DEF Distinct
  <2> QED
    BY <1>3, <2>1
<1> QED
  BY <1>1, <1>3, <1>4, <1>6, <1>7 DEF r, Range

-----------------------------------------------------------------------------
(* The four ways in which a chunk moves, and the steps that move none.     *)

LEMMA NothingMoves ==
  ASSUME Flow, prepared' = prepared, processed' = processed, data_queue' = data_queue,
         \A t \in Threads : Carried(t)' = Carried(t)
  PROVE  Flow'
<1> USE PipelineAssumption
<1>1. PreparedOnce'
  BY DEF Flow, PreparedOnce, Distinct
<1>2. Apart'
  BY DEF Flow, Apart, Distinct
<1>3. NoneLost'
  BY DEF Flow, NoneLost, Somewhere, Fresh
<1>4. \A v, w : Earlier(v, w)' <=> Earlier(v, w)
  BY DEF Earlier
<1>5. InOrder'
  BY <1>4 DEF Flow, InOrder, Ascending
<1> QED
  BY <1>1, <1>2, <1>3, <1>5 DEF Flow

(* A push takes effect: the chunk goes from the preparer to the tail. *)
LEMMA ChunkIsPushed ==
  ASSUME Flow, data_queue \in Seq(Values), NEW t \in Preparers, NEW w \in Values,
         Carried(t) = {w}, Carried(t)' = {}, data_queue' = Append(data_queue, w),
         prepared \in [Preparers -> Seq(Values)],
         prepared' = prepared, processed' = processed,
         \A u \in Threads \ {t} : Carried(u)' = Carried(u)
  PROVE  Flow'
<1> USE PipelineAssumption
<1>1. PreparedOnce'
  BY DEF Flow, PreparedOnce, Distinct
<1>2. /\ DOMAIN data_queue = 1..Len(data_queue) /\ Len(data_queue) \in Nat
      /\ DOMAIN data_queue' = 1..(Len(data_queue) + 1)
      /\ \A i \in 1..Len(data_queue) : data_queue'[i] = data_queue[i]
      /\ data_queue'[Len(data_queue) + 1] = w
      /\ Range(data_queue') = Range(data_queue) \cup {w}
      /\ Distinct(data_queue) /\ w \notin Range(data_queue) => Distinct(data_queue')
  BY AppendOne DEF Extends
<1>3. /\ t \in Threads /\ w \notin Range(data_queue)
      /\ \A u \in Threads \ {t} : w \notin Carried(u)
      /\ \A c \in Processors : t # c /\ w \notin Range(processed[c])
  BY DEF Flow, Apart
<1>4. Apart'
  <2>1. Distinct(data_queue')
    BY <1>2, <1>3 DEF Flow, Apart
  <2>2. \A u \in Threads : Carried(u)' \subseteq Carried(u) /\ w \notin Carried(u)'
    BY <1>3
  <2>3. \A u \in Threads : Carried(u)' \cap Range(data_queue') = {}
    BY <1>2, <2>2 DEF Flow, Apart
  <2>4. \A u, x \in Threads : u # x => Carried(u)' \cap Carried(x)' = {}
    BY <2>2 DEF Flow, Apart
  <2>5. \A u \in Threads, c \in Processors : Carried(u)' \cap Range(processed'[c]) = {}
    BY <2>2 DEF Flow, Apart
  <2>6. \A c \in Processors : Range(data_queue') \cap Range(processed'[c]) = {}
    BY <1>2, <1>3 DEF Flow, Apart
  <2>7. /\ \A c, d \in Processors : c # d => Range(processed'[c]) \cap Range(processed'[d]) = {}
        /\ \A c \in Processors : Distinct(processed'[c])
    BY DEF Flow, Apart
  <2> QED
    BY <2>1, <2>3, <2>4, <2>5, <2>6, <2>7 DEF Apart, Distinct
<1>5. NoneLost'
  <2>1. \A v \in Values : Somewhere(v)' <=> Somewhere(v)
    <3> TAKE v \in Values
    <3>1. CASE v = w
      BY <1>2, <1>3, <3>1 DEF Somewhere
    <3>2. CASE v # w
      <4>1. \A u \in Threads : v \in Carried(u)' <=> v \in Carried(u)
        BY <3>2
      <4> QED
        BY <1>2, <3>2, <4>1 DEF Somewhere
    <3> QED
      BY <3>1, <3>2
  <2> QED
    BY <2>1 DEF Flow, NoneLost, Fresh
<1>6. \A v : v # w => Earlier(v, w)
  <2> SUFFICES ASSUME NEW v, v # w, NEW p \in Preparers,
                      v \in Range(prepared[p]), w \in Range(prepared[p])
               PROVE  \E j, l \in DOMAIN prepared[p] :
                        j < l /\ prepared[p][j] = v /\ prepared[p][l] = w
    BY DEF Earlier
  <2>1. prepared[t] # <<>> /\ w = prepared[t][Len(prepared[t])]
    BY DEF Flow, InOrder
  <2>2. /\ prepared[t] \in Seq(Values) /\ Len(prepared[t]) \in Nat
        /\ DOMAIN prepared[t] = 1..Len(prepared[t]) /\ Len(prepared[t]) # 0
    BY <2>1, LenProperties, EmptySeq
  <2>3. p = t
    <3>1. w \in Range(prepared[t])
      BY <2>1, <2>2 DEF Range
    <3> QED
      BY <3>1 DEF Flow, PreparedOnce
  <2>4. PICK j \in DOMAIN prepared[t] : prepared[t][j] = v
    BY <2>3 DEF Range
  <2>5. j # Len(prepared[t]) /\ Len(prepared[t]) \in DOMAIN prepared[t]
    BY <2>1, <2>2, <2>4
  <2>6. j < Len(prepared[t])
    BY <2>2, <2>5
  <2> QED
    BY <2>1, <2>3, <2>4, <2>5, <2>6
<1>7. \A v, x : Earlier(v, x)' <=> Earlier(v, x)
  BY DEF Earlier
<1>8. InOrder'
  <2>1. \A v \in Range(data_queue) : v # w
    BY <1>3
  <2>2. Ascending(data_queue)'
    <3> SUFFICES ASSUME NEW i \in DOMAIN data_queue', NEW k \in DOMAIN data_queue', i < k
                 PROVE  Earlier(data_queue'[i], data_queue'[k])
      BY <1>7 DEF Ascending
    <3>1. i \in 1..Len(data_queue) /\ data_queue'[i] = data_queue[i]
      BY <1>2
    <3>2. CASE k = Len(data_queue) + 1
      BY <1>2, <1>6, <2>1, <3>1, <3>2 DEF Range
    <3>3. CASE k # Len(data_queue) + 1
      <4>1. k \in 1..Len(data_queue) /\ data_queue'[k] = data_queue[k]
        BY <1>2, <3>3
      <4> QED
        BY <1>2, <3>1, <4>1 DEF Flow, InOrder, Ascending
    <3> QED
      BY <3>2, <3>3
  <2>3. ASSUME NEW c \in Processors
        PROVE  /\ Ascending(processed[c])'
               /\ \A v \in Range(processed'[c]), x \in Carried(c)' \cup Range(data_queue') :
                    Earlier(v, x)
               /\ \A v \in Carried(c)', x \in Range(data_queue') : Earlier(v, x)
    <3>1. Carried(c)' = Carried(c) /\ c \in Threads
      BY <1>3
    <3>2. Ascending(processed[c])'
      BY <1>7 DEF Flow, InOrder, Ascending
    <3>3. \A v \in Range(processed[c]) \cup Carried(c) : Earlier(v, w)
      BY <1>3, <1>6, <3>1
    <3> QED
      BY <1>2, <3>1, <3>2, <3>3 DEF Flow, InOrder
  <2>4. \A p \in Preparers : \A x \in Carried(p)' :
          prepared'[p] # <<>> /\ x = prepared'[p][Len(prepared'[p])]
    BY DEF Flow, InOrder
  <2> QED
    BY <1>7, <2>2, <2>3, <2>4 DEF InOrder
<1> QED
  BY <1>1, <1>4, <1>5, <1>8 DEF Flow

(* A preparer takes a fresh chunk. *)
LEMMA ChunkIsPrepared ==
  ASSUME Flow, NEW p \in Preparers, NEW v \in Values, Fresh(v),
         Carried(p) = {}, Carried(p)' = {v},
         prepared \in [Preparers -> Seq(Values)],
         prepared' = [prepared EXCEPT ![p] = Append(@, v)],
         data_queue' = data_queue, processed' = processed,
         \A u \in Threads \ {p} : Carried(u)' = Carried(u)
  PROVE  Flow'
<1> USE PipelineAssumption
<1> DEFINE mine == prepared[p]
<1>1. /\ DOMAIN mine = 1..Len(mine) /\ Len(mine) \in Nat
      /\ DOMAIN prepared'[p] = 1..(Len(mine) + 1)
      /\ \A i \in 1..Len(mine) : prepared'[p][i] = mine[i]
      /\ prepared'[p][Len(mine) + 1] = v
      /\ Range(prepared'[p]) = Range(mine) \cup {v}
      /\ Distinct(mine) /\ v \notin Range(mine) => Distinct(prepared'[p])
  <2>1. prepared'[p] = Append(mine, v) /\ mine \in Seq(Values)
    OBVIOUS
  <2> HIDE DEF mine
  <2>2. Extends(Append(mine, v), mine, v)
    BY <2>1, AppendOne
  <2> QED
    BY <2>1, <2>2 DEF Extends
<1>2. \A r \in Preparers \ {p} : prepared'[r] = prepared[r]
  OBVIOUS
<1>3. \A r \in Preparers : v \notin Range(prepared[r])
  BY DEF Fresh
<1>4. /\ \A t \in Threads : v \notin Carried(t)
      /\ v \notin Range(data_queue)
      /\ \A c \in Processors : v \notin Range(processed[c])
  BY DEF Flow, NoneLost, Somewhere
<1>5. PreparedOnce'
  <2>1. \A r \in Preparers : Distinct(prepared'[r])
    BY <1>1, <1>2, <1>3 DEF Flow, PreparedOnce
  <2>2. \A r, q \in Preparers : r # q => Range(prepared'[r]) \cap Range(prepared'[q]) = {}
    BY <1>1, <1>2, <1>3 DEF Flow, PreparedOnce
  <2> QED
    BY <2>1, <2>2 DEF PreparedOnce, Distinct
<1>6. Apart'
  <2>1. \A t, u \in Threads : t # u => Carried(t)' \cap Carried(u)' = {}
    BY <1>4 DEF Flow, Apart
  <2>2. \A t \in Threads : Carried(t)' \cap Range(data_queue') = {}
    BY <1>4 DEF Flow, Apart
  <2>3. \A t \in Threads, c \in Processors : Carried(t)' \cap Range(processed'[c]) = {}
    BY <1>4 DEF Flow, Apart
  <2> QED
    BY <2>1, <2>2, <2>3 DEF Flow, Apart, Distinct
<1>7. NoneLost'
  <2>1. ASSUME NEW x \in Values, x # v PROVE Somewhere(x)' <=> Somewhere(x)
    <3>1. \A t \in Threads : x \in Carried(t)' <=> x \in Carried(t)
      BY <2>1
    <3> QED
      BY <3>1 DEF Somewhere
  <2>2. ASSUME NEW x \in Values, x # v PROVE Fresh(x)' <=> Fresh(x)
    BY <1>1, <1>2, <2>2 DEF Fresh
  <2>3. Somewhere(v)' /\ ~Fresh(v)'
    BY <1>1 DEF Somewhere, Fresh
  <2> QED
    BY <2>1, <2>2, <2>3 DEF Flow, NoneLost
<1>8. \A x, y : x # v /\ y # v /\ Earlier(x, y) => Earlier(x, y)'
  <2> SUFFICES ASSUME NEW x, NEW y, x # v, y # v, Earlier(x, y)
               PROVE  Earlier(x, y)'
    OBVIOUS
  <2> SUFFICES ASSUME NEW r \in Preparers,
                      x \in Range(prepared'[r]), y \in Range(prepared'[r])
               PROVE  \E j, l \in DOMAIN prepared'[r] :
                        j < l /\ prepared'[r][j] = x /\ prepared'[r][l] = y
    BY DEF Earlier
  <2>1. x \in Range(prepared[r]) /\ y \in Range(prepared[r])
    BY <1>1, <1>2
  <2>2. PICK j, l \in DOMAIN prepared[r] : j < l /\ prepared[r][j] = x /\ prepared[r][l] = y
    BY <2>1 DEF Earlier
  <2>3. \A i \in DOMAIN prepared[r] : i \in DOMAIN prepared'[r] /\ prepared'[r][i] = prepared[r][i]
    BY <1>1, <1>2
  <2> QED
    BY <2>2, <2>3
<1>9. InOrder'
  <2>1. Ascending(data_queue)'
    BY <1>4, <1>8 DEF Flow, InOrder, Ascending, Range
  <2>2. ASSUME NEW c \in Processors
        PROVE  /\ Ascending(processed[c])'
               /\ \A x \in Range(processed'[c]), y \in Carried(c)' \cup Range(data_queue') :
                    Earlier(x, y)'
               /\ \A x \in Carried(c)', y \in Range(data_queue') : Earlier(x, y)'
    <3>1. Carried(c)' = Carried(c) /\ c \in Threads
      OBVIOUS
    <3>2. Ascending(processed[c])'
      BY <1>4, <1>8 DEF Flow, InOrder, Ascending, Range
    <3> QED
      BY <1>4, <1>8, <3>1, <3>2 DEF Flow, InOrder
  <2>3. ASSUME NEW r \in Preparers, NEW x \in Carried(r)'
        PROVE  prepared'[r] # <<>> /\ x = prepared'[r][Len(prepared'[r])]
    <3>1. CASE r = p
      <4>1. prepared'[p] = Append(mine, v) /\ mine \in Seq(Values)
        OBVIOUS
      <4>2. Len(prepared'[p]) = Len(mine) + 1 /\ prepared'[p] # <<>>
        <5> HIDE DEF mine
        <5> QED
          BY <4>1, AppendProperties
      <4> QED
        BY <1>1, <2>3, <3>1, <4>2
    <3>2. CASE r # p
      BY <1>2, <2>3, <3>2 DEF Flow, InOrder
    <3> QED
      BY <3>1, <3>2
  <2> QED
    BY <2>1, <2>2, <2>3 DEF InOrder
<1> QED
  BY <1>5, <1>6, <1>7, <1>9 DEF Flow

(* A pop takes effect: the chunk goes from the front to a processor. *)
LEMMA ChunkIsPopped ==
  ASSUME Flow, data_queue \in Seq(Values), data_queue # <<>>, NEW t \in Processors,
         Carried(t) = {}, Carried(t)' = {Head(data_queue)}, data_queue' = Tail(data_queue),
         prepared' = prepared, processed' = processed,
         \A u \in Threads \ {t} : Carried(u)' = Carried(u)
  PROVE  Flow'
<1> USE PipelineAssumption
<1> DEFINE w == Head(data_queue)
<1>1. PreparedOnce'
  BY DEF Flow, PreparedOnce, Distinct
<1>2. /\ DOMAIN data_queue' \in SUBSET Nat
      /\ \A i \in DOMAIN data_queue' :
           i + 1 \in DOMAIN data_queue /\ data_queue'[i] = data_queue[i + 1]
      /\ 1 \in DOMAIN data_queue /\ w = data_queue[1]
      /\ w \in Range(data_queue)
      /\ Range(data_queue') = Range(data_queue) \ {w}
      /\ Distinct(data_queue')
  BY TailOne DEF Flow, Apart
<1> HIDE DEF w
<1>3. Carried(t)' = {w}
  BY DEF w
<1>4. /\ \A u \in Threads : w \notin Carried(u)
      /\ \A c \in Processors : w \notin Range(processed[c])
  BY <1>2 DEF Flow, Apart
<1>5. Apart'
  <2>1. \A u, x \in Threads : u # x => Carried(u)' \cap Carried(x)' = {}
    BY <1>3, <1>4 DEF Flow, Apart
  <2>2. \A u \in Threads : Carried(u)' \cap Range(data_queue') = {}
    BY <1>2, <1>3 DEF Flow, Apart
  <2>3. \A u \in Threads, c \in Processors : Carried(u)' \cap Range(processed'[c]) = {}
    BY <1>3, <1>4 DEF Flow, Apart
  <2>4. \A c \in Processors : Range(data_queue') \cap Range(processed'[c]) = {}
    BY <1>2 DEF Flow, Apart
  <2> QED
    BY <1>2, <2>1, <2>2, <2>3, <2>4 DEF Flow, Apart, Distinct
<1>6. NoneLost'
  <2>1. \A v \in Values : Somewhere(v)' <=> Somewhere(v)
    <3> TAKE v \in Values
    <3>1. CASE v = w
      BY <1>2, <1>3, <3>1 DEF Somewhere
    <3>2. CASE v # w
      <4>1. \A u \in Threads : v \in Carried(u)' <=> v \in Carried(u)
        BY <1>3, <3>2
      <4> QED
        BY <1>2, <3>2, <4>1 DEF Somewhere
    <3> QED
      BY <3>1, <3>2
  <2> QED
    BY <2>1 DEF Flow, NoneLost, Fresh
<1>7. \A v, x : Earlier(v, x)' <=> Earlier(v, x)
  BY DEF Earlier
<1>8. InOrder'
  <2>1. Ascending(data_queue)'
    <3> SUFFICES ASSUME NEW i \in DOMAIN data_queue', NEW k \in DOMAIN data_queue', i < k
                 PROVE  Earlier(data_queue'[i], data_queue'[k])
      BY <1>7 DEF Ascending
    <3>1. i + 1 < k + 1
      BY <1>2
    <3> QED
      BY <1>2, <3>1 DEF Flow, InOrder, Ascending
  <2>2. \A x \in Range(data_queue') : Earlier(w, x)
    <3> SUFFICES ASSUME NEW i \in DOMAIN data_queue' PROVE Earlier(w, data_queue'[i])
      BY DEF Range
    <3>1. 1 < i + 1
      <4>1. i \in Nat /\ i + 1 \in DOMAIN data_queue
        BY <1>2
      <4>2. i # 0
        BY LenProperties, <1>2, HeadTailProperties
      <4> QED
        BY <4>1, <4>2
    <3> QED
      BY <1>2, <3>1 DEF Flow, InOrder, Ascending
  <2>3. ASSUME NEW c \in Processors
        PROVE  /\ Ascending(processed[c])'
               /\ \A v \in Range(processed'[c]), x \in Carried(c)' \cup Range(data_queue') :
                    Earlier(v, x)
               /\ \A v \in Carried(c)', x \in Range(data_queue') : Earlier(v, x)
    <3>1. Ascending(processed[c])'
      BY <1>7 DEF Flow, InOrder, Ascending
    <3>2. \A v \in Range(processed[c]), x \in Carried(c)' \cup Range(data_queue') : Earlier(v, x)
      BY <1>2, <1>3 DEF Flow, InOrder
    <3>3. \A v \in Carried(c)', x \in Range(data_queue') : Earlier(v, x)
      BY <1>2, <1>3, <2>2 DEF Flow, InOrder
    <3> QED
      BY <3>1, <3>2, <3>3
  <2>4. \A p \in Preparers : \A x \in Carried(p)' :
          prepared'[p] # <<>> /\ x = prepared'[p][Len(prepared'[p])]
    BY DEF Flow, InOrder
  <2> QED
    BY <1>7, <2>1, <2>3, <2>4 DEF InOrder
<1> QED
  BY <1>1, <1>5, <1>6, <1>8 DEF Flow

(* A processor has processed the chunk it carried. *)
LEMMA ChunkIsProcessed ==
  ASSUME Flow, NEW t \in Processors, NEW w \in Values,
         Carried(t) = {w}, Carried(t)' = {},
         processed \in [Processors -> Seq(Values)],
         processed' = [processed EXCEPT ![t] = Append(@, w)],
         prepared' = prepared, data_queue' = data_queue,
         \A u \in Threads \ {t} : Carried(u)' = Carried(u)
  PROVE  Flow'
<1> USE PipelineAssumption
<1> DEFINE done == processed[t]
<1>1. PreparedOnce'
  BY DEF Flow, PreparedOnce, Distinct
<1>2. /\ DOMAIN done = 1..Len(done) /\ Len(done) \in Nat
      /\ DOMAIN processed'[t] = 1..(Len(done) + 1)
      /\ \A i \in 1..Len(done) : processed'[t][i] = done[i]
      /\ processed'[t][Len(done) + 1] = w
      /\ Range(processed'[t]) = Range(done) \cup {w}
      /\ Distinct(done) /\ w \notin Range(done) => Distinct(processed'[t])
  <2>1. processed'[t] = Append(done, w) /\ done \in Seq(Values)
    OBVIOUS
  <2> HIDE DEF done
  <2>2. Extends(Append(done, w), done, w)
    BY <2>1, AppendOne
  <2> QED
    BY <2>1, <2>2 DEF Extends
<1>3. \A c \in Processors \ {t} : processed'[c] = processed[c]
  OBVIOUS
<1>4. /\ t \in Threads /\ w \notin Range(data_queue)
      /\ \A u \in Threads \ {t} : w \notin Carried(u)
      /\ \A c \in Processors : w \notin Range(processed[c])
  BY DEF Flow, Apart
<1>5. Apart'
  <2>1. \A u \in Threads : Carried(u)' \subseteq Carried(u) /\ w \notin Carried(u)'
    BY <1>4
  <2>2. /\ \A u, x \in Threads : u # x => Carried(u)' \cap Carried(x)' = {}
        /\ \A u \in Threads : Carried(u)' \cap Range(data_queue') = {}
    BY <2>1 DEF Flow, Apart
  <2>3. \A u \in Threads, c \in Processors : Carried(u)' \cap Range(processed'[c]) = {}
    BY <1>2, <1>3, <2>1 DEF Flow, Apart
  <2>4. \A c \in Processors : Range(data_queue') \cap Range(processed'[c]) = {}
    BY <1>2, <1>3, <1>4 DEF Flow, Apart
  <2>5. \A c, d \in Processors : c # d => Range(processed'[c]) \cap Range(processed'[d]) = {}
    BY <1>2, <1>3, <1>4 DEF Flow, Apart
  <2>6. \A c \in Processors : Distinct(processed'[c])
    BY <1>2, <1>3, <1>4 DEF Flow, Apart
  <2> QED
    BY <2>2, <2>3, <2>4, <2>5, <2>6 DEF Flow, Apart, Distinct
<1>6. NoneLost'
  <2>1. \A v \in Values : Somewhere(v)' <=> Somewhere(v)
    <3> TAKE v \in Values
    <3>1. CASE v = w
      BY <1>2, <1>4, <3>1 DEF Somewhere
    <3>2. CASE v # w
      <4>1. \A u \in Threads : v \in Carried(u)' <=> v \in Carried(u)
        BY <3>2
      <4>2. \A c \in Processors : v \in Range(processed'[c]) <=> v \in Range(processed[c])
        BY <1>2, <1>3, <3>2
      <4> QED
        BY <4>1, <4>2 DEF Somewhere
    <3> QED
      BY <3>1, <3>2
  <2> QED
    BY <2>1 DEF Flow, NoneLost, Fresh
<1>7. \A v, x : Earlier(v, x)' <=> Earlier(v, x)
  BY DEF Earlier
<1>8. InOrder'
  <2>1. Ascending(data_queue)'
    BY <1>7 DEF Flow, InOrder, Ascending
  <2>2. Ascending(processed[t])'
    <3> SUFFICES ASSUME NEW i \in DOMAIN processed'[t], NEW k \in DOMAIN processed'[t], i < k
                 PROVE  Earlier(processed'[t][i], processed'[t][k])
      BY <1>7 DEF Ascending
    <3>1. i \in 1..Len(done) /\ processed'[t][i] = done[i]
      <4> HIDE DEF done
      <4> QED
        BY <1>2
    <3>2. CASE k = Len(done) + 1
      <4>1. done[i] \in Range(done)
        BY <1>2, <3>1 DEF Range
      <4> QED
        BY <1>2, <3>1, <3>2, <4>1 DEF Flow, InOrder
    <3>3. CASE k # Len(done) + 1
      <4>1. k \in 1..Len(done) /\ processed'[t][k] = done[k]
        <5> HIDE DEF done
        <5> QED
          BY <1>2, <3>3
      <4> QED
        BY <1>2, <3>1, <4>1 DEF Flow, InOrder, Ascending
    <3> QED
      BY <3>2, <3>3
  <2>3. ASSUME NEW c \in Processors
        PROVE  /\ Ascending(processed[c])'
               /\ \A v \in Range(processed'[c]), x \in Carried(c)' \cup Range(data_queue') :
                    Earlier(v, x)
               /\ \A v \in Carried(c)', x \in Range(data_queue') : Earlier(v, x)
    <3>1. CASE c = t
      BY <1>2, <2>2, <3>1 DEF Flow, InOrder
    <3>2. CASE c # t
      <4>1. processed'[c] = processed[c] /\ Carried(c)' = Carried(c)
        BY <3>2
      <4>2. Ascending(processed[c])'
        BY <1>7, <4>1 DEF Flow, InOrder, Ascending
      <4> QED
        BY <4>1, <4>2 DEF Flow, InOrder
    <3> QED
      BY <3>1, <3>2
  <2>4. \A p \in Preparers : \A x \in Carried(p)' :
          prepared'[p] # <<>> /\ x = prepared'[p][Len(prepared'[p])]
    BY DEF Flow, InOrder
  <2> QED
    BY <1>7, <2>1, <2>3, <2>4 DEF InOrder
<1> QED
  BY <1>1, <1>5, <1>6, <1>8 DEF Flow

-----------------------------------------------------------------------------
(* The roles, and what a thread carries where.                             *)

LEMMA RolesKept ==
  ASSUME QInv, QInv', PTypeOK, Roles, [PNext]_<<vars, pvars>>
  PROVE  PTypeOK' /\ Roles'
<1> USE PipelineAssumption DEF QInv, TypeOK, PTypeOK, Roles, Goto
<1>1. CASE UNCHANGED <<vars, pvars>>
  BY <1>1 DEF vars, pvars
<1>2. ASSUME NEW p \in Preparers, NEW v \in Values, Prepare(p, v) PROVE PTypeOK' /\ Roles'
  <2>1. Append(prepared[p], v) \in Seq(Values)
    BY AppendProperties
  <2> QED
    BY <1>2, <2>1 DEF Prepare, Call
<1>3. ASSUME NEW c \in Processors, Await(c) PROVE PTypeOK' /\ Roles'
  BY <1>3 DEF Await, Call, pvars
<1>4. ASSUME NEW c \in Processors, Receive(c) PROVE PTypeOK' /\ Roles'
  BY <1>4 DEF Receive, Unlock
<1>5. ASSUME NEW c \in Processors, Process(c) PROVE PTypeOK' /\ Roles'
  <2>1. Append(processed[c], data[c]) \in Seq(Values)
    <3>1. data[c] \in Values /\ processed[c] \in Seq(Values)
      BY <1>5 DEF Process
    <3> QED
      BY <3>1, AppendProperties
  <2> QED
    BY <1>5, <2>1 DEF Process, vars
<1>6. ASSUME NEW t \in Threads, QueueStep(t) PROVE PTypeOK' /\ Roles'
  <2>1. prepared' = prepared /\ data' = data /\ processed' = processed /\ op' = op
    BY <1>6 DEF QueueStep, pvars, Step, Lock, Push, PushThrows, NotifyOne, FindValue,
                FindEmpty, Wait, CopyFront, CopyThrows, Pop, Unlock, WakeSpuriously
  <2>2. pc'[t] # "unwind" /\ pc[t] # "idle"
    BY <1>6 DEF QueueStep, Step, Lock, Push, PushThrows, NotifyOne, FindValue,
                FindEmpty, Wait, CopyFront, CopyThrows, Pop, Unlock, WakeSpuriously
  <2>3. \A u \in Threads \ {t} :
          pc'[u] = pc[u] \/ (pc[u] = "waiting" /\ pc'[u] = "relock")
    BY <1>6 DEF QueueStep, Step, Lock, Push, PushThrows, NotifyOne, FindValue,
                FindEmpty, Wait, CopyFront, CopyThrows, Pop, Unlock, WakeSpuriously, data_cond
  <2>4. \A u \in Threads \ {t} : val'[u] = val[u]
    BY <1>6 DEF QueueStep, Step, Lock, Push, PushThrows, NotifyOne, FindValue,
                FindEmpty, Wait, CopyFront, CopyThrows, Pop, Unlock, WakeSpuriously
  <2>5. t \in Processors /\ pc'[t] = "unlock" => val'[t] \in Values
    <3> SUFFICES ASSUME t \in Processors, pc'[t] = "unlock" PROVE val'[t] \in Values
      OBVIOUS
    <3>1. op[t] = "wait_and_pop"
      BY <2>2
    <3>2. Pop(t)
      BY <1>6, <3>1 DEF OpAtLabel, QueueStep, Step, Lock, Push, PushThrows, NotifyOne,
         FindValue, FindEmpty, Wait, CopyFront, CopyThrows, Unlock, WakeSpuriously
    <3>3. val'[t] = Head(data_queue) /\ data_queue # <<>>
      BY <3>2 DEF Pop, FrontStays
    <3> QED
      BY <3>3, HeadTailProperties
  <2>6. \A u \in Threads : pc'[u] # "unwind"
    <3> TAKE u \in Threads
    <3>1. pc[u] # "unwind"
      OBVIOUS
    <3> QED
      BY <2>2, <2>3, <3>1
  <2>7. \A p \in Preparers : op'[p] = "push"
    BY <2>1
  <2>8. ASSUME NEW c \in Processors
        PROVE  /\ pc'[c] # "idle" => op'[c] = "wait_and_pop" /\ data'[c] = NoValue
               /\ pc'[c] = "unlock" => val'[c] \in Values
    <3>1. c \in Threads
      OBVIOUS
    <3>2. CASE c = t
      BY <2>1, <2>2, <2>5, <3>2
    <3>3. CASE c # t
      BY <2>1, <2>3, <2>4, <3>1, <3>3
    <3> QED
      BY <3>2, <3>3
  <2> QED
    BY <2>1, <2>6, <2>7, <2>8
<1> QED
  BY <1>1, <1>2, <1>3, <1>4, <1>5, <1>6 DEF PNext, ProcessorStep

(* A preparer carries its chunk until it has pushed it, a processor from   *)
(* the pop on.                                                             *)
CarriedWhere ==
  /\ \A p \in Preparers : Carried(p) = IF pc[p] \in {"lock", "push"} THEN {val[p]} ELSE {}
  /\ \A c \in Processors :
       Carried(c) = IF pc[c] = "unlock" THEN {val[c]}
                    ELSE IF data[c] # NoValue THEN {data[c]} ELSE {}

LEMMA Carries == QInv /\ PTypeOK /\ Roles => CarriedWhere
<1> SUFFICES ASSUME QInv, PTypeOK, Roles PROVE CarriedWhere
  OBVIOUS
<1> USE PipelineAssumption, QueueAssumption DEF QInv, TypeOK, Roles, OpAtLabel, ValAtLabel, Labels
<1>1. ASSUME NEW p \in Preparers
      PROVE  Carried(p) = IF pc[p] \in {"lock", "push"} THEN {val[p]} ELSE {}
  <2>1. /\ p \in Threads /\ p \notin Processors /\ op[p] = "push"
        /\ pc[p] \in {"idle", "lock", "push", "notify", "unlock"}
    OBVIOUS
  <2>2. /\ pc[p] = "idle" => val[p] = NoValue
        /\ pc[p] \in {"lock", "push"} => val[p] \in Values
    BY <2>1
  <2> QED
    BY <2>1, <2>2 DEF Carried, Result
<1>2. ASSUME NEW c \in Processors
      PROVE  Carried(c) = IF pc[c] = "unlock" THEN {val[c]}
                          ELSE IF data[c] # NoValue THEN {data[c]} ELSE {}
  <2>1. CASE pc[c] = "idle"
    BY <2>1 DEF Carried, Result
  <2>2. CASE pc[c] # "idle"
    <3>1. /\ op[c] = "wait_and_pop" /\ data[c] = NoValue /\ c \in Threads
          /\ pc[c] \in {"lock", "test", "waiting", "relock", "front", "pop", "unlock"}
      BY <2>2
    <3>2. pc[c] = "unlock" => val[c] # NoValue
      OBVIOUS
    <3> QED
      BY <3>1, <3>2 DEF Carried, Result, Phase
  <2> QED
    BY <2>1, <2>2
<1> QED
  BY <1>1, <1>2 DEF CarriedWhere

-----------------------------------------------------------------------------
(* Each step moves a chunk in one of these ways, or none.                  *)

PInv == PTypeOK /\ Roles /\ Flow

(* The call of a push, with the chunk just prepared. *)
LEMMA PrepareKeeps ==
  ASSUME QInv, PInv, CarriedWhere, CarriedWhere',
         NEW p \in Preparers, NEW v \in Values, Prepare(p, v)
  PROVE  Flow'
<1> USE PipelineAssumption
<1>1. /\ Fresh(v) /\ p \in Threads
      /\ pc[p] = "idle" /\ pc' = [pc EXCEPT ![p] = "lock"] /\ val' = [val EXCEPT ![p] = v]
      /\ prepared' = [prepared EXCEPT ![p] = Append(@, v)]
      /\ data' = data /\ processed' = processed /\ data_queue' = data_queue
  BY DEF Prepare, Call, Goto
<1>2. Carried(p) = {} /\ Carried(p)' = {v}
  BY <1>1 DEF CarriedWhere, QInv, TypeOK
<1>3. \A u \in Threads \ {p} : Carried(u)' = Carried(u)
  BY <1>1 DEF CarriedWhere, QInv, TypeOK
<1>4. prepared \in [Preparers -> Seq(Values)]
  BY DEF PInv, PTypeOK
<1> QED
  BY <1>1, <1>2, <1>3, <1>4, ChunkIsPrepared DEF PInv

(* The processor's own steps: only process(data) moves the chunk, as the   *)
(* return of wait_and_pop hands it from one variable to another.           *)
LEMMA ProcessorKeeps ==
  ASSUME QInv, PInv, CarriedWhere, CarriedWhere', NEW c \in Processors, ProcessorStep(c)
  PROVE  Flow'
<1> USE PipelineAssumption DEF QInv, TypeOK, Goto
<1>1. CASE Await(c)
  <2>1. \A u \in Threads : Carried(u)' = Carried(u)
    BY <1>1 DEF Await, Call, pvars, CarriedWhere
  <2> QED
    BY <1>1, <2>1, NothingMoves DEF Await, Call, pvars, PInv
<1>2. CASE Receive(c)
  <2>1. pc[c] = "unlock" /\ data[c] = NoValue /\ val[c] # NoValue
    BY <1>2, QueueAssumption DEF Receive, Unlock, PInv, Roles
  <2>2. Carried(c) = {val[c]} /\ Carried(c)' = {val[c]}
    BY <1>2, <2>1 DEF Receive, Unlock, CarriedWhere, PInv, PTypeOK
  <2>3. \A u \in Threads \ {c} : Carried(u)' = Carried(u)
    BY <1>2 DEF Receive, Unlock, CarriedWhere, PInv, PTypeOK
  <2> QED
    BY <1>2, <2>2, <2>3, NothingMoves DEF Receive, Unlock, PInv
<1>3. CASE Process(c)
  <2>1. /\ data[c] \in Values /\ pc[c] = "idle" /\ pc' = pc /\ val' = val
        /\ data' = [data EXCEPT ![c] = NoValue]
        /\ processed' = [processed EXCEPT ![c] = Append(@, data[c])]
        /\ prepared' = prepared /\ data_queue' = data_queue
    BY <1>3 DEF Process, vars, PInv, PTypeOK
  <2>2. Carried(c) = {data[c]} /\ Carried(c)' = {}
    BY <2>1, QueueAssumption DEF CarriedWhere, PInv, PTypeOK
  <2>3. \A u \in Threads \ {c} : Carried(u)' = Carried(u)
    BY <2>1 DEF CarriedWhere, PInv, PTypeOK
  <2>4. processed \in [Processors -> Seq(Values)]
    BY DEF PInv, PTypeOK
  <2> QED
    BY <2>1, <2>2, <2>3, <2>4, ChunkIsProcessed DEF PInv
<1> QED
  BY <1>1, <1>2, <1>3 DEF ProcessorStep

(* Inside the queue only data_queue.push and data_queue.pop move a chunk.  *)
LEMMA QueueKeeps ==
  ASSUME QInv, PInv, CarriedWhere, CarriedWhere', NEW t \in Threads, QueueStep(t)
  PROVE  Flow'
<1> USE PipelineAssumption DEF QInv, TypeOK, Goto
<1>1. prepared' = prepared /\ data' = data /\ processed' = processed
  BY DEF QueueStep, pvars
<1>2. CASE Push(t)
  <2>1. t \in Preparers /\ pc[t] = "push" /\ val[t] \in Values
    BY <1>2 DEF Push, OpAtLabel, ValAtLabel, PInv, Roles
  <2>2. Carried(t) = {val[t]} /\ Carried(t)' = {}
    BY <1>2, <2>1 DEF Push, CarriedWhere
  <2>3. \A u \in Threads \ {t} : Carried(u)' = Carried(u)
    BY <1>1, <1>2 DEF Push, CarriedWhere
  <2>4. /\ data_queue' = Append(data_queue, val[t]) /\ data_queue \in Seq(Values)
        /\ prepared \in [Preparers -> Seq(Values)]
    BY <1>2 DEF Push, PInv, PTypeOK
  <2> QED
    BY <1>1, <2>1, <2>2, <2>3, <2>4, ChunkIsPushed DEF PInv
<1>3. CASE Pop(t)
  <2>1. /\ t \in Processors /\ pc[t] = "pop" /\ data[t] = NoValue
        /\ val[t] = Head(data_queue) /\ data_queue # <<>>
    BY <1>3 DEF Pop, OpAtLabel, FrontStays, PInv, Roles
  <2>2. Carried(t) = {} /\ Carried(t)' = {Head(data_queue)}
    BY <1>3, <2>1 DEF Pop, CarriedWhere
  <2>3. \A u \in Threads \ {t} : Carried(u)' = Carried(u)
    BY <1>1, <1>3 DEF Pop, CarriedWhere
  <2>4. data_queue' = Tail(data_queue) /\ data_queue \in Seq(Values)
    BY <1>3 DEF Pop
  <2> QED
    BY <1>1, <2>1, <2>2, <2>3, <2>4, ChunkIsPopped DEF PInv
<1>4. CASE ~Push(t) /\ ~Pop(t)
  <2>1. ~PushThrows(t) /\ ~CopyThrows(t) /\ ~FindEmpty(t)
    BY DEF QueueStep, PushThrows, CopyThrows, FindEmpty, OpAtLabel, PInv, Roles
  <2>2. CASE NotifyOne(t) \/ WakeSpuriously(t)
    <3>1. \A u \in Threads : pc'[u] # pc[u] =>
            \/ pc[u] = "notify" /\ pc'[u] = "unlock" /\ op[u] = "push"
            \/ pc[u] = "waiting" /\ pc'[u] = "relock" /\ op[u] = "wait_and_pop"
      BY <2>2 DEF NotifyOne, WakeSpuriously, data_cond, OpAtLabel
    <3>2. val' = val /\ data_queue' = data_queue
      BY <2>2 DEF NotifyOne, WakeSpuriously
    <3>3. \A p \in Preparers : Carried(p)' = Carried(p)
      BY <3>1, <3>2 DEF CarriedWhere
    <3>4. ASSUME NEW c \in Processors PROVE Carried(c)' = Carried(c)
      <4>1. c \in Threads /\ (pc[c] = "unlock" <=> pc'[c] = "unlock")
        <5>1. c \in Threads /\ (pc[c] # "idle" => op[c] = "wait_and_pop")
          BY DEF PInv, Roles
        <5> QED
          BY <3>1, <5>1
      <4> QED
        BY <1>1, <3>2, <4>1 DEF CarriedWhere
    <3> QED
      BY <1>1, <3>2, <3>3, <3>4, NothingMoves DEF PInv
  <2>3. CASE Lock(t) \/ FindValue(t) \/ Wait(t) \/ CopyFront(t) \/ Unlock(t)
    <3>1. /\ data_queue' = data_queue
          /\ \A u \in Threads \ {t} : pc'[u] = pc[u] /\ val'[u] = val[u]
      BY <2>3 DEF Lock, FindValue, Wait, CopyFront, Unlock
    <3>2. t \in Processors => pc[t] # "unlock" /\ pc'[t] # "unlock"
      BY <2>3 DEF QueueStep, Lock, FindValue, Wait, CopyFront, Unlock, PInv, Roles
    <3>3. t \in Preparers =>
            /\ pc[t] \in {"lock", "push"} <=> pc'[t] \in {"lock", "push"}
            /\ pc[t] \in {"lock", "push"} => val'[t] = val[t]
      BY <2>3 DEF Lock, FindValue, Wait, CopyFront, Unlock, OpAtLabel, PInv, Roles
    <3>4. \A p \in Preparers : Carried(p)' = Carried(p)
      BY <3>1, <3>3 DEF CarriedWhere
    <3>5. \A c \in Processors : Carried(c)' = Carried(c)
      BY <1>1, <3>1, <3>2 DEF CarriedWhere
    <3> QED
      BY <1>1, <3>1, <3>4, <3>5, NothingMoves DEF PInv
  <2> QED
    BY <1>4, <2>1, <2>2, <2>3 DEF QueueStep, Step
<1> QED
  BY <1>2, <1>3, <1>4

(* Every step is a step of the queue, or leaves it. *)
LEMMA StepOfQueue == PNext => [Next]_vars
<1> SUFFICES ASSUME PNext PROVE [Next]_vars
  OBVIOUS
<1> USE PipelineAssumption DEF Next, Ops
<1>1. ASSUME NEW p \in Preparers, NEW v \in Values, Prepare(p, v) PROVE Next
  BY <1>1 DEF Prepare
<1>2. ASSUME NEW c \in Processors, ProcessorStep(c) PROVE [Next]_vars
  BY <1>2 DEF ProcessorStep, Await, Receive, Process, Step
<1>3. ASSUME NEW t \in Threads, QueueStep(t) PROVE Next
  BY <1>3 DEF QueueStep
<1> QED
  BY <1>1, <1>2, <1>3 DEF PNext

(* PInv is an inductive invariant, with QInv. *)
THEOREM PipelineInvariance == PSpec => [](QInv /\ PInv)
<1>1. PSpec => []QInv
  <2>1. PInit => Init
    BY DEF PInit
  <2>2. [PNext]_<<vars, pvars>> => [Next]_vars
    BY StepOfQueue
  <2> QED
    BY <2>1, <2>2, QueueInvariance, PTL DEF PSpec, Spec
<1>2. PInit => PInv
  <2> SUFFICES ASSUME PInit PROVE PInv
    OBVIOUS
  <2> USE PipelineAssumption DEF PInit, Init
  <2>1. PTypeOK /\ Roles
    BY EmptySeq DEF PTypeOK, Roles
  <2>2. \A v \in Values : Fresh(v)
    BY DEF Fresh, Range
  <2>3. \A t \in Threads : Carried(t) = {}
    BY DEF Carried, Result
  <2>4. PreparedOnce
    BY DEF PreparedOnce, Distinct, Range
  <2>5. Apart
    BY <2>3 DEF Apart, Distinct, Range
  <2>6. NoneLost
    BY <2>2, <2>3 DEF NoneLost, Somewhere, Range
  <2>7. InOrder
    BY <2>3 DEF InOrder, Ascending, Range
  <2> QED
    BY <2>1, <2>4, <2>5, <2>6, <2>7 DEF PInv, Flow
<1>3. QInv /\ PInv /\ QInv' /\ [PNext]_<<vars, pvars>> => PTypeOK' /\ Roles'
  BY RolesKept DEF PInv
<1>4. QInv /\ PTypeOK /\ Roles => CarriedWhere
  BY Carries
<1>5. (QInv /\ PTypeOK /\ Roles => CarriedWhere)'
  BY <1>4, PTL
<1>6. QInv /\ PInv /\ QInv' /\ CarriedWhere /\ CarriedWhere' /\ [PNext]_<<vars, pvars>> => Flow'
  <2> SUFFICES ASSUME QInv, PInv, QInv', CarriedWhere, CarriedWhere', [PNext]_<<vars, pvars>>
               PROVE  Flow'
    OBVIOUS
  <2>1. CASE UNCHANGED <<vars, pvars>>
    <3>1. \A t \in Threads : Carried(t)' = Carried(t)
      BY <2>1 DEF vars, pvars, Carried, Result, Phase
    <3> QED
      BY <2>1, <3>1, NothingMoves DEF vars, pvars, PInv
  <2> QED
    BY <2>1, PrepareKeeps, ProcessorKeeps, QueueKeeps DEF PNext
<1>7. QInv /\ PInv /\ QInv' /\ [PNext]_<<vars, pvars>> => PInv'
  BY <1>3, <1>4, <1>5, <1>6 DEF PInv
<1> QED
  BY <1>1, <1>2, <1>7, PTL DEF PSpec

-----------------------------------------------------------------------------

(* A processor processes the chunks of one preparer in their order. *)
THEOREM ProcessedInOrderTheorem == PSpec => []ProcessedInOrder
<1>1. PInv => ProcessedInOrder
  BY DEF PInv, Flow, InOrder, Ascending, Earlier, ProcessedInOrder
<1> QED
  BY <1>1, PipelineInvariance, PTL

(* A set that holds one element, or none, has that many. *)
LEMMA OneOrNone ==
  ASSUME NEW S, \A x, y \in S : x = y
  PROVE  Cardinality(S) = IF S = {} THEN 0 ELSE 1
<1>1. CASE S = {}
  BY <1>1, FS_EmptySet
<1>2. ASSUME NEW x \in S PROVE Cardinality(S) = 1
  <2>1. S = {x}
    BY <1>2
  <2> QED
    BY <2>1, FS_Singleton
<1> QED
  BY <1>1, <1>2

(* Every chunk that was prepared is in one place. *)
THEOREM ChunkInOnePlaceTheorem == PSpec => []ChunkInOnePlace
<1>1. PInv => ChunkInOnePlace
  <2> SUFFICES ASSUME PInv, NEW v \in Values
               PROVE  Cardinality({t \in Threads : v \in Carried(t)})
                        + Cardinality({i \in DOMAIN data_queue : data_queue[i] = v})
                        + Cardinality(UNION {{<<c, i>> : i \in {k \in DOMAIN processed[c] :
                                                                  processed[c][k] = v}} :
                                               c \in Processors})
                      = IF Fresh(v) THEN 0 ELSE 1
    BY DEF ChunkInOnePlace
  <2> DEFINE A == {t \in Threads : v \in Carried(t)}
             B == {i \in DOMAIN data_queue : data_queue[i] = v}
             C == UNION {{<<c, i>> : i \in {k \in DOMAIN processed[c] : processed[c][k] = v}} :
                           c \in Processors}
  <2>1. /\ A # {} <=> \E t \in Threads : v \in Carried(t)
        /\ \A x, y \in A : x = y
    BY DEF PInv, Flow, Apart
  <2>2. /\ B # {} <=> v \in Range(data_queue)
        /\ \A x, y \in B : x = y
    BY DEF PInv, Flow, Apart, Range, Distinct
  <2>3. C # {} <=> \E c \in Processors : v \in Range(processed[c])
    <3>1. ASSUME NEW x \in C PROVE \E c \in Processors : v \in Range(processed[c])
      BY <3>1 DEF Range
    <3>2. ASSUME NEW c \in Processors, v \in Range(processed[c]) PROVE C # {}
      <4>1. PICK i \in DOMAIN processed[c] : processed[c][i] = v
        BY <3>2 DEF Range
      <4>2. <<c, i>> \in C
        BY <4>1
      <4> QED
        BY <4>2
    <3> QED
      BY <3>1, <3>2
  <2>4. \A x, y \in C : x = y
    <3> SUFFICES ASSUME NEW c \in Processors, NEW i \in DOMAIN processed[c],
                        processed[c][i] = v,
                        NEW d \in Processors, NEW k \in DOMAIN processed[d],
                        processed[d][k] = v
                 PROVE  <<c, i>> = <<d, k>>
      OBVIOUS
    <3>1. v \in Range(processed[c]) /\ v \in Range(processed[d])
      BY DEF Range
    <3>2. c = d
      BY <3>1 DEF PInv, Flow, Apart
    <3>3. i = k
      BY <3>2 DEF PInv, Flow, Apart, Distinct
    <3> QED
      BY <3>2, <3>3
  <2>5. Fresh(v) <=> A = {} /\ B = {} /\ C = {}
    BY <2>1, <2>2, <2>3 DEF PInv, Flow, NoneLost, Somewhere
  <2>6. /\ A # {} => B = {} /\ C = {}
        /\ B # {} => C = {}
    BY <2>1, <2>2, <2>3 DEF PInv, Flow, Apart
  <2> HIDE DEF A, B, C
  <2>7. /\ Cardinality(A) = IF A = {} THEN 0 ELSE 1
        /\ Cardinality(B) = IF B = {} THEN 0 ELSE 1
        /\ Cardinality(C) = IF C = {} THEN 0 ELSE 1
    BY <2>1, <2>2, <2>4, OneOrNone
  <2>8. Cardinality(A) + Cardinality(B) + Cardinality(C) = IF Fresh(v) THEN 0 ELSE 1
    BY <2>5, <2>6, <2>7
  <2> QED
    BY <2>8 DEF A, B, C
<1> QED
  BY <1>1, PipelineInvariance, PTL
==============================================================================
