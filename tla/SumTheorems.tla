----------------------------- MODULE SumTheorems -----------------------------
(***************************************************************************)
(* What SumFunctionOnSet of the community modules computes: the sum over a *)
(* finite set, in whatever order its recursion takes the elements.         *)
(***************************************************************************)
EXTENDS Functions, Integers, FiniteSetTheorems, WellFoundedInduction, TLAPS

(* The element that the recursion takes first, and its equation.           *)
First(s) == CHOOSE x \in s : TRUE

Equation(f, g, s) == g[s] = IF s = {} THEN 0 ELSE f[First(s)] + g[s \ {First(s)}]

PartialSums(f, S) ==
  CHOOSE g : g = [s \in SUBSET S |-> IF s = {} THEN 0 ELSE f[First(s)] + g[s \ {First(s)}]]

LEMMA SumIsPartialSum ==
  ASSUME NEW f, NEW S
  PROVE  SumFunctionOnSet(f, S) = PartialSums(f, S)[S]
BY DEF SumFunctionOnSet, FoldFunctionOnSet, MapThenFoldSet, PartialSums, First

-----------------------------------------------------------------------------

(* Every nonempty set of natural numbers has a least element: induction    *)
(* over the size of a set, without an operator parameter.                  *)
LEMMA LeastOfNaturals ==
  ASSUME NEW N, N \subseteq Nat, N # {}
  PROVE  \E x \in N : \A y \in N : x <= y
<1>1. PICK x \in N : \A y \in N : <<y, x>> \notin OpToRel(<, Nat)
  BY NatLessThanWellFounded, WFMin
<1>2. \A y \in N : ~(y < x)
  BY <1>1 DEF OpToRel
<1> QED BY <1>2

(* First takes a member, and leaves a smaller set.                         *)
LEMMA FirstTaken ==
  ASSUME NEW s, IsFiniteSet(s), s # {}
  PROVE  /\ First(s) \in s
         /\ IsFiniteSet(s \ {First(s)})
         /\ Cardinality(s) \in Nat
         /\ Cardinality(s \ {First(s)}) \in Nat
         /\ Cardinality(s \ {First(s)}) < Cardinality(s)
<1>1. First(s) \in s
  BY DEF First
<1>2. Cardinality(s) \in Nat
  BY FS_CardinalityType
<1>3. /\ IsFiniteSet(s \ {First(s)})
      /\ Cardinality(s \ {First(s)}) = Cardinality(s) - 1
  BY <1>1, FS_RemoveElement
<1>4. Cardinality(s \ {First(s)}) \in Nat
  BY <1>3, FS_CardinalityType
<1> QED
  BY <1>1, <1>2, <1>3, <1>4

(* The partial sums exist: a function can be given that satisfies the      *)
(* equation on all subsets of S up to any size.                            *)
LEMMA PartialSumsExist ==
  ASSUME NEW f, NEW S, IsFiniteSet(S)
  PROVE  \A t \in SUBSET S :
           PartialSums(f, S)[t] =
             IF t = {} THEN 0 ELSE f[First(t)] + PartialSums(f, S)[t \ {First(t)}]
<1> DEFINE Value(g, s) == IF s = {} THEN 0 ELSE f[First(s)] + g[s \ {First(s)}]
           OnSubsets(g) == g = [s \in SUBSET S |-> g[s]]
           UpTo(n, g) == \A s \in SUBSET S : Cardinality(s) <= n => g[s] = Value(g, s)
           Failing == {n \in Nat : ~ \E g : OnSubsets(g) /\ UpTo(n, g)}
<1>1. \A s \in SUBSET S : IsFiniteSet(s) /\ Cardinality(s) \in Nat
  BY FS_Subset, FS_CardinalityType
<1>2. Failing = {}
  <2> SUFFICES ASSUME Failing # {} PROVE FALSE
    OBVIOUS
  <2> HIDE DEF OnSubsets, UpTo
  <2>1. PICK n \in Failing : \A m \in Failing : n <= m
    <3> HIDE DEF Failing
    <3>1. Failing \subseteq Nat
      BY DEF Failing
    <3> QED
      BY <3>1, LeastOfNaturals
  <2>0. n \in Nat
    OBVIOUS
  <2>2. PICK g : /\ OnSubsets(g)
                 /\ \A s \in SUBSET S : Cardinality(s) < n => g[s] = Value(g, s)
    <3>1. CASE n = 0
      <4> DEFINE g == [s \in SUBSET S |-> 0]
      <4>1. OnSubsets(g)
        BY DEF OnSubsets
      <4> HIDE DEF g, Failing, Value
      <4>2. \A s \in SUBSET S : ~(Cardinality(s) < n)
        BY <1>1, <3>1
      <4> QED
        BY <4>1, <4>2
    <3>2. CASE n # 0
      <4>1. n - 1 \in Nat /\ n - 1 \notin Failing
        <5> HIDE DEF Failing
        <5> QED
          BY <2>1, <2>0, <3>2
      <4>2. PICK g : OnSubsets(g) /\ UpTo(n - 1, g)
        BY <4>1
      <4>3. \A s \in SUBSET S : Cardinality(s) < n => Cardinality(s) <= n - 1
        BY <1>1, <2>0
      <4> HIDE DEF Value, Failing
      <4> QED
        BY <4>2, <4>3 DEF UpTo
    <3> QED
      BY <3>1, <3>2
  <2> HIDE DEF Value
  <2> DEFINE h == [s \in SUBSET S |-> IF Cardinality(s) < n THEN g[s] ELSE Value(g, s)]
  <2>3. ASSUME NEW s \in SUBSET S, Cardinality(s) <= n
        PROVE  h[s] = Value(h, s)
    <3>1. h[s] = Value(g, s)
      BY <2>2, <2>3
    <3>2. CASE s = {}
      BY <3>1, <3>2 DEF Value
    <3>3. CASE s # {}
      <4>1. s \ {First(s)} \in SUBSET S /\ Cardinality(s \ {First(s)}) < n
        BY <1>1, <2>0, <2>3, <3>3, FirstTaken
      <4>2. h[s \ {First(s)}] = g[s \ {First(s)}]
        BY <4>1
      <4> HIDE DEF h
      <4> QED
        BY <3>1, <3>3, <4>2 DEF Value
    <3> QED
      BY <3>2, <3>3
  <2>4. OnSubsets(h)
    BY DEF OnSubsets
  <2> HIDE DEF h
  <2>5. UpTo(n, h)
    BY <2>3 DEF UpTo
  <2> QED
    BY <2>4, <2>5
<1>3. \E g : g = [s \in SUBSET S |-> Value(g, s)]
  <2>1. Cardinality(S) \in Nat
    BY FS_CardinalityType
  <2>2. PICK g : OnSubsets(g) /\ UpTo(Cardinality(S), g)
    <3> HIDE DEF OnSubsets, UpTo
    <3> QED
      BY <1>2, <2>1
  <2>3. \A s \in SUBSET S : g[s] = Value(g, s)
    BY <2>2, FS_Subset
  <2> HIDE DEF Value
  <2>4. g = [s \in SUBSET S |-> Value(g, s)]
    BY <2>2, <2>3
  <2> QED
    BY <2>4
<1>4. PICK g : g = PartialSums(f, S) /\ g = [s \in SUBSET S |-> Value(g, s)]
  BY <1>3, Zenon DEF PartialSums
<1>5. \A t \in SUBSET S : g[t] = Value(g, t)
  <2> HIDE DEF Value
  <2> QED
    BY <1>4
<1> QED
  BY <1>4, <1>5

-----------------------------------------------------------------------------

(* A nonempty set of finite sets has one of least size: induction over     *)
(* finite sets.                                                            *)
LEMMA SmallestSet ==
  ASSUME NEW B, B # {}, \A s \in B : IsFiniteSet(s)
  PROVE  \E s \in B : \A t \in B : Cardinality(s) <= Cardinality(t)
<1> DEFINE N == {Cardinality(s) : s \in B}
<1>1. N \subseteq Nat /\ N # {}
  BY FS_CardinalityType
<1>2. PICK n \in N : \A m \in N : n <= m
  <2> HIDE DEF N
  <2> QED
    BY <1>1, LeastOfNaturals
<1> QED
  BY <1>2

(* The partial sums do not depend on the set that they are parts of.       *)
LEMMA PartialSumsAgree ==
  ASSUME NEW f, NEW S, IsFiniteSet(S), NEW s \in SUBSET S
  PROVE  PartialSums(f, S)[s] = SumFunctionOnSet(f, s)
<1> DEFINE Differ == {t \in SUBSET s : PartialSums(f, S)[t] # PartialSums(f, s)[t]}
<1>1. IsFiniteSet(s) /\ \A t \in SUBSET s : IsFiniteSet(t)
  BY FS_Subset
<1>2. Differ = {}
  <2> SUFFICES ASSUME Differ # {} PROVE FALSE
    OBVIOUS
  <2>1. PICK t \in Differ : \A u \in Differ : Cardinality(t) <= Cardinality(u)
    <3>1. \A t \in Differ : IsFiniteSet(t)
      BY <1>1
    <3> HIDE DEF Differ
    <3> QED
      BY <3>1, SmallestSet
  <2>2. t \in SUBSET s /\ t \in SUBSET S /\ PartialSums(f, S)[t] # PartialSums(f, s)[t]
    OBVIOUS
  <2>3. PartialSums(f, S)[t] =
          IF t = {} THEN 0 ELSE f[First(t)] + PartialSums(f, S)[t \ {First(t)}]
    BY <2>2, PartialSumsExist
  <2>4. PartialSums(f, s)[t] =
          IF t = {} THEN 0 ELSE f[First(t)] + PartialSums(f, s)[t \ {First(t)}]
    BY <1>1, <2>2, PartialSumsExist
  <2>5. t # {}
    BY <2>2, <2>3, <2>4
  <2>6. /\ t \ {First(t)} \in SUBSET s
        /\ Cardinality(t \ {First(t)}) \in Nat /\ Cardinality(t) \in Nat
        /\ Cardinality(t \ {First(t)}) < Cardinality(t)
    BY <1>1, <2>2, <2>5, FirstTaken
  <2>7. t \ {First(t)} \notin Differ
    <3> HIDE DEF Differ
    <3> QED
      BY <2>1, <2>6
  <2> QED
    BY <2>2, <2>3, <2>4, <2>5, <2>6, <2>7
<1> QED
  BY <1>2, SumIsPartialSum

(* The recursion of the sum, with the element that it chooses.             *)
LEMMA SumRecursion ==
  ASSUME NEW f, NEW S, IsFiniteSet(S)
  PROVE  SumFunctionOnSet(f, S) =
           IF S = {} THEN 0 ELSE f[First(S)] + SumFunctionOnSet(f, S \ {First(S)})
<1>1. PartialSums(f, S)[S] =
        IF S = {} THEN 0 ELSE f[First(S)] + PartialSums(f, S)[S \ {First(S)}]
  BY PartialSumsExist
<1>2. PartialSums(f, S)[S] = SumFunctionOnSet(f, S)
  BY PartialSumsAgree
<1>3. PartialSums(f, S)[S \ {First(S)}] = SumFunctionOnSet(f, S \ {First(S)})
  BY PartialSumsAgree
<1> QED
  BY <1>1, <1>2, <1>3

THEOREM SumOfNothing == \A f : SumFunctionOnSet(f, {}) = 0
BY SumRecursion, FS_EmptySet

(* A sum of integers is an integer.                                        *)
THEOREM SumType ==
  ASSUME NEW f, NEW S, IsFiniteSet(S), \A x \in S : f[x] \in Int
  PROVE  SumFunctionOnSet(f, S) \in Int
<1> DEFINE Bad == {s \in SUBSET S : SumFunctionOnSet(f, s) \notin Int}
<1>1. \A s \in SUBSET S : IsFiniteSet(s) /\ Cardinality(s) \in Nat
  BY FS_Subset, FS_CardinalityType
<1>2. Bad = {}
  <2> SUFFICES ASSUME Bad # {} PROVE FALSE
    OBVIOUS
  <2>1. PICK s \in Bad : \A t \in Bad : Cardinality(s) <= Cardinality(t)
    <3>1. \A s \in Bad : IsFiniteSet(s)
      BY <1>1
    <3> HIDE DEF Bad
    <3> QED
      BY <3>1, SmallestSet
  <2>2. s # {}
    BY SumOfNothing
  <2>3. /\ First(s) \in s
        /\ s \ {First(s)} \in SUBSET S
        /\ Cardinality(s) \in Nat /\ Cardinality(s \ {First(s)}) \in Nat
        /\ Cardinality(s \ {First(s)}) < Cardinality(s)
    <3>1. s \in SUBSET S
      OBVIOUS
    <3> HIDE DEF Bad
    <3> QED
      BY <1>1, <2>2, <3>1, FirstTaken
  <2>4. s \ {First(s)} \notin Bad
    <3> HIDE DEF Bad
    <3> QED
      BY <2>1, <2>3
  <2>5. SumFunctionOnSet(f, s) = f[First(s)] + SumFunctionOnSet(f, s \ {First(s)})
    BY <1>1, <2>2, SumRecursion
  <2> QED
    BY <2>3, <2>4, <2>5
<1> QED
  BY <1>2

(* Only the values on the set count.                                       *)
THEOREM SumSame ==
  ASSUME NEW f, NEW g, NEW S, IsFiniteSet(S), \A x \in S : f[x] = g[x]
  PROVE  SumFunctionOnSet(f, S) = SumFunctionOnSet(g, S)
<1> DEFINE Differ == {s \in SUBSET S : SumFunctionOnSet(f, s) # SumFunctionOnSet(g, s)}
<1>1. \A s \in SUBSET S : IsFiniteSet(s)
  BY FS_Subset
<1>2. Differ = {}
  <2> SUFFICES ASSUME Differ # {} PROVE FALSE
    OBVIOUS
  <2>1. PICK s \in Differ : \A t \in Differ : Cardinality(s) <= Cardinality(t)
    <3>1. \A s \in Differ : IsFiniteSet(s)
      BY <1>1
    <3> HIDE DEF Differ
    <3> QED
      BY <3>1, SmallestSet
  <2>2. s \in SUBSET S /\ SumFunctionOnSet(f, s) # SumFunctionOnSet(g, s)
    OBVIOUS
  <2>3. s # {}
    BY <2>2, SumOfNothing
  <2>4. /\ First(s) \in s
        /\ s \ {First(s)} \in SUBSET S
        /\ Cardinality(s) \in Nat /\ Cardinality(s \ {First(s)}) \in Nat
        /\ Cardinality(s \ {First(s)}) < Cardinality(s)
    BY <1>1, <2>2, <2>3, FirstTaken
  <2>5. s \ {First(s)} \notin Differ
    <3> HIDE DEF Differ
    <3> QED
      BY <2>1, <2>4
  <2>6. SumFunctionOnSet(f, s) = f[First(s)] + SumFunctionOnSet(f, s \ {First(s)})
    BY <1>1, <2>2, <2>3, SumRecursion
  <2>7. SumFunctionOnSet(g, s) = g[First(s)] + SumFunctionOnSet(g, s \ {First(s)})
    BY <1>1, <2>2, <2>3, SumRecursion
  <2> QED
    BY <2>2, <2>4, <2>5, <2>6, <2>7
<1> QED
  BY <1>2

(* Any element may be taken first.                                         *)
THEOREM SumRemove ==
  ASSUME NEW f, NEW S, IsFiniteSet(S), \A x \in S : f[x] \in Int, NEW e \in S
  PROVE  SumFunctionOnSet(f, S) = f[e] + SumFunctionOnSet(f, S \ {e})
<1> DEFINE Sum(s) == SumFunctionOnSet(f, s)
           Bad == {s \in SUBSET S : \E x \in s : Sum(s) # f[x] + Sum(s \ {x})}
<1>1. \A s \in SUBSET S : IsFiniteSet(s) /\ Cardinality(s) \in Nat /\ Sum(s) \in Int
  BY FS_Subset, FS_CardinalityType, SumType
<1>2. Bad = {}
  <2> SUFFICES ASSUME Bad # {} PROVE FALSE
    OBVIOUS
  <2> HIDE DEF Sum
  <2>1. PICK s \in Bad : \A t \in Bad : Cardinality(s) <= Cardinality(t)
    <3>1. \A s \in Bad : IsFiniteSet(s)
      BY <1>1
    <3> HIDE DEF Bad
    <3> QED
      BY <3>1, SmallestSet
  <2>2. PICK x \in s : Sum(s) # f[x] + Sum(s \ {x})
    OBVIOUS
  <2>3. s \in SUBSET S
    OBVIOUS
  <2> DEFINE y == First(s)
  <2>4. y \in s
    BY <1>1, <2>3, FirstTaken
  <2>5. Sum(s) = f[y] + Sum(s \ {y})
    BY <1>1, <2>2, <2>3, SumRecursion DEF Sum
  <2> HIDE DEF y
  <2>6. x # y
    BY <2>2, <2>5
  <2>7. \A z \in s : s \ {z} \in SUBSET S /\ s \ {z} \notin Bad
    <3> SUFFICES ASSUME NEW z \in s PROVE s \ {z} \in SUBSET S /\ s \ {z} \notin Bad
      OBVIOUS
    <3>1. s \ {z} \in SUBSET S
      BY <2>3
    <3>2. Cardinality(s \ {z}) = Cardinality(s) - 1
      BY <1>1, <2>3, FS_RemoveElement
    <3> HIDE DEF Bad
    <3> QED
      BY <1>1, <2>1, <2>3, <3>1, <3>2
  <2>8. Sum(s \ {y}) = f[x] + Sum((s \ {y}) \ {x})
    BY <2>2, <2>4, <2>6, <2>7
  <2>9. Sum(s \ {x}) = f[y] + Sum((s \ {x}) \ {y})
    BY <2>2, <2>4, <2>6, <2>7
  <2>10. (s \ {y}) \ {x} = (s \ {x}) \ {y}
    OBVIOUS
  <2>11. /\ f[x] \in Int /\ f[y] \in Int /\ Sum((s \ {x}) \ {y}) \in Int
    BY <1>1, <2>2, <2>3, <2>4
  <2>12. Sum(s) = f[y] + (f[x] + Sum((s \ {x}) \ {y}))
    BY <2>5, <2>8, <2>10
  <2>13. f[x] + Sum(s \ {x}) = f[x] + (f[y] + Sum((s \ {x}) \ {y}))
    BY <2>9
  <2> HIDE DEF Bad
  <2> QED
    BY <2>2, <2>11, <2>12, <2>13
<1> QED
  BY <1>2
(* The sums over two disjoint sets add up to the sum over both.            *)
THEOREM SumUnion ==
  ASSUME NEW f, NEW A, NEW B, IsFiniteSet(A), IsFiniteSet(B), A \cap B = {},
         \A x \in A \cup B : f[x] \in Int
  PROVE  SumFunctionOnSet(f, A \cup B) = SumFunctionOnSet(f, A) + SumFunctionOnSet(f, B)
<1> DEFINE Sum(s) == SumFunctionOnSet(f, s)
           Bad == {s \in SUBSET A : Sum(s \cup B) # Sum(s) + Sum(B)}
<1>1. \A s \in SUBSET A : IsFiniteSet(s) /\ Cardinality(s) \in Nat /\ IsFiniteSet(s \cup B)
  BY FS_Subset, FS_CardinalityType, FS_Union
<1>2. Sum(B) \in Int /\ \A s \in SUBSET A : Sum(s) \in Int
  BY <1>1, SumType
<1>3. Bad = {}
  <2> SUFFICES ASSUME Bad # {} PROVE FALSE
    OBVIOUS
  <2> HIDE DEF Sum
  <2>1. PICK s \in Bad : \A t \in Bad : Cardinality(s) <= Cardinality(t)
    <3>1. \A s \in Bad : IsFiniteSet(s)
      BY <1>1
    <3> HIDE DEF Bad
    <3> QED
      BY <3>1, SmallestSet
  <2>2. s \in SUBSET A /\ Sum(s \cup B) # Sum(s) + Sum(B)
    OBVIOUS
  <2>3. s # {}
    <3> SUFFICES ASSUME s = {} PROVE FALSE
      OBVIOUS
    <3>1. s \cup B = B
      OBVIOUS
    <3>2. Sum({}) = 0
      BY SumOfNothing DEF Sum
    <3> QED
      BY <1>2, <2>2, <3>1, <3>2
  <2>4. PICK x : x \in s
    BY <2>3
  <2>5. /\ s \ {x} \in SUBSET A /\ s \ {x} \notin Bad
        /\ (s \cup B) \ {x} = (s \ {x}) \cup B
    <3>1. s \ {x} \in SUBSET A /\ (s \cup B) \ {x} = (s \ {x}) \cup B
      BY <2>2, <2>4
    <3>2. Cardinality(s \ {x}) = Cardinality(s) - 1
      BY <1>1, <2>2, <2>4, FS_RemoveElement
    <3> HIDE DEF Bad
    <3> QED
      BY <1>1, <2>1, <2>2, <3>1, <3>2
  <2>6. Sum((s \ {x}) \cup B) = Sum(s \ {x}) + Sum(B)
    BY <2>5
  <2>7. Sum(s \cup B) = f[x] + Sum((s \cup B) \ {x})
    BY <1>1, <2>2, <2>4, SumRemove DEF Sum
  <2>8. Sum(s) = f[x] + Sum(s \ {x})
    BY <1>1, <2>2, <2>4, SumRemove DEF Sum
  <2>9. f[x] \in Int /\ Sum(s \ {x}) \in Int
    BY <1>2, <2>2, <2>4, <2>5
  <2>10. Sum(s \cup B) = f[x] + (Sum(s \ {x}) + Sum(B))
    BY <2>5, <2>6, <2>7
  <2> HIDE DEF Bad
  <2>11. f[x] + (Sum(s \ {x}) + Sum(B)) = (f[x] + Sum(s \ {x})) + Sum(B)
    BY <1>2, <2>9
  <2> QED
    BY <2>2, <2>8, <2>10, <2>11
<1> QED
  BY <1>3
=============================================================================
