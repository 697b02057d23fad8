---------------------------- MODULE TierTheorems ----------------------------
(***************************************************************************)
(* Lemmas about finite sums (SumFunctionOnSet and SumFunction), by which   *)
(* tiers count their bytes and schedules their time, about the             *)
(* dictionaries of the memory tiers, and about the lookup of a chunk and   *)
(* its costs.                                                              *)
(***************************************************************************)
EXTENDS Scheduler, FiniteSetTheorems, WellFoundedInduction, SequenceTheorems, TLAPS

\* Induction over finite sets, as the existence of a smallest counterexample.
LEMMA SmallestSubset ==
  ASSUME NEW S, IsFiniteSet(S), NEW B \in SUBSET (SUBSET S), B # {}
  PROVE  \E T \in B : /\ T \in SUBSET S /\ IsFiniteSet(T)
                     /\ \A U \in SUBSET T : U # T => U \notin B
<1> DEFINE R == StrictSubsetOrdering(S)
<1>1. IsWellFoundedOn(R, FiniteSubsetsOf(S))
  BY FS_StrictSubsetOrderingWellFounded
<1>2. FiniteSubsetsOf(S) = SUBSET S
  BY FS_FiniteSubsetsOfFinite
<1>3. \E T \in B : \A U \in B : ~(<<U, T>> \in R)
  <2> HIDE DEF R
  <2> QED BY <1>1, <1>2, WFMin
<1>4. PICK T \in B : \A U \in B : <<U, T>> \notin R
  BY <1>3
<1>5. ASSUME NEW U \in SUBSET T, U # T PROVE U \notin B
  BY <1>4, <1>5 DEF StrictSubsetOrdering
<1>6. T \in SUBSET S /\ IsFiniteSet(T)
  BY FS_Subset
<1> QED BY <1>5, <1>6

LEMMA IntervalSize ==
  ASSUME NEW n \in Nat
  PROVE  IsFiniteSet(1 .. n) /\ Cardinality(1 .. n) = n
<1>1. IsFiniteSet(1 .. n) /\ Cardinality(1 .. n) = IF 1 > n THEN 0 ELSE n - 1 + 1
  BY FS_Interval
<1>2. (IF 1 > n THEN 0 ELSE n - 1 + 1) = n
  OBVIOUS
<1> QED BY <1>1, <1>2

LEMMA ProductMono ==
  ASSUME NEW a \in Nat, NEW b \in Nat, NEW s \in Nat, a <= b
  PROVE  a * s <= b * s
<1>1. b = a + (b - a) /\ b - a \in Nat
  OBVIOUS
<1>2. b * s = a * s + (b - a) * s
  BY <1>1
<1>3. (b - a) * s \in Nat /\ a * s \in Nat
  BY <1>1
<1> QED BY <1>2, <1>3

\* Rounding up: how many multiples of s lie below n.
LEMMA CeilingFacts ==
  ASSUME NEW n \in Nat, NEW s \in Nat \ {0}
  PROVE  /\ (n + s - 1) \div s \in Nat
         /\ \A i \in Nat : i * s < n <=> i < (n + s - 1) \div s
<1> DEFINE m == n + s - 1
           q == m \div s
           r == m % s
<1>1. m \in Nat
  OBVIOUS
<1>2. q \in Nat /\ r \in 0 .. s - 1 /\ m = q * s + r
  <2> HIDE DEF m
  <2> QED BY <1>1
<1>3. n + s - 1 = q * s + r
  BY <1>2
<1> HIDE DEF m, q, r
<1>4. ASSUME NEW i \in Nat, i < q PROVE i * s < n
  <2>1. (i + 1) * s <= q * s
    BY <1>2, <1>4, ProductMono
  <2>2. (i + 1) * s = i * s + s /\ i * s \in Nat /\ q * s \in Nat
    BY <1>2
  <2> QED BY <1>2, <1>3, <2>1, <2>2
<1>5. ASSUME NEW i \in Nat, ~(i < q) PROVE ~(i * s < n)
  <2>1. q * s <= i * s
    BY <1>2, <1>5, ProductMono
  <2>2. i * s \in Nat /\ q * s \in Nat
    BY <1>2
  <2> QED BY <1>2, <1>3, <2>1, <2>2
<1> QED BY <1>2, <1>4, <1>5 DEF q, m

LEMMA ModFacts ==
  ASSUME NEW n \in Nat, NEW m \in Nat \ {0}
  PROVE  n % m \in 0 .. m - 1
  OBVIOUS

-----------------------------------------------------------------------------
(* The recursion by which a sum is defined.                                *)

Pick(s) == CHOOSE x \in s : TRUE

Solves(f, S, g) ==
  g = [s \in SUBSET S |-> IF s = {} THEN 0 ELSE f[Pick(s)] + g[s \ {Pick(s)}]]

SolutionOf(f, S) == CHOOSE g : Solves(f, S, g)

LEMMA SumUnfold ==
  ASSUME NEW f, NEW S
  PROVE  SumFunctionOnSet(f, S) = SolutionOf(f, S)[S]
  BY DEF SumFunctionOnSet, FoldFunctionOnSet, MapThenFoldSet, SolutionOf, Solves, Pick

LEMMA PickIn ==
  ASSUME NEW s, s # {}
  PROVE  Pick(s) \in s
  BY DEF Pick

\* The recursion has at most one solution,
LEMMA RecursionUnique ==
  ASSUME NEW S, IsFiniteSet(S), NEW f, NEW g, NEW h,
         Solves(f, S, g), Solves(f, S, h)
  PROVE  g = h
<1> DEFINE B == { T \in SUBSET S : g[T] # h[T] }
<1>1. DOMAIN g = SUBSET S /\ DOMAIN h = SUBSET S
  BY DEF Solves
<1>2. \A s \in SUBSET S : s # {} => g[s] = f[Pick(s)] + g[s \ {Pick(s)}]
  BY DEF Solves
<1>3. \A s \in SUBSET S : s # {} => h[s] = f[Pick(s)] + h[s \ {Pick(s)}]
  BY DEF Solves
<1>4. g[{}] = 0 /\ h[{}] = 0
  BY DEF Solves
<1>5. B = {}
  <2> SUFFICES ASSUME B # {} PROVE FALSE
    OBVIOUS
  <2>1. PICK T \in B : /\ T \in SUBSET S /\ IsFiniteSet(T)
                       /\ \A U \in SUBSET T : U # T => U \notin B
    <3>1. B \in SUBSET (SUBSET S)
      OBVIOUS
    <3> HIDE DEF B
    <3> QED BY <3>1, SmallestSubset
  <2>2. T # {}
    BY <1>4, <2>1
  <2>3. T \ {Pick(T)} \in SUBSET T /\ T \ {Pick(T)} # T
    BY <2>2, PickIn
  <2>4. g[T \ {Pick(T)}] = h[T \ {Pick(T)}]
    BY <2>1, <2>3
  <2> QED BY <1>2, <1>3, <2>1, <2>2, <2>4
<1>6. \A T \in SUBSET S : g[T] = h[T]
  BY <1>5
<1>7. g = [s \in SUBSET S |-> g[s]] /\ h = [s \in SUBSET S |-> h[s]]
  BY DEF Solves
<1> QED BY <1>6, <1>7

\* a solution restricts to the subsets,
LEMMA RecursionRestricts ==
  ASSUME NEW S, NEW T \in SUBSET S, NEW f, NEW g, Solves(f, S, g),
         NEW r, r = [s \in SUBSET T |-> g[s]]
  PROVE  Solves(f, T, r)
<1>1. \A s \in SUBSET S : g[s] = IF s = {} THEN 0 ELSE f[Pick(s)] + g[s \ {Pick(s)}]
  BY DEF Solves
<1>2. ASSUME NEW s \in SUBSET T
      PROVE  r[s] = IF s = {} THEN 0 ELSE f[Pick(s)] + r[s \ {Pick(s)}]
  <2>1. s \ {Pick(s)} \in SUBSET T /\ s \in SUBSET S
    OBVIOUS
  <2>2. r[s] = g[s] /\ r[s \ {Pick(s)}] = g[s \ {Pick(s)}]
    BY <2>1
  <2> QED BY <1>1, <2>1, <2>2
<1>3. r = [s \in SUBSET T |-> IF s = {} THEN 0 ELSE f[Pick(s)] + r[s \ {Pick(s)}]]
  <2>1. r = [s \in SUBSET T |-> r[s]]
    OBVIOUS
  <2> QED BY <1>2, <2>1
<1> QED BY <1>3 DEF Solves

\* and there is one.
LEMMA RecursionExists ==
  ASSUME NEW S, IsFiniteSet(S), NEW f
  PROVE  \E g : Solves(f, S, g)
<1> DEFINE B == { T \in SUBSET S : ~ \E g : Solves(f, T, g) }
<1> SUFFICES ASSUME B # {} PROVE FALSE
  OBVIOUS
<1>1. PICK T \in B : /\ T \in SUBSET S /\ IsFiniteSet(T)
                     /\ \A U \in SUBSET T : U # T => U \notin B
  <2>1. B \in SUBSET (SUBSET S)
    OBVIOUS
  <2> HIDE DEF B
  <2> QED BY <2>1, SmallestSubset
<1>2. ASSUME NEW U \in SUBSET T, U # T
      PROVE  Solves(f, U, SolutionOf(f, U))
  BY <1>1, <1>2 DEF SolutionOf
<1> DEFINE Value(s) == IF s = {} THEN 0
                       ELSE f[Pick(s)] + SolutionOf(f, s \ {Pick(s)})[s \ {Pick(s)}]
           h == [s \in SUBSET T |-> Value(s)]
<1>3. ASSUME NEW U \in SUBSET T, U # T
      PROVE  SolutionOf(f, U)[U] = Value(U)
  <2>1. CASE U = {}
    BY <1>2, <1>3, <2>1 DEF Solves
  <2>2. CASE U # {}
    <3> DEFINE V == U \ {Pick(U)}
               r == [s \in SUBSET V |-> SolutionOf(f, U)[s]]
    <3>1. V \in SUBSET U /\ V \in SUBSET T /\ V # T /\ V \in SUBSET S
      BY <1>3
    <3>2. Solves(f, V, r)
      <4>1. Solves(f, U, SolutionOf(f, U))
        BY <1>2, <1>3
      <4>2. r = [s \in SUBSET V |-> SolutionOf(f, U)[s]]
        OBVIOUS
      <4> HIDE DEF r, V
      <4> QED BY <3>1, <4>1, <4>2, RecursionRestricts
    <3>3. Solves(f, V, SolutionOf(f, V))
      BY <1>2, <3>1
    <3>4. r = SolutionOf(f, V)
      <4>1. IsFiniteSet(V)
        BY <3>1, FS_Subset
      <4> HIDE DEF r, V
      <4> QED BY <3>2, <3>3, <4>1, RecursionUnique
    <3>5. r[V] = SolutionOf(f, U)[V]
      OBVIOUS
    <3>6. SolutionOf(f, U)[U] = f[Pick(U)] + SolutionOf(f, U)[V]
      BY <1>2, <1>3, <2>2 DEF Solves
    <3> HIDE DEF r
    <3> QED BY <2>2, <3>4, <3>5, <3>6
  <2> QED BY <2>1, <2>2
<1>4. ASSUME NEW s \in SUBSET T
      PROVE  h[s] = IF s = {} THEN 0 ELSE f[Pick(s)] + h[s \ {Pick(s)}]
  <2>1. CASE s = {}
    BY <2>1
  <2>2. CASE s # {}
    <3>1. s \ {Pick(s)} \in SUBSET T /\ s \ {Pick(s)} # T
      BY <2>2, PickIn
    <3>2. h[s \ {Pick(s)}] = SolutionOf(f, s \ {Pick(s)})[s \ {Pick(s)}]
      <4>1. h[s \ {Pick(s)}] = Value(s \ {Pick(s)})
        BY <3>1
      <4> HIDE DEF h, Value
      <4> QED BY <1>3, <3>1, <4>1
    <3> QED BY <2>2, <3>2
  <2> QED BY <2>1, <2>2
<1>5. Solves(f, T, h)
  <2>1. h = [s \in SUBSET T |-> h[s]]
    OBVIOUS
  <2> HIDE DEF h
  <2> QED BY <1>4, <2>1 DEF Solves
<1> QED BY <1>1, <1>5

LEMMA SumEmpty ==
  ASSUME NEW f
  PROVE  SumFunctionOnSet(f, {}) = 0
<1>1. Solves(f, {}, SolutionOf(f, {}))
  BY RecursionExists, FS_EmptySet DEF SolutionOf
<1>2. SolutionOf(f, {})[{}] = 0
  BY <1>1 DEF Solves
<1> QED BY <1>2, SumUnfold

LEMMA SumRecursion ==
  ASSUME NEW f, NEW S, IsFiniteSet(S), S # {}
  PROVE  SumFunctionOnSet(f, S) = f[Pick(S)] + SumFunctionOnSet(f, S \ {Pick(S)})
<1> DEFINE U == S \ {Pick(S)}
           g == SolutionOf(f, S)
           r == [s \in SUBSET U |-> g[s]]
<1>1. IsFiniteSet(U) /\ U \in SUBSET S
  BY FS_Subset
<1>2. Solves(f, S, g)
  BY RecursionExists DEF SolutionOf
<1>3. Solves(f, U, SolutionOf(f, U))
  BY <1>1, RecursionExists DEF SolutionOf
<1>4. Solves(f, U, r)
  <2>1. r = [s \in SUBSET U |-> g[s]]
    OBVIOUS
  <2> HIDE DEF r, g, U
  <2> QED BY <1>1, <1>2, <2>1, RecursionRestricts, Zenon
<1>5. r = SolutionOf(f, U)
  <2> HIDE DEF r, U
  <2> QED BY <1>1, <1>3, <1>4, RecursionUnique
<1>6. g[S] = f[Pick(S)] + g[U]
  BY <1>2 DEF Solves
<1>7. g[U] = r[U]
  OBVIOUS
<1>8. SumFunctionOnSet(f, S) = g[S] /\ SumFunctionOnSet(f, U) = SolutionOf(f, U)[U]
  BY SumUnfold
<1> HIDE DEF r, g, U
<1> QED BY <1>5, <1>6, <1>7, <1>8 DEF U

\* A sum of natural numbers is one.
LEMMA SumType ==
  ASSUME NEW S, IsFiniteSet(S), NEW f, \A x \in S : f[x] \in Nat
  PROVE  SumFunctionOnSet(f, S) \in Nat
<1> DEFINE B == { T \in SUBSET S : SumFunctionOnSet(f, T) \notin Nat }
<1> SUFFICES ASSUME B # {} PROVE FALSE
  OBVIOUS
<1>1. PICK T \in B : /\ T \in SUBSET S /\ IsFiniteSet(T)
                     /\ \A U \in SUBSET T : U # T => U \notin B
  <2>1. B \in SUBSET (SUBSET S)
    OBVIOUS
  <2> HIDE DEF B
  <2> QED BY <2>1, SmallestSubset
<1>2. T # {} /\ T \in SUBSET S /\ IsFiniteSet(T)
  <2>1. ASSUME T = {} PROVE FALSE
    <3>1. SumFunctionOnSet(f, T) = 0
      BY <2>1, SumEmpty
    <3> QED BY <1>1, <3>1
  <2> QED BY <1>1, <2>1
<1>3. Pick(T) \in T
  BY <1>2, PickIn
<1>4. SumFunctionOnSet(f, T \ {Pick(T)}) \in Nat
  BY <1>1, <1>2, <1>3
<1>5. SumFunctionOnSet(f, T) = f[Pick(T)] + SumFunctionOnSet(f, T \ {Pick(T)})
  BY <1>2, SumRecursion
<1> QED BY <1>1, <1>2, <1>3, <1>4, <1>5

\* Any term can be taken out of a sum.
LEMMA SumRemove ==
  ASSUME NEW S, IsFiniteSet(S), NEW f, \A x \in S : f[x] \in Nat, NEW a \in S
  PROVE  SumFunctionOnSet(f, S) = f[a] + SumFunctionOnSet(f, S \ {a})
<1> DEFINE Sum(T) == SumFunctionOnSet(f, T)
           B == { T \in SUBSET S : ~ \A x \in T : Sum(T) = f[x] + Sum(T \ {x}) }
<1>1. ASSUME B # {} PROVE FALSE
  <2>1. PICK T \in B : /\ T \in SUBSET S /\ IsFiniteSet(T)
                       /\ \A U \in SUBSET T : U # T => U \notin B
    <3>1. B \in SUBSET (SUBSET S)
      OBVIOUS
    <3> HIDE DEF B
    <3> QED BY <1>1, <3>1, SmallestSubset
  <2>2. PICK x \in T : Sum(T) # f[x] + Sum(T \ {x})
    BY <2>1
  <2>3. IsFiniteSet(T) /\ Pick(T) \in T
    BY <2>1, FS_Subset, PickIn
  <2>4. Sum(T) = f[Pick(T)] + Sum(T \ {Pick(T)})
    BY <2>2, <2>3, SumRecursion
  <2>5. Pick(T) # x
    BY <2>2, <2>4
  <2>6. Sum(T \ {Pick(T)}) = f[x] + Sum((T \ {Pick(T)}) \ {x})
    BY <2>1, <2>2, <2>3, <2>5
  <2>7. Sum(T \ {x}) = f[Pick(T)] + Sum((T \ {x}) \ {Pick(T)})
    BY <2>1, <2>2, <2>3, <2>5
  <2>8. (T \ {x}) \ {Pick(T)} = (T \ {Pick(T)}) \ {x}
    OBVIOUS
  <2>9. IsFiniteSet((T \ {Pick(T)}) \ {x}) /\ \A y \in (T \ {Pick(T)}) \ {x} : f[y] \in Nat
    BY <2>1, <2>3, FS_Subset
  <2>10. Sum((T \ {Pick(T)}) \ {x}) \in Nat /\ f[x] \in Nat /\ f[Pick(T)] \in Nat
    BY <2>1, <2>3, <2>9, SumType
  <2>11. Sum((T \ {x}) \ {Pick(T)}) = Sum((T \ {Pick(T)}) \ {x})
    BY <2>8, Zenon
  <2> HIDE DEF Sum
  <2> QED BY <2>2, <2>4, <2>6, <2>7, <2>10, <2>11
<1> QED BY <1>1

\* A sum depends on the terms it adds only.
LEMMA SumSame ==
  ASSUME NEW S, IsFiniteSet(S), NEW f, NEW g, \A x \in S : f[x] = g[x]
  PROVE  SumFunctionOnSet(f, S) = SumFunctionOnSet(g, S)
<1> DEFINE B == { T \in SUBSET S : SumFunctionOnSet(f, T) # SumFunctionOnSet(g, T) }
<1> SUFFICES ASSUME B # {} PROVE FALSE
  OBVIOUS
<1>1. PICK T \in B : /\ T \in SUBSET S /\ IsFiniteSet(T)
                     /\ \A U \in SUBSET T : U # T => U \notin B
  <2>1. B \in SUBSET (SUBSET S)
    OBVIOUS
  <2> HIDE DEF B
  <2> QED BY <2>1, SmallestSubset
<1>2. T # {} /\ T \in SUBSET S /\ IsFiniteSet(T)
  <2>1. ASSUME T = {} PROVE FALSE
    <3>1. SumFunctionOnSet(f, T) = 0 /\ SumFunctionOnSet(g, T) = 0
      BY <2>1, SumEmpty
    <3> QED BY <1>1, <3>1
  <2> QED BY <1>1, <2>1
<1>3. Pick(T) \in T
  BY <1>2, PickIn
<1>4. SumFunctionOnSet(f, T \ {Pick(T)}) = SumFunctionOnSet(g, T \ {Pick(T)})
  BY <1>1, <1>2, <1>3
<1>5. /\ SumFunctionOnSet(f, T) = f[Pick(T)] + SumFunctionOnSet(f, T \ {Pick(T)})
      /\ SumFunctionOnSet(g, T) = g[Pick(T)] + SumFunctionOnSet(g, T \ {Pick(T)})
  BY <1>2, SumRecursion
<1> QED BY <1>1, <1>2, <1>3, <1>4, <1>5

\* A sum of lesser terms is lesser.
LEMMA SumMonotone ==
  ASSUME NEW S, IsFiniteSet(S), NEW f, NEW g,
         \A x \in S : f[x] \in Nat /\ g[x] \in Nat /\ f[x] <= g[x]
  PROVE  SumFunctionOnSet(f, S) <= SumFunctionOnSet(g, S)
<1> DEFINE B == { T \in SUBSET S :
                    ~(SumFunctionOnSet(f, T) <= SumFunctionOnSet(g, T)) }
<1> SUFFICES ASSUME B # {} PROVE FALSE
  OBVIOUS
<1>1. PICK T \in B : /\ T \in SUBSET S /\ IsFiniteSet(T)
                     /\ \A U \in SUBSET T : U # T => U \notin B
  <2>1. B \in SUBSET (SUBSET S)
    OBVIOUS
  <2> HIDE DEF B
  <2> QED BY <2>1, SmallestSubset
<1>2. T # {} /\ T \in SUBSET S /\ IsFiniteSet(T)
  <2>1. ASSUME T = {} PROVE FALSE
    <3>1. SumFunctionOnSet(f, T) = 0 /\ SumFunctionOnSet(g, T) = 0
      BY <2>1, SumEmpty
    <3> QED BY <1>1, <3>1
  <2> QED BY <1>1, <2>1
<1>3. Pick(T) \in T
  BY <1>2, PickIn
<1>4. SumFunctionOnSet(f, T \ {Pick(T)}) <= SumFunctionOnSet(g, T \ {Pick(T)})
  BY <1>1, <1>2, <1>3
<1>5. /\ SumFunctionOnSet(f, T) = f[Pick(T)] + SumFunctionOnSet(f, T \ {Pick(T)})
      /\ SumFunctionOnSet(g, T) = g[Pick(T)] + SumFunctionOnSet(g, T \ {Pick(T)})
  BY <1>2, SumRecursion
<1>6. /\ SumFunctionOnSet(f, T \ {Pick(T)}) \in Nat
      /\ SumFunctionOnSet(g, T \ {Pick(T)}) \in Nat
  <2>1. IsFiniteSet(T \ {Pick(T)}) /\ T \ {Pick(T)} \in SUBSET S
    BY <1>2, FS_Subset
  <2> QED BY <2>1, SumType
<1> QED BY <1>1, <1>2, <1>3, <1>4, <1>5, <1>6

\* A term can be added to a sum,
LEMMA SumAdd ==
  ASSUME NEW S, IsFiniteSet(S), NEW f, NEW a, a \notin S, f[a] \in Nat,
         \A x \in S : f[x] \in Nat
  PROVE  SumFunctionOnSet(f, S \cup {a}) = f[a] + SumFunctionOnSet(f, S)
<1>1. IsFiniteSet(S \cup {a}) /\ \A x \in S \cup {a} : f[x] \in Nat
  BY FS_AddElement
<1>2. SumFunctionOnSet(f, S \cup {a}) = f[a] + SumFunctionOnSet(f, (S \cup {a}) \ {a})
  BY <1>1, SumRemove
<1>3. (S \cup {a}) \ {a} = S
  OBVIOUS
<1> QED BY <1>2, <1>3

\* and adding terms never makes it lesser.
LEMMA SumSubset ==
  ASSUME NEW S, IsFiniteSet(S), NEW f, \A x \in S : f[x] \in Nat, NEW T \in SUBSET S
  PROVE  SumFunctionOnSet(f, T) <= SumFunctionOnSet(f, S)
<1> DEFINE Sum(U) == SumFunctionOnSet(f, U)
           B == { U \in SUBSET S : T \subseteq U /\ ~(Sum(T) <= Sum(U)) }
<1>1. ASSUME B # {} PROVE FALSE
  <2>1. PICK U \in B : /\ U \in SUBSET S /\ IsFiniteSet(U)
                       /\ \A V \in SUBSET U : V # U => V \notin B
    <3>1. B \in SUBSET (SUBSET S)
      OBVIOUS
    <3> HIDE DEF B
    <3> QED BY <1>1, <3>1, SmallestSubset
  <2>2. T \subseteq U /\ ~(Sum(T) <= Sum(U))
    BY <2>1
  <2>3. Sum(T) \in Nat /\ \A V \in SUBSET U : Sum(V) \in Nat
    <3>1. \A V \in SUBSET S : IsFiniteSet(V)
      BY FS_Subset
    <3>2. \A V \in SUBSET S : Sum(V) \in Nat
      BY <3>1, SumType
    <3> QED BY <2>1, <2>2, <3>2
  <2>4. PICK a \in U : a \notin T
    <3>1. T # U
      BY <2>2, <2>3
    <3> QED BY <2>2, <3>1
  <2>5. Sum(T) <= Sum(U \ {a})
    <3>1. U \ {a} \in SUBSET U /\ U \ {a} # U /\ T \subseteq U \ {a}
      BY <2>2, <2>4
    <3> QED BY <2>1, <3>1
  <2>6. Sum(U) = f[a] + Sum(U \ {a})
    BY <2>1, <2>4, SumRemove
  <2>7. f[a] \in Nat /\ Sum(U \ {a}) \in Nat /\ Sum(T) \in Nat
    BY <2>1, <2>3, <2>4
  <2> HIDE DEF Sum
  <2> QED BY <2>2, <2>5, <2>6, <2>7
<1>2. S \notin B
  BY <1>1
<1>3. S \in SUBSET S /\ T \subseteq S
  OBVIOUS
<1> QED BY <1>2, <1>3

\* A finite set on which a relation is a strict total order has a least member.
LEMMA LeastMember ==
  ASSUME NEW S, IsFiniteSet(S), S # {}, NEW R,
         \A x, y, z \in S : <<x, y>> \in R /\ <<y, z>> \in R => <<x, z>> \in R,
         \A x, y \in S : x # y => <<x, y>> \in R \/ <<y, x>> \in R
  PROVE  \E x \in S : \A y \in S \ {x} : <<x, y>> \in R
<1> DEFINE Least(T) == \E x \in T : \A y \in T \ {x} : <<x, y>> \in R
           B == { T \in SUBSET S : T # {} /\ ~Least(T) }
<1>1. ASSUME B # {} PROVE FALSE
  <2>1. PICK T \in B : /\ T \in SUBSET S /\ IsFiniteSet(T)
                       /\ \A U \in SUBSET T : U # T => U \notin B
    <3>1. B \in SUBSET (SUBSET S)
      OBVIOUS
    <3> HIDE DEF B
    <3> QED BY <1>1, <3>1, SmallestSubset
  <2>2. PICK x \in T : TRUE
    BY <2>1
  <2>3. T \ {x} # {}
    BY <2>1, <2>2
  <2>4. PICK y \in T \ {x} : \A z \in (T \ {x}) \ {y} : <<y, z>> \in R
    <3>1. T \ {x} \in SUBSET T /\ T \ {x} # T /\ T \ {x} \in SUBSET S
      BY <2>1, <2>2
    <3>2. T \ {x} \notin B
      BY <2>1, <3>1
    <3>3. Least(T \ {x})
      BY <2>3, <3>1, <3>2
    <3> QED BY <3>3
  <2>5. CASE <<x, y>> \in R
    <3>1. \A z \in T \ {x} : <<x, z>> \in R
      BY <2>1, <2>4, <2>5
    <3> QED BY <2>1, <3>1
  <2>6. CASE <<y, x>> \in R
    <3>1. \A z \in T \ {y} : <<y, z>> \in R
      BY <2>1, <2>4, <2>6
    <3> QED BY <2>1, <2>4, <3>1
  <2> QED BY <2>1, <2>2, <2>4, <2>5, <2>6
<1> QED BY <1>1

\* A bounded set of natural numbers has a greatest member.
LEMMA GreatestMember ==
  ASSUME NEW S \in SUBSET Nat, S # {}, NEW n \in Nat, \A x \in S : x <= n
  PROVE  \E x \in S : \A y \in S : x >= y
<1> DEFINE R == { p \in S \X S : p[1] > p[2] }
<1>1. IsFiniteSet(S)
  BY FS_BoundedSetOfNaturals
<1>2. \A x, y \in S : <<x, y>> \in R <=> x > y
  OBVIOUS
<1> HIDE DEF R
<1>3. ASSUME NEW x \in S, NEW y \in S, NEW z \in S, <<x, y>> \in R, <<y, z>> \in R
      PROVE  <<x, z>> \in R
  BY <1>2, <1>3
<1>4. ASSUME NEW x \in S, NEW y \in S, x # y
      PROVE  <<x, y>> \in R \/ <<y, x>> \in R
  BY <1>2, <1>4
<1>5. PICK x \in S : \A y \in S \ {x} : <<x, y>> \in R
  <2> DEFINE T == S
  <2>1. IsFiniteSet(T) /\ T # {}
    BY <1>1
  <2>2. \A x, y, z \in T : <<x, y>> \in R /\ <<y, z>> \in R => <<x, z>> \in R
    BY <1>3
  <2>3. \A x, y \in T : x # y => <<x, y>> \in R \/ <<y, x>> \in R
    BY <1>4
  <2> HIDE DEF T
  <2>4. \E x \in T : \A y \in T \ {x} : <<x, y>> \in R
    BY <2>1, <2>2, <2>3, LeastMember
  <2> QED BY <2>4, Zenon DEF T
<1>6. ASSUME NEW y \in S PROVE x >= y
  <2>1. CASE y = x
    BY <2>1
  <2>2. CASE y # x
    <3>1. <<x, y>> \in R
      BY <1>5, <2>2, Zenon
    <3> QED BY <1>2, <3>1
  <2> QED BY <2>1, <2>2
<1> QED BY <1>6

\* A set of natural numbers has a least member.
LEMMA LeastNatural ==
  ASSUME NEW S \in SUBSET Nat, S # {}
  PROVE  \E x \in S : \A y \in S : x <= y
<1>1. PICK m \in S : TRUE
  OBVIOUS
<1> DEFINE T == { x \in S : x <= m }
           R == { p \in T \X T : p[1] < p[2] }
<1>2. IsFiniteSet(T) /\ T # {} /\ T \in SUBSET Nat
  <2>1. T \in SUBSET Nat /\ \A x \in T : x <= m
    OBVIOUS
  <2>2. m \in Nat /\ m \in T
    OBVIOUS
  <2> HIDE DEF T
  <2> QED BY <2>1, <2>2, FS_BoundedSetOfNaturals
<1>3. \A x, y \in T : <<x, y>> \in R <=> x < y
  OBVIOUS
<1>4. PICK x \in T : \A y \in T \ {x} : <<x, y>> \in R
  <2> HIDE DEF T, R
  <2>1. \A x, y, z \in T : <<x, y>> \in R /\ <<y, z>> \in R => <<x, z>> \in R
    BY <1>2, <1>3
  <2>2. \A x, y \in T : x # y => <<x, y>> \in R \/ <<y, x>> \in R
    BY <1>2, <1>3
  <2>3. IsFiniteSet(T) /\ T # {}
    BY <1>2
  <2> QED BY ONLY <2>1, <2>2, <2>3, LeastMember
<1>5. x \in S /\ x <= m /\ \A y \in T : x <= y
  <2>1. x \in S /\ x <= m
    OBVIOUS
  <2> HIDE DEF T, R
  <2>2. ASSUME NEW y \in T PROVE x <= y
    <3>1. x \in Nat /\ y \in Nat /\ (x < y \/ x = y)
      BY <1>2, <1>3, <1>4
    <3> QED BY <3>1
  <2> QED BY <2>1, <2>2
<1>6. ASSUME NEW y \in S PROVE x <= y
  <2>1. y \in T \/ m < y
    OBVIOUS
  <2>2. x \in Nat /\ m \in Nat /\ y \in Nat
    BY <1>5
  <2> HIDE DEF T, R
  <2> QED BY <1>5, <2>1, <2>2
<1> QED BY <1>5, <1>6

\* The number of members of S in T, when i is added to T.
LEMMA CountStep ==
  ASSUME NEW S, IsFiniteSet(S), NEW T, NEW i, i \notin T
  PROVE  /\ IsFiniteSet(S \cap T) /\ Cardinality(S \cap T) \in Nat
         /\ Cardinality(S \cap (T \cup {i}))
              = IF i \in S THEN Cardinality(S \cap T) + 1 ELSE Cardinality(S \cap T)
<1>1. IsFiniteSet(S \cap T)
  BY FS_Subset
<1>2. Cardinality(S \cap T) \in Nat
  BY <1>1, FS_CardinalityType
<1>3. CASE i \in S
  <2>1. PICK U : U = S \cap T
    OBVIOUS
  <2>2. S \cap (T \cup {i}) = U \cup {i} /\ i \notin U
    BY <1>3, <2>1
  <2>3. Cardinality(U \cup {i}) = Cardinality(U) + 1
    BY <1>1, <2>1, <2>2, FS_AddElement
  <2> QED BY <1>1, <1>2, <1>3, <2>1, <2>2, <2>3
<1>4. CASE i \notin S
  <2>1. S \cap (T \cup {i}) = S \cap T
    BY <1>4
  <2> QED BY <1>1, <1>2, <1>4, <2>1
<1> QED BY <1>3, <1>4

\* A sum of sums is the sum of the two sums.
LEMMA SumPlus ==
  ASSUME NEW S, IsFiniteSet(S), NEW f, NEW g, NEW h,
         \A x \in S : f[x] \in Nat /\ g[x] \in Nat /\ h[x] = f[x] + g[x]
  PROVE  SumFunctionOnSet(h, S) = SumFunctionOnSet(f, S) + SumFunctionOnSet(g, S)
<1> DEFINE Total(e, T) == SumFunctionOnSet(e, T)
           B == { T \in SUBSET S : Total(h, T) # Total(f, T) + Total(g, T) }
<1> SUFFICES ASSUME B # {} PROVE FALSE
  OBVIOUS
<1>1. PICK T \in B : /\ T \in SUBSET S /\ IsFiniteSet(T)
                     /\ \A U \in SUBSET T : U # T => U \notin B
  <2>1. B \in SUBSET (SUBSET S)
    OBVIOUS
  <2> HIDE DEF B
  <2> QED BY <2>1, SmallestSubset
<1>2. T # {}
  <2>1. ASSUME T = {} PROVE FALSE
    <3>1. Total(f, T) = 0 /\ Total(g, T) = 0 /\ Total(h, T) = 0
      BY <2>1, SumEmpty
    <3> QED BY <1>1, <3>1
  <2> QED BY <2>1
<1>3. Pick(T) \in T /\ Pick(T) \in S
  BY <1>1, <1>2, PickIn
<1>4. Total(h, T \ {Pick(T)}) = Total(f, T \ {Pick(T)}) + Total(g, T \ {Pick(T)})
  BY <1>1, <1>3
<1>5. /\ Total(f, T) = f[Pick(T)] + Total(f, T \ {Pick(T)})
      /\ Total(g, T) = g[Pick(T)] + Total(g, T \ {Pick(T)})
      /\ Total(h, T) = h[Pick(T)] + Total(h, T \ {Pick(T)})
  BY <1>1, <1>2, SumRecursion
<1>6. /\ Total(f, T \ {Pick(T)}) \in Nat
      /\ Total(g, T \ {Pick(T)}) \in Nat
  <2>1. IsFiniteSet(T \ {Pick(T)}) /\ T \ {Pick(T)} \in SUBSET S
    BY <1>1, FS_Subset
  <2> QED BY <2>1, SumType
<1> HIDE DEF Total
<1> QED BY <1>1, <1>3, <1>4, <1>5, <1>6

\* The size of a family of blocks is at most the sum of bounds on their sizes.
LEMMA BlocksSize ==
  ASSUME NEW S, IsFiniteSet(S), NEW f, NEW B,
         \A x \in S : /\ IsFiniteSet(B[x]) /\ f[x] \in Nat
                      /\ Cardinality(B[x]) <= f[x]
  PROVE  /\ IsFiniteSet(UNION { {x} \X B[x] : x \in S })
         /\ Cardinality(UNION { {x} \X B[x] : x \in S }) <= SumFunctionOnSet(f, S)
<1> DEFINE All(T) == UNION { {x} \X B[x] : x \in T }
           Total(T) == SumFunctionOnSet(f, T)
           Fine(T) == IsFiniteSet(All(T)) /\ Cardinality(All(T)) <= Total(T)
           Bad == { T \in SUBSET S : ~Fine(T) }
<1> SUFFICES ASSUME Bad # {} PROVE FALSE
  <2>1. S \in SUBSET S
    OBVIOUS
  <2> QED BY <2>1
<1>1. PICK T \in Bad : /\ T \in SUBSET S /\ IsFiniteSet(T)
                       /\ \A U \in SUBSET T : U # T => U \notin Bad
  <2>1. Bad \in SUBSET (SUBSET S)
    OBVIOUS
  <2> HIDE DEF Bad
  <2> QED BY <2>1, SmallestSubset
<1>2. T # {}
  <2>1. ASSUME T = {} PROVE FALSE
    <3>1. All(T) = {} /\ Total(T) = 0
      BY <2>1, SumEmpty
    <3>2. IsFiniteSet(All(T)) /\ Cardinality(All(T)) = 0
      BY <3>1, FS_EmptySet
    <3>3. ~Fine(T)
      BY <1>1
    <3> HIDE DEF All, Total, Bad
    <3> QED BY <3>1, <3>2, <3>3
  <2> QED BY <2>1
<1> DEFINE a == Pick(T)
           U == T \ {a}
<1>3. a \in T /\ a \in S /\ U \in SUBSET T /\ U # T
  BY <1>1, <1>2, PickIn
<1>4. Fine(U)
  BY <1>1, <1>3
<1>5. Total(T) = f[a] + Total(U)
  BY <1>1, <1>2, SumRecursion
<1>6. Total(U) \in Nat
  <2>1. IsFiniteSet(U) /\ U \in SUBSET S
    BY <1>1, FS_Subset
  <2> QED BY <2>1, SumType
<1>7. IsFiniteSet({a} \X B[a]) /\ Cardinality({a} \X B[a]) = Cardinality(B[a])
  <2>1. IsFiniteSet({a}) /\ Cardinality({a}) = 1
    BY FS_Singleton
  <2>2. Cardinality(B[a]) \in Nat /\ IsFiniteSet(B[a])
    BY <1>3, FS_CardinalityType
  <2>3. /\ IsFiniteSet({a} \X B[a])
        /\ Cardinality({a} \X B[a]) = Cardinality({a}) * Cardinality(B[a])
    BY <2>1, <2>2, FS_Product
  <2> QED BY <2>1, <2>2, <2>3
<1>8. All(T) = All(U) \cup ({a} \X B[a])
  <2> HIDE DEF a
  <2> QED BY <1>3
<1>9. /\ IsFiniteSet(All(T))
      /\ Cardinality(All(T)) <= Cardinality(All(U)) + Cardinality({a} \X B[a])
  <2> DEFINE L == All(U)
             M == {a} \X B[a]
  <2>1. IsFiniteSet(L) /\ IsFiniteSet(M)
    BY <1>4, <1>7
  <2>2. /\ IsFiniteSet(L \cup M) /\ IsFiniteSet(L \cap M)
        /\ Cardinality(L \cup M) = Cardinality(L) + Cardinality(M) - Cardinality(L \cap M)
    <3> HIDE DEF L, M
    <3> QED BY <2>1, FS_Union, FS_Intersection
  <2>3. Cardinality(L \cap M) \in Nat /\ Cardinality(L) \in Nat /\ Cardinality(M) \in Nat
    <3> HIDE DEF L, M
    <3> QED BY <2>1, <2>2, FS_CardinalityType
  <2>4. All(T) = L \cup M
    BY <1>8
  <2> HIDE DEF L, M, All
  <2>5. Cardinality(L \cup M) <= Cardinality(L) + Cardinality(M)
    BY <2>2, <2>3
  <2> QED BY <2>2, <2>4, <2>5 DEF L, M
<1>10. Fine(T)
  <2>1. f[a] \in Nat /\ Cardinality(B[a]) <= f[a] /\ Cardinality(B[a]) \in Nat
    BY <1>3, FS_CardinalityType
  <2>2. Cardinality(All(U)) \in Nat /\ Cardinality(All(T)) \in Nat
    BY <1>4, <1>9, FS_CardinalityType
  <2>3. Cardinality(All(U)) <= Total(U)
    BY <1>4
  <2> HIDE DEF All, Total, a, U
  <2>4. Cardinality(All(T)) <= Total(T)
    BY <1>5, <1>6, <1>7, <1>9, <2>1, <2>2, <2>3
  <2> QED BY <1>9, <2>4
<1> QED BY <1>1, <1>10

-----------------------------------------------------------------------------
(* Chunks, dictionaries and the lookup.                                    *)

\* Token counts times costs are natural numbers (CostModel's products).
LEMMA NatProduct ==
  ASSUME NEW a \in Nat, NEW b \in Nat
  PROVE  a * b \in Nat
  OBVIOUS

\* The fields of a chunk, and the extent under which it is stored.
LEMMA ChunkFields ==
  ASSUME NEW c \in Chunk
  PROVE  /\ c.cid \in Nat /\ c.idx \in Nat /\ c.start \in Nat /\ c.end \in Nat
         /\ c.start < c.end
         /\ cache_key(c) \in CacheKey
         /\ extent(c) \in Extent
         /\ extent(c).start = c.start /\ extent(c).end = c.end
  BY DEF Chunk, CacheKey, cache_key, extent, Extent

\* What a store puts into a dictionary (MemoryTier.store).
LEMMA PutFacts ==
  ASSUME NEW d, IsDict(d, Extent), NEW c \in Chunk
  PROVE  /\ IsDict(put(d, c), Extent)
         /\ DOMAIN put(d, c) = DOMAIN d \cup {cache_key(c)}
         /\ put(d, c)[cache_key(c)] = extent(c)
         /\ \A k \in DOMAIN d : k # cache_key(c) => put(d, c)[k] = d[k]
         /\ coverage(put(d, c), cache_key(c)) = c.end
         /\ \A k : k # cache_key(c) => coverage(put(d, c), k) = coverage(d, k)
  BY ChunkFields DEF IsDict, put, coverage

\* What a removal leaves (MemoryTier.remove and the del in upsert).
LEMMA DropFacts ==
  ASSUME NEW d, NEW S, IsDict(d, S), NEW key
  PROVE  /\ IsDict(drop(d, key), S)
         /\ DOMAIN drop(d, key) = DOMAIN d \ {key}
         /\ \A k \in DOMAIN d \ {key} : drop(d, key)[k] = d[k]
         /\ coverage(drop(d, key), key) = 0
         /\ \A k : k # key => coverage(drop(d, key), k) = coverage(d, k)
  BY DEF IsDict, drop, coverage

\* A removal never adds coverage.
LEMMA DropShrinks ==
  ASSUME NEW d, IsDict(d, Extent), NEW key, NEW k
  PROVE  coverage(drop(d, key), k) <= coverage(d, k)
  BY DEF IsDict, drop, coverage, Extent

\* A removal takes one key out of a dictionary, a store of a new key adds one.
LEMMA DropCount ==
  ASSUME NEW d, IsFiniteSet(DOMAIN d), NEW key \in DOMAIN d
  PROVE  Cardinality(DOMAIN drop(d, key)) = Cardinality(DOMAIN d) - 1
<1>1. DOMAIN drop(d, key) = DOMAIN d \ {key}
  BY DEF drop
<1>2. PICK D : D = DOMAIN d
  OBVIOUS
<1>3. IsFiniteSet(D) /\ key \in D
  BY <1>2
<1>4. Cardinality(D \ {key}) = Cardinality(D) - 1
  BY <1>3, FS_RemoveElement
<1> QED BY <1>1, <1>2, <1>4

LEMMA PutCount ==
  ASSUME NEW d, IsFiniteSet(DOMAIN d), NEW c, cache_key(c) \notin DOMAIN d
  PROVE  Cardinality(DOMAIN put(d, c)) = Cardinality(DOMAIN d) + 1
<1>1. DOMAIN put(d, c) = DOMAIN d \cup {cache_key(c)}
  BY DEF put
<1>2. PICK D, k : D = DOMAIN d /\ k = cache_key(c)
  OBVIOUS
<1>3. IsFiniteSet(D) /\ k \notin D
  BY <1>2
<1>4. Cardinality(D \cup {k}) = Cardinality(D) + 1
  BY <1>3, FS_AddElement
<1> QED BY <1>1, <1>2, <1>4

\* Coverage is a token position, 0 exactly for an absent key.
LEMMA CoverageFacts ==
  ASSUME NEW d, IsDict(d, Extent), NEW k
  PROVE  /\ coverage(d, k) \in Nat
         /\ k \in DOMAIN d <=> coverage(d, k) > 0
  BY DEF IsDict, coverage, Extent

\* upsert never changes another key, and when it does not raise it never
\* covers less than before and covers the chunk it was given.
LEMMA UpsertFacts ==
  ASSUME NEW t, NEW d, IsDict(d, Extent), NEW c \in Chunk
  PROVE  /\ IsDict(upsert(t, d, c), Extent)
         /\ \A k : k # cache_key(c) => coverage(upsert(t, d, c), k) = coverage(d, k)
         /\ ~upsert_raises(t, d, c) =>
              coverage(upsert(t, d, c), cache_key(c))
                = MaxOf(coverage(d, cache_key(c)), c.end)
<1> DEFINE key == cache_key(c)
           freed == drop(d, key)
<1>1. IsDict(freed, Extent) /\ coverage(freed, key) = 0
      /\ \A k : k # key => coverage(freed, k) = coverage(d, k)
  BY DropFacts
<1>2. /\ IsDict(put(freed, c), Extent)
      /\ coverage(put(freed, c), key) = c.end
      /\ \A k : k # key => coverage(put(freed, c), k) = coverage(freed, k)
  BY <1>1, PutFacts
<1>3. coverage(d, key) \in Nat /\ c.end \in Nat
  BY CoverageFacts, ChunkFields
<1>4. CASE ~Upgradable(d, c)
  <2>1. upsert(t, d, c) = d
    BY <1>4 DEF upsert
  <2>2. coverage(d, key) >= c.end
    BY <1>3, <1>4 DEF Upgradable
  <2> QED BY <2>1, <2>2, <1>3 DEF MaxOf
<1>5. CASE Upgradable(d, c) /\ can_store(t, freed, c)
  <2>1. upsert(t, d, c) = put(freed, c)
    BY <1>5 DEF upsert
  <2>2. coverage(d, key) < c.end
    BY <1>5 DEF Upgradable
  <2> QED BY <2>1, <2>2, <1>1, <1>2, <1>3 DEF MaxOf
<1>6. CASE Upgradable(d, c) /\ ~can_store(t, freed, c)
  <2>1. upsert(t, d, c) = freed /\ upsert_raises(t, d, c)
    BY <1>6 DEF upsert, upsert_raises
  <2> QED BY <2>1, <1>1
<1> QED BY <1>4, <1>5, <1>6

\* The lookup returns a tier that holds the chunk with sufficient coverage,
\* or none (find_cached_chunk and _find_cached_with_coverage).
LEMMA FindCachedFacts ==
  ASSUME TierAssumption, CostAssumption,
         NEW c \in Chunk, find_cached(c) # NoTier
  PROVE  /\ find_cached(c) \in Tiers
         /\ Covers(find_cached(c), c)
<1>1. Hits(c) # {}
  BY DEF find_cached
<1>2. find_cached(c) \in Hits(c)
  BY <1>1 DEF find_cached
<1> QED BY <1>2 DEF Hits

\* A chunk found in a cold tier is not in the GPU, which is looked up first.
LEMMA FindCachedFirst ==
  ASSUME CostAssumption, NEW c, find_cached(c) # NoTier, find_cached(c) # GPU
  PROVE  ~Present(GPU, cache_key(c))
<1> DEFINE t == find_cached(c)
<1>1. t \in Hits(c)
  BY DEF find_cached
<1>2. PICK i \in DOMAIN TierOrder :
        /\ TierOrder[i] = t
        /\ \A j \in 1 .. i - 1 : ~Present(TierOrder[j], cache_key(c))
  BY <1>1 DEF Hits, FirstHolder
<1>3. i # 1 /\ TierOrder[1] = GPU
  BY <1>2 DEF CostAssumption
<1>4. 1 \in 1 .. i - 1
  BY <1>2, <1>3, LenProperties DEF CostAssumption
<1> QED BY <1>2, <1>3, <1>4

\* The cost estimates of a chunk are natural numbers.
LEMMA EstimatesAreNat ==
  ASSUME CostAssumption, ChunkingAssumption, NEW c \in Chunk
  PROVE  /\ estimate_compute_time(c) \in Nat
         /\ \A t \in Tiers : estimate_load_time(c, t) \in Nat
<1>1. token_count(c) \in Nat /\ c.start + c.end \in Nat
  BY ChunkFields DEF token_count
<1>2. /\ ComputePerToken \in Nat /\ AttentionPerPosition \in Nat
      /\ ComputeQueueDelay \in Nat
  BY DEF CostAssumption
<1>3. estimate_compute_time(c) \in Nat
  <2>1. (2 * token_count(c)) * ComputePerToken \in Nat
    BY <1>1, <1>2, NatProduct
  <2>2. (token_count(c) * (c.start + c.end)) * AttentionPerPosition \in Nat
    BY <1>1, <1>2, NatProduct
  <2> QED BY <1>2, <2>1, <2>2 DEF estimate_compute_time
<1>4. ASSUME NEW t \in Tiers PROVE estimate_load_time(c, t) \in Nat
  <2>1. LoadQueueDelay[t] \in Nat /\ LoadPerByte[t] \in Nat
    BY <1>4 DEF CostAssumption
  <2>2. size_bytes(c) \in Nat
    BY <1>1, NatProduct DEF size_bytes, token_count, ChunkingAssumption
  <2>3. size_bytes(c) * LoadPerByte[t] \in Nat
    BY <2>1, <2>2, NatProduct
  <2> QED BY <2>1, <2>3 DEF estimate_load_time
<1> QED BY <1>3, <1>4

-----------------------------------------------------------------------------
(* The bytes of a tier.                                                    *)

Sizes(d) == [k \in DOMAIN d |-> size_bytes(d[k])]

LEMMA SizesAreNat ==
  ASSUME ChunkingAssumption, NEW d, IsDict(d, Extent)
  PROVE  \A k \in DOMAIN d : Sizes(d)[k] = size_bytes(d[k]) /\ size_bytes(d[k]) \in Nat
<1> SUFFICES ASSUME NEW k \in DOMAIN d PROVE size_bytes(d[k]) \in Nat
  BY DEF Sizes
<1>1. d[k] \in Extent
  BY DEF IsDict
<1>2. d[k].end - d[k].start \in Nat
  BY <1>1 DEF Extent
<1> QED BY <1>2, NatProduct DEF size_bytes, ChunkingAssumption

\* used_bytes is a natural number, 0 for an empty tier.
LEMMA BytesAreNat ==
  ASSUME ChunkingAssumption, NEW d, IsDict(d, Extent), IsFiniteSet(DOMAIN d)
  PROVE  used_bytes(d) \in Nat /\ (DOMAIN d = {} => used_bytes(d) = 0)
<1>1. used_bytes(d) = SumFunctionOnSet(Sizes(d), DOMAIN d)
  BY DEF used_bytes, SumFunction, Sizes
<1>2. \A k \in DOMAIN d : Sizes(d)[k] \in Nat
  BY SizesAreNat
<1>3. SumFunctionOnSet(Sizes(d), DOMAIN d) \in Nat
  BY <1>2, SumType
<1>4. ASSUME DOMAIN d = {} PROVE SumFunctionOnSet(Sizes(d), DOMAIN d) = 0
  BY <1>4, SumEmpty
<1> QED BY <1>1, <1>3, <1>4

\* A removal frees exactly the bytes of the entry (MemoryTier.remove).
LEMMA DropBytes ==
  ASSUME ChunkingAssumption, NEW d, IsDict(d, Extent), IsFiniteSet(DOMAIN d), NEW key
  PROVE  /\ IsFiniteSet(DOMAIN drop(d, key))
         /\ used_bytes(d) = used_bytes(drop(d, key))
                              + IF key \in DOMAIN d THEN size_bytes(d[key]) ELSE 0
<1> DEFINE e == drop(d, key)
<1>1. /\ IsDict(e, Extent) /\ DOMAIN e = DOMAIN d \ {key}
      /\ \A k \in DOMAIN e : e[k] = d[k]
  BY DropFacts
<1>2. IsFiniteSet(DOMAIN e)
  BY <1>1, FS_Subset
<1>3. /\ used_bytes(d) = SumFunctionOnSet(Sizes(d), DOMAIN d)
      /\ used_bytes(e) = SumFunctionOnSet(Sizes(e), DOMAIN e)
  BY DEF used_bytes, SumFunction, Sizes
<1>4. used_bytes(d) \in Nat
  BY BytesAreNat
<1>5. \A k \in DOMAIN e : Sizes(e)[k] = Sizes(d)[k]
  BY <1>1 DEF Sizes
<1>6. SumFunctionOnSet(Sizes(e), DOMAIN e) = SumFunctionOnSet(Sizes(d), DOMAIN e)
  BY <1>2, <1>5, SumSame
<1>7. CASE key \in DOMAIN d
  <2>1. \A k \in DOMAIN d : Sizes(d)[k] \in Nat
    BY SizesAreNat
  <2>2. SumFunctionOnSet(Sizes(d), DOMAIN d)
          = Sizes(d)[key] + SumFunctionOnSet(Sizes(d), DOMAIN d \ {key})
    BY <1>7, <2>1, SumRemove
  <2>3. Sizes(d)[key] = size_bytes(d[key]) /\ size_bytes(d[key]) \in Nat
    BY <1>7, SizesAreNat
  <2>4. used_bytes(e) \in Nat
    BY <1>1, <1>2, BytesAreNat
  <2>5. used_bytes(d) = size_bytes(d[key]) + used_bytes(e)
    BY <1>1, <1>3, <1>6, <2>2, <2>3
  <2> QED BY <1>2, <1>7, <2>3, <2>4, <2>5
<1>8. CASE key \notin DOMAIN d
  <2>1. DOMAIN e = DOMAIN d
    BY <1>1, <1>8
  <2>2. used_bytes(e) = used_bytes(d)
    BY <1>3, <1>6, <2>1
  <2> QED BY <1>2, <1>4, <1>8, <2>2
<1> QED BY <1>7, <1>8

\* A store adds the bytes of the chunk to what the other entries use.
LEMMA PutBytes ==
  ASSUME ChunkingAssumption, NEW d, IsDict(d, Extent), IsFiniteSet(DOMAIN d),
         NEW c \in Chunk
  PROVE  /\ IsFiniteSet(DOMAIN put(d, c))
         /\ size_bytes(c) \in Nat
         /\ used_bytes(put(d, c)) = used_bytes(drop(d, cache_key(c))) + size_bytes(c)
<1> DEFINE key == cache_key(c)
           e == put(d, c)
<1>1. /\ IsDict(e, Extent) /\ DOMAIN e = DOMAIN d \cup {key} /\ e[key] = extent(c)
      /\ \A k \in DOMAIN d : k # key => e[k] = d[k]
  BY PutFacts
<1>2. IsFiniteSet(DOMAIN e)
  BY <1>1, FS_AddElement
<1>3. used_bytes(e) = used_bytes(drop(e, key)) + size_bytes(e[key])
  BY <1>1, <1>2, DropBytes
<1>4. drop(e, key) = drop(d, key)
  <2>1. DOMAIN e \ {key} = DOMAIN d \ {key}
    BY <1>1
  <2>2. \A k \in DOMAIN d \ {key} : e[k] = d[k]
    BY <1>1
  <2> HIDE DEF e, key
  <2> QED BY <2>1, <2>2 DEF drop
<1>5. size_bytes(e[key]) = size_bytes(c)
  BY <1>1, ChunkFields DEF size_bytes
<1>6. size_bytes(c) \in Nat
  BY <1>1, <1>5, SizesAreNat
<1> QED BY <1>2, <1>3, <1>4, <1>5, <1>6

\* A tier within its capacity stays there when it stores what fits
\* (MemoryTier.store after can_store), and when it drops an entry.
LEMMA StoreFits ==
  ASSUME ChunkingAssumption, NEW t \in Tiers \ Unbounded, Capacity[t] \in Nat,
         NEW d, IsDict(d, Extent), IsFiniteSet(DOMAIN d), NEW c \in Chunk,
         can_store(t, d, c)
  PROVE  used_bytes(put(d, c)) <= Capacity[t]
<1>1. /\ IsFiniteSet(DOMAIN drop(d, cache_key(c))) /\ IsDict(drop(d, cache_key(c)), Extent)
      /\ used_bytes(d) = used_bytes(drop(d, cache_key(c)))
           + IF cache_key(c) \in DOMAIN d THEN size_bytes(d[cache_key(c)]) ELSE 0
  BY DropBytes, DropFacts
<1>2. used_bytes(d) \in Nat /\ used_bytes(drop(d, cache_key(c))) \in Nat
  BY <1>1, BytesAreNat
<1>3. \A k \in DOMAIN d : size_bytes(d[k]) \in Nat
  BY SizesAreNat
<1>4. used_bytes(drop(d, cache_key(c))) <= used_bytes(d)
  BY <1>1, <1>2, <1>3
<1>5. size_bytes(c) <= Capacity[t] - used_bytes(d)
  BY DEF can_store
<1> QED BY <1>2, <1>4, <1>5, PutBytes

LEMMA DropFits ==
  ASSUME ChunkingAssumption, NEW d, IsDict(d, Extent), IsFiniteSet(DOMAIN d), NEW key
  PROVE  used_bytes(drop(d, key)) <= used_bytes(d)
<1>1. /\ IsFiniteSet(DOMAIN drop(d, key)) /\ IsDict(drop(d, key), Extent)
      /\ used_bytes(d) = used_bytes(drop(d, key))
                           + IF key \in DOMAIN d THEN size_bytes(d[key]) ELSE 0
  BY DropBytes, DropFacts
<1>2. used_bytes(drop(d, key)) \in Nat
  BY <1>1, BytesAreNat
<1>3. \A k \in DOMAIN d : size_bytes(d[k]) \in Nat
  BY SizesAreNat
<1> QED BY <1>1, <1>2, <1>3

\* upsert keeps a bounded tier within its capacity, whether or not it raises.
LEMMA UpsertFits ==
  ASSUME ChunkingAssumption, NEW t \in Tiers \ Unbounded, Capacity[t] \in Nat,
         NEW d, IsDict(d, Extent), IsFiniteSet(DOMAIN d), NEW c \in Chunk,
         used_bytes(d) <= Capacity[t]
  PROVE  used_bytes(upsert(t, d, c)) <= Capacity[t]
<1> DEFINE freed == drop(d, cache_key(c))
<1>1. IsDict(freed, Extent) /\ IsFiniteSet(DOMAIN freed)
  BY DropFacts, DropBytes
<1>2. used_bytes(freed) <= used_bytes(d) /\ used_bytes(freed) \in Nat /\ used_bytes(d) \in Nat
  BY <1>1, DropFits, BytesAreNat
<1>3. used_bytes(freed) <= Capacity[t]
  BY <1>2
<1>4. can_store(t, freed, c) => used_bytes(put(freed, c)) <= Capacity[t]
  BY <1>1, StoreFits
<1> QED BY <1>3, <1>4 DEF upsert

LEMMA UpsertFinite ==
  ASSUME NEW t, NEW d, IsDict(d, Extent), IsFiniteSet(DOMAIN d), NEW c \in Chunk
  PROVE  IsFiniteSet(DOMAIN upsert(t, d, c))
<1> DEFINE freed == drop(d, cache_key(c))
<1>1. IsDict(freed, Extent) /\ DOMAIN freed = DOMAIN d \ {cache_key(c)}
  BY DropFacts
<1>2. IsFiniteSet(DOMAIN freed)
  BY <1>1, FS_Subset
<1>3. DOMAIN put(freed, c) = DOMAIN freed \cup {cache_key(c)}
  BY <1>1, PutFacts
<1>4. IsFiniteSet(DOMAIN put(freed, c))
  BY <1>2, <1>3, FS_AddElement
<1> QED BY <1>2, <1>4 DEF upsert

\* A tier whose entries are those of items in S, h[i] being the key of item i,
\* holds no more than the items need.
LEMMA BytesBound ==
  ASSUME ChunkingAssumption, NEW d, IsDict(d, Extent), IsFiniteSet(DOMAIN d),
         NEW S, IsFiniteSet(S), NEW need, \A i \in S : need[i] \in Nat, NEW h,
         \A k \in DOMAIN d :
           \E i \in S : h[i] = k /\ size_bytes(d[k]) <= BytesPerToken * need[i]
  PROVE  used_bytes(d) <= BytesPerToken * SumFunctionOnSet(need, S)
<1> DEFINE bytes == Sizes(d)
           Held(T) == SumFunctionOnSet(bytes, T)
           Needed(U) == SumFunctionOnSet(need, U)
           Within(T, U) == \A k \in T : \E i \in U :
                             h[i] = k /\ bytes[k] <= BytesPerToken * need[i]
           B == { T \in SUBSET (DOMAIN d) : \E U \in SUBSET S :
                    Within(T, U) /\ ~(Held(T) <= BytesPerToken * Needed(U)) }
<1>1. /\ \A k \in DOMAIN d : bytes[k] = size_bytes(d[k]) /\ bytes[k] \in Nat
      /\ BytesPerToken \in Nat
  BY SizesAreNat DEF ChunkingAssumption
<1>2. used_bytes(d) = Held(DOMAIN d)
  BY DEF used_bytes, SumFunction, Sizes
<1>3. ASSUME B # {} PROVE FALSE
  <2>1. PICK T \in B : /\ T \in SUBSET (DOMAIN d) /\ IsFiniteSet(T)
                       /\ \A V \in SUBSET T : V # T => V \notin B
    <3>1. B \in SUBSET (SUBSET (DOMAIN d))
      OBVIOUS
    <3> HIDE DEF B
    <3> QED BY <1>3, <3>1, SmallestSubset
  <2>2. PICK U \in SUBSET S : Within(T, U) /\ ~(Held(T) <= BytesPerToken * Needed(U))
    BY <2>1
  <2>3. IsFiniteSet(U) /\ \A i \in U : need[i] \in Nat
    BY <2>2, FS_Subset
  <2>4. Needed(U) \in Nat
    BY <2>3, SumType
  <2>5. T # {}
    <3>1. BytesPerToken * Needed(U) \in Nat
      BY <1>1, <2>4, NatProduct
    <3>2. T = {} => Held(T) = 0
      BY SumEmpty
    <3> HIDE DEF Held, Needed
    <3> QED BY <2>2, <3>1, <3>2
  <2>6. PICK k \in T : TRUE
    BY <2>5
  <2>7. PICK i \in U : h[i] = k /\ bytes[k] <= BytesPerToken * need[i]
    BY <2>2, <2>6
  <2>8. Within(T \ {k}, U \ {i})
    BY <2>2, <2>7
  <2>9. Held(T \ {k}) <= BytesPerToken * Needed(U \ {i})
    <3>1. T \ {k} \in SUBSET T /\ T \ {k} # T /\ U \ {i} \in SUBSET S
          /\ T \ {k} \in SUBSET (DOMAIN d)
      BY <2>1, <2>2, <2>6
    <3>2. T \ {k} \notin B
      BY <2>1, <3>1
    <3> HIDE DEF Held, Needed, Within
    <3> QED BY <2>8, <3>1, <3>2
  <2>10. /\ Held(T) = bytes[k] + Held(T \ {k})
         /\ Needed(U) = need[i] + Needed(U \ {i})
    <3>1. \A x \in T : bytes[x] \in Nat
      BY <1>1, <2>1
    <3> HIDE DEF bytes
    <3> QED BY <2>1, <2>3, <2>6, <2>7, <3>1, SumRemove
  <2>11. /\ bytes[k] \in Nat /\ Held(T \ {k}) \in Nat
         /\ need[i] \in Nat /\ Needed(U \ {i}) \in Nat
    <3>1. \A x \in T \ {k} : bytes[x] \in Nat
      BY <1>1, <2>1
    <3>2. IsFiniteSet(T \ {k}) /\ IsFiniteSet(U \ {i})
      BY <2>1, <2>3, FS_Subset
    <3>3. bytes[k] \in Nat /\ need[i] \in Nat
      BY <1>1, <2>1, <2>3, <2>6, <2>7
    <3> HIDE DEF bytes
    <3> QED BY <2>3, <3>1, <3>2, <3>3, SumType
  <2>12. \A b, m, n \in Nat : b * (m + n) = b * m + b * n /\ b * m \in Nat
    OBVIOUS
  <2>13. BytesPerToken * Needed(U)
           = BytesPerToken * need[i] + BytesPerToken * Needed(U \ {i})
    BY <1>1, <2>10, <2>11, <2>12
  <2> HIDE DEF Held, Needed, bytes
  <2>14. BytesPerToken * need[i] \in Nat /\ BytesPerToken * Needed(U \ {i}) \in Nat
    BY <1>1, <2>11, <2>12
  <2> QED BY <2>2, <2>7, <2>9, <2>10, <2>11, <2>13, <2>14
<1>4. DOMAIN d \in SUBSET (DOMAIN d) /\ S \in SUBSET S /\ Within(DOMAIN d, S)
  BY <1>1
<1>5. Held(DOMAIN d) <= BytesPerToken * Needed(S)
  <2> SUFFICES ASSUME ~(Held(DOMAIN d) <= BytesPerToken * Needed(S)) PROVE FALSE
    OBVIOUS
  <2> HIDE DEF Held, Needed, Within
  <2>1. DOMAIN d \in B
    BY <1>4
  <2> QED BY <1>3, <2>1
<1> QED BY <1>2, <1>5

=============================================================================
