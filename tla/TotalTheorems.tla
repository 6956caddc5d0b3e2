---------------------------- MODULE TotalTheorems ----------------------------
(***************************************************************************)
(* Facts about finite sums (Total), from which the proof modules conclude  *)
(* that money is conserved.  The induction theorems of the library take an *)
(* operator as a parameter, which the backends cannot instantiate; the     *)
(* existence of minimal elements (WFMin) is about sets and does as well.   *)
(***************************************************************************)
EXTENDS Totals, FiniteSetTheorems, TLAPS

\* Induction over the naturals, for a set instead of a predicate: the least
\* number outside T would have a predecessor in T.
LEMMA NatSetInduction ==
  ASSUME NEW T, 0 \in T, \A n \in Nat : n \in T => n + 1 \in T
  PROVE  Nat \subseteq T
<1> DEFINE Bad == {n \in Nat : n \notin T}
<1> SUFFICES ASSUME Bad # {} PROVE FALSE
  OBVIOUS
<1>1. Bad \subseteq Nat
  OBVIOUS
<1>2. PICK m \in Bad : \A k \in Bad : ~ (<<k, m>> \in OpToRel(<, Nat))
  <2> HIDE DEF Bad
  <2> QED BY <1>1, WFMin, NatLessThanWellFounded
<1>3. \A k \in Nat : k < m => k \in T
  BY <1>2 DEF OpToRel
<1>4. m # 0 /\ m \in Nat /\ m \notin T
  BY <1>2
<1>5. m - 1 \in Nat /\ m - 1 < m /\ (m - 1) + 1 = m
  BY <1>4
<1> QED BY <1>3, <1>4, <1>5

\* Induction over the subsets of a finite set, again for a set: T holds a subset
\* when it holds what remains after taking out any one element.
LEMMA SubsetInduction ==
  ASSUME NEW S, IsFiniteSet(S), NEW T, {} \in T,
         \A U \in SUBSET S : U # {} /\ (\A x \in U : U \ {x} \in T) => U \in T
  PROVE  \A U \in SUBSET S : U \in T
<1> DEFINE R == StrictSubsetOrdering(S)
           Bad == {U \in SUBSET S : U \notin T}
<1> SUFFICES ASSUME Bad # {} PROVE FALSE
  OBVIOUS
<1>1. IsWellFoundedOn(R, SUBSET S)
  BY FS_StrictSubsetOrderingWellFounded, FS_FiniteSubsetsOfFinite
<1>2. PICK U \in Bad : \A V \in Bad : ~ (<<V, U>> \in R)
  <2>1. Bad \subseteq SUBSET S
    OBVIOUS
  <2> HIDE DEF Bad, R
  <2> QED BY <1>1, <2>1, WFMin
<1>3. ASSUME NEW x \in U PROVE U \ {x} \in T
  <2>1. <<U \ {x}, U>> \in R
    BY DEF StrictSubsetOrdering
  <2> QED BY <1>2, <2>1
<1> QED BY <1>2, <1>3

-----------------------------------------------------------------------------
(* How the fold is computed *)

Chosen(s) == CHOOSE x \in s : TRUE
Summed(f, g, s) == IF s = {} THEN 0 ELSE f[Chosen(s)] + g[s \ {Chosen(s)}]
Iterated(f, S) == CHOOSE iter : iter = [s \in SUBSET S |-> Summed(f, iter, s)]

\* Total is what the fold of the community modules iterates.
LEMMA TotalIterated == ASSUME NEW f, NEW S PROVE Total(f, S) = Iterated(f, S)[S]
  BY DEF Total, MapThenSumSet, MapThenFoldSet, Iterated, Summed, Chosen

\* The element the fold takes next is one of the set.
LEMMA ChosenIn == ASSUME NEW s, s # {} PROVE Chosen(s) \in s
  BY DEF Chosen

UpTo(S, n) == {s \in SUBSET S : Cardinality(s) <= n}

\* The recursive equation of the fold has a solution on the subsets of up to n
\* elements: a solution for n extends to n + 1.
LEMMA UpToIterated ==
  ASSUME NEW f, NEW S, IsFiniteSet(S)
  PROVE  \A n \in Nat : \E g : g = [s \in UpTo(S, n) |-> Summed(f, g, s)]
<1> DEFINE T == {n \in Nat : \E g : g = [s \in UpTo(S, n) |-> Summed(f, g, s)]}
<1>0. \A s \in SUBSET S : IsFiniteSet(s) /\ Cardinality(s) \in Nat
  BY FS_Subset, FS_CardinalityType
<1>1. 0 \in T
  <2> DEFINE g == [s \in UpTo(S, 0) |-> 0]
  <2>1. \A s \in UpTo(S, 0) : s = {}
    BY <1>0, FS_EmptySet DEF UpTo
  <2>2. g = [s \in UpTo(S, 0) |-> Summed(f, g, s)]
    BY <2>1 DEF Summed
  <2> QED BY <2>2
<1>2. ASSUME NEW n \in Nat, n \in T PROVE n + 1 \in T
  <2>1. PICK h : h = [s \in UpTo(S, n) |-> Summed(f, h, s)]
    BY <1>2
  <2> DEFINE g == [s \in UpTo(S, n + 1) |-> Summed(f, h, s)]
  <2>2. \A s \in UpTo(S, n) : s \in UpTo(S, n + 1)
    BY <1>0 DEF UpTo
  <2>3. \A s \in UpTo(S, n) : g[s] = h[s]
    BY <2>1, <2>2
  <2>4. ASSUME NEW s \in UpTo(S, n + 1), s # {} PROVE s \ {Chosen(s)} \in UpTo(S, n)
    BY <1>0, <2>4, ChosenIn, FS_RemoveElement DEF UpTo
  <2>5. ASSUME NEW s \in UpTo(S, n + 1) PROVE Summed(f, h, s) = Summed(f, g, s)
    <3> HIDE DEF g
    <3> QED BY <2>3, <2>4 DEF Summed
  <2>6. g = [s \in UpTo(S, n + 1) |-> Summed(f, g, s)]
    BY <2>5
  <2> HIDE DEF g
  <2>7. \E k : k = [s \in UpTo(S, n + 1) |-> Summed(f, k, s)]
    BY <2>6
  <2> QED BY <2>7
<1>3. Nat \subseteq T
  <2> HIDE DEF T
  <2> QED BY <1>1, <1>2, NatSetInduction
<1> QED BY <1>3

\* So the fold satisfies its recursive equation.
LEMMA IteratedAt ==
  ASSUME NEW f, NEW S, IsFiniteSet(S)
  PROVE  \A s \in SUBSET S : Iterated(f, S)[s] = Summed(f, Iterated(f, S), s)
<1> DEFINE it == Iterated(f, S)
<1>1. Cardinality(S) \in Nat /\ \A s \in SUBSET S : Cardinality(s) <= Cardinality(S)
  BY FS_Subset, FS_CardinalityType
<1>2. SUBSET S = UpTo(S, Cardinality(S))
  BY <1>1 DEF UpTo
<1>3. PICK g : g = [s \in UpTo(S, Cardinality(S)) |-> Summed(f, g, s)]
  BY <1>1, UpToIterated
<1>4. g = [s \in SUBSET S |-> Summed(f, g, s)]
  BY <1>2, <1>3
<1>5. it = [s \in SUBSET S |-> Summed(f, it, s)]
  BY <1>4 DEF Iterated
<1> HIDE DEF it
<1>6. \A s \in SUBSET S : it[s] = Summed(f, it, s)
  BY <1>5
<1> QED BY <1>6 DEF it

\* What the fold computes for a subset does not depend on the set it started from.
LEMMA IteratedIsTotal ==
  ASSUME NEW f, NEW S, IsFiniteSet(S)
  PROVE  \A s \in SUBSET S : \A W \in SUBSET S : s \subseteq W => Iterated(f, W)[s] = Total(f, s)
<1> DEFINE T == {s \in SUBSET S : \A W \in SUBSET S : s \subseteq W => Iterated(f, W)[s] = Total(f, s)}
<1>0. \A s \in SUBSET S : IsFiniteSet(s)
  BY FS_Subset
<1>1. ASSUME NEW W \in SUBSET S, NEW s \in SUBSET W
      PROVE  Iterated(f, W)[s] = Summed(f, Iterated(f, W), s)
  BY <1>0, IteratedAt
<1>2. {} \in T
  <2>1. \A W \in SUBSET S : Iterated(f, W)[{}] = 0
    BY <1>1 DEF Summed
  <2> QED BY <2>1, TotalIterated
<1>3. ASSUME NEW U \in SUBSET S, U # {}, \A x \in U : U \ {x} \in T
      PROVE  U \in T
  <2> DEFINE p == Chosen(U)
  <2>1. p \in U
    BY <1>3, ChosenIn
  <2>2. ASSUME NEW W \in SUBSET S, U \subseteq W
        PROVE  Iterated(f, W)[U] = f[p] + Total(f, U \ {p})
    <3>1. Iterated(f, W)[U] = f[p] + Iterated(f, W)[U \ {p}]
      BY <1>1, <1>3, <2>2 DEF Summed
    <3>2. Iterated(f, W)[U \ {p}] = Total(f, U \ {p})
      BY <1>3, <2>1, <2>2
    <3> QED BY <3>1, <3>2
  <2>3. Total(f, U) = f[p] + Total(f, U \ {p})
    BY <2>2, TotalIterated
  <2> QED BY <2>2, <2>3
<1>4. \A s \in SUBSET S : s \in T
  <2> HIDE DEF T
  <2> QED BY <1>2, <1>3, SubsetInduction
<1> QED BY <1>4

\* The sum over the empty set, and how a sum is formed from a smaller one.
LEMMA TotalUnfold ==
  ASSUME NEW f, NEW S, IsFiniteSet(S)
  PROVE  /\ Total(f, {}) = 0
         /\ S # {} => Total(f, S) = f[Chosen(S)] + Total(f, S \ {Chosen(S)})
<1>1. \A s \in SUBSET S : Total(f, s) = Iterated(f, S)[s]
  BY IteratedIsTotal
<1>2. Iterated(f, S)[{}] = 0
  BY IteratedAt DEF Summed
<1>3. ASSUME S # {} PROVE Iterated(f, S)[S] = f[Chosen(S)] + Iterated(f, S)[S \ {Chosen(S)}]
  BY <1>3, IteratedAt DEF Summed
<1> QED BY <1>1, <1>2, <1>3

-----------------------------------------------------------------------------
(* What sums are used for *)

\* Integers add up to an integer.
LEMMA TotalInt ==
  ASSUME NEW f, NEW S, IsFiniteSet(S), \A x \in S : f[x] \in Int
  PROVE  \A s \in SUBSET S : Total(f, s) \in Int
<1> DEFINE T == {s \in SUBSET S : Total(f, s) \in Int}
<1>1. {} \in T
  <2>1. Total(f, {}) = 0
    BY TotalUnfold
  <2> QED BY <2>1
<1>2. ASSUME NEW U \in SUBSET S, U # {}, \A x \in U : U \ {x} \in T
      PROVE  U \in T
  <2>1. Total(f, U) = f[Chosen(U)] + Total(f, U \ {Chosen(U)})
    BY <1>2, TotalUnfold, FS_Subset
  <2>2. Chosen(U) \in U
    BY <1>2, ChosenIn
  <2> QED BY <1>2, <2>1, <2>2
<1>3. \A s \in SUBSET S : s \in T
  <2> HIDE DEF T
  <2> QED BY <1>1, <1>2, SubsetInduction
<1> QED BY <1>3

\* Any element may be taken out first: the order of the summands does not matter.
LEMMA TotalSplit ==
  ASSUME NEW f, NEW S, IsFiniteSet(S), \A x \in S : f[x] \in Int
  PROVE  \A s \in SUBSET S : \A a \in s : Total(f, s) = f[a] + Total(f, s \ {a})
<1> DEFINE T == {s \in SUBSET S : \A a \in s : Total(f, s) = f[a] + Total(f, s \ {a})}
<1>1. {} \in T
  OBVIOUS
<1>2. ASSUME NEW U \in SUBSET S, U # {}, \A x \in U : U \ {x} \in T
      PROVE  U \in T
  <2> DEFINE p == Chosen(U)
  <2>1. p \in U
    BY <1>2, ChosenIn
  <2>2. Total(f, U) = f[p] + Total(f, U \ {p})
    BY <1>2, TotalUnfold, FS_Subset
  <2> HIDE DEF p
  <2>3. ASSUME NEW a \in U, a # p
        PROVE  Total(f, U) = f[a] + Total(f, U \ {a})
    <3> DEFINE V == (U \ {p}) \ {a}
    <3>1. Total(f, U \ {p}) = f[a] + Total(f, V)
      BY <1>2, <2>1, <2>3
    <3>2. V = (U \ {a}) \ {p}
      OBVIOUS
    <3>3. Total(f, U \ {a}) = f[p] + Total(f, V)
      BY <1>2, <2>1, <2>3, <3>2
    <3>4. Total(f, V) \in Int /\ f[p] \in Int /\ f[a] \in Int
      BY <2>1, TotalInt
    <3> HIDE DEF V
    <3> QED BY <2>2, <3>1, <3>3, <3>4
  <2> QED BY <2>2, <2>3
<1>3. \A s \in SUBSET S : s \in T
  <2> HIDE DEF T
  <2> QED BY <1>1, <1>2, SubsetInduction
<1> QED BY <1>3

\* The sum depends on the values of f on S only.
LEMMA TotalSame ==
  ASSUME NEW f, NEW g, NEW S, IsFiniteSet(S), \A x \in S : f[x] = g[x]
  PROVE  Total(f, S) = Total(g, S)
<1> DEFINE T == {s \in SUBSET S : Total(f, s) = Total(g, s)}
<1>1. {} \in T
  <2>1. Total(f, {}) = 0 /\ Total(g, {}) = 0
    BY TotalUnfold
  <2> QED BY <2>1
<1>2. ASSUME NEW U \in SUBSET S, U # {}, \A x \in U : U \ {x} \in T
      PROVE  U \in T
  <2>1. /\ Total(f, U) = f[Chosen(U)] + Total(f, U \ {Chosen(U)})
        /\ Total(g, U) = g[Chosen(U)] + Total(g, U \ {Chosen(U)})
    BY <1>2, TotalUnfold, FS_Subset
  <2>2. Chosen(U) \in U
    BY <1>2, ChosenIn
  <2> QED BY <1>2, <2>1, <2>2
<1>3. \A s \in SUBSET S : s \in T
  <2> HIDE DEF T
  <2> QED BY <1>1, <1>2, SubsetInduction
<1> QED BY <1>3

\* Changing one summand changes the sum by the difference.
LEMMA TotalChange ==
  ASSUME NEW f, NEW g, NEW S, IsFiniteSet(S), NEW a \in S,
         \A x \in S : f[x] \in Int /\ g[x] \in Int,
         \A x \in S \ {a} : f[x] = g[x]
  PROVE  Total(g, S) = Total(f, S) - f[a] + g[a]
<1>1. Total(f, S) = f[a] + Total(f, S \ {a}) /\ Total(g, S) = g[a] + Total(g, S \ {a})
  BY TotalSplit
<1>2. Total(f, S \ {a}) = Total(g, S \ {a})
  BY TotalSame, FS_Subset
<1>3. Total(f, S \ {a}) \in Int
  BY TotalInt
<1> QED BY <1>1, <1>2, <1>3

\* A sum does not grow when no summand does.
LEMMA TotalMonotone ==
  ASSUME NEW f, NEW g, NEW S, IsFiniteSet(S),
         \A x \in S : f[x] \in Int /\ g[x] \in Int /\ g[x] <= f[x]
  PROVE  Total(g, S) <= Total(f, S)
<1> DEFINE T == {s \in SUBSET S : Total(g, s) <= Total(f, s)}
<1>1. {} \in T
  <2>1. Total(f, {}) = 0 /\ Total(g, {}) = 0
    BY TotalUnfold
  <2> QED BY <2>1
<1>2. ASSUME NEW U \in SUBSET S, U # {}, \A x \in U : U \ {x} \in T
      PROVE  U \in T
  <2> DEFINE p == Chosen(U)
             V == U \ {p}
  <2>1. /\ Total(f, U) = f[p] + Total(f, V)
        /\ Total(g, U) = g[p] + Total(g, V)
    BY <1>2, TotalUnfold, FS_Subset
  <2>2. p \in U
    BY <1>2, ChosenIn
  <2>3. Total(f, V) \in Int /\ Total(g, V) \in Int /\ Total(g, V) <= Total(f, V)
    BY <1>2, <2>2, TotalInt
  <2>4. f[p] \in Int /\ g[p] \in Int /\ g[p] <= f[p]
    BY <2>2
  <2> HIDE DEF p, V
  <2>5. Total(g, U) <= Total(f, U)
    BY <2>1, <2>3, <2>4
  <2> QED BY <2>5
<1>3. \A s \in SUBSET S : s \in T
  <2> HIDE DEF T
  <2> QED BY <1>1, <1>2, SubsetInduction
<1> QED BY <1>3

\* The same when only the summand of one element may grow.
LEMMA TotalAtMost ==
  ASSUME NEW f, NEW g, NEW S, IsFiniteSet(S), NEW a \in S,
         \A x \in S : f[x] \in Int /\ g[x] \in Int,
         \A x \in S \ {a} : g[x] <= f[x]
  PROVE  Total(g, S) <= Total(f, S) - f[a] + g[a]
<1>1. Total(f, S) = f[a] + Total(f, S \ {a}) /\ Total(g, S) = g[a] + Total(g, S \ {a})
  BY TotalSplit
<1>2. Total(g, S \ {a}) <= Total(f, S \ {a})
  BY TotalMonotone, FS_Subset
<1>3. Total(f, S \ {a}) \in Int /\ Total(g, S \ {a}) \in Int
  BY TotalInt
<1> QED BY <1>1, <1>2, <1>3

\* Naturals add up to a natural.
LEMMA TotalNat ==
  ASSUME NEW f, NEW S, IsFiniteSet(S), \A x \in S : f[x] \in Nat
  PROVE  Total(f, S) \in Nat
<1> DEFINE T == {s \in SUBSET S : Total(f, s) \in Nat}
<1>1. {} \in T
  <2>1. Total(f, {}) = 0
    BY TotalUnfold
  <2> QED BY <2>1
<1>2. ASSUME NEW U \in SUBSET S, U # {}, \A x \in U : U \ {x} \in T
      PROVE  U \in T
  <2>1. Total(f, U) = f[Chosen(U)] + Total(f, U \ {Chosen(U)})
    BY <1>2, TotalUnfold, FS_Subset
  <2>2. Chosen(U) \in U
    BY <1>2, ChosenIn
  <2> QED BY <1>2, <2>1, <2>2
<1>3. \A s \in SUBSET S : s \in T
  <2> HIDE DEF T
  <2> QED BY <1>1, <1>2, SubsetInduction
<1> QED BY <1>3

\* A sum of naturals is no smaller than any part of it.
LEMMA TotalSubset ==
  ASSUME NEW f, NEW S, IsFiniteSet(S), \A x \in S : f[x] \in Nat, NEW U \in SUBSET S
  PROVE  Total(f, U) <= Total(f, S)
<1> DEFINE T == {s \in SUBSET S : Total(f, U \cap s) <= Total(f, s)}
<1>1. {} \in T
  <2>1. Total(f, {}) = 0 /\ U \cap {} = {}
    BY TotalUnfold
  <2> QED BY <2>1
<1>2. ASSUME NEW s \in SUBSET S, s # {}, \A x \in s : s \ {x} \in T
      PROVE  s \in T
  <2>1. PICK a \in s : TRUE
    BY <1>2
  <2> DEFINE V == s \ {a}
  <2>2. Total(f, U \cap V) <= Total(f, V)
    BY <1>2, <2>1
  <2>3. Total(f, s) = f[a] + Total(f, V) /\ Total(f, V) \in Int /\ f[a] \in Nat
    BY <2>1, TotalSplit, TotalInt
  <2>4. Total(f, U \cap V) \in Int
    BY TotalInt
  <2>5. CASE a \in U
    <3>1. (U \cap s) \ {a} = U \cap V /\ a \in U \cap s
      BY <2>1, <2>5
    <3>2. Total(f, U \cap s) = f[a] + Total(f, U \cap V)
      BY <3>1, TotalSplit
    <3> HIDE DEF V
    <3>3. Total(f, U \cap s) <= Total(f, s)
      BY <2>2, <2>3, <2>4, <3>2
    <3> QED BY <3>3
  <2>6. CASE a \notin U
    <3>1. U \cap s = U \cap V
      BY <2>6
    <3> HIDE DEF V
    <3>2. Total(f, U \cap s) <= Total(f, s)
      BY <2>2, <2>3, <2>4, <3>1
    <3> QED BY <3>2
  <2> QED BY <2>5, <2>6
<1>3. \A s \in SUBSET S : s \in T
  <2> HIDE DEF T
  <2> QED BY <1>1, <1>2, SubsetInduction
<1>4. Total(f, U \cap S) <= Total(f, S)
  BY <1>3
<1>5. U \cap S = U
  OBVIOUS
<1> QED BY <1>4, <1>5

\* A sum of naturals is no smaller than each of them.
LEMMA TotalAtLeast ==
  ASSUME NEW f, NEW S, IsFiniteSet(S), \A x \in S : f[x] \in Nat, NEW a \in S
  PROVE  f[a] <= Total(f, S)
<1>1. Total(f, S) = f[a] + Total(f, S \ {a})
  BY TotalSplit
<1>2. Total(f, S \ {a}) \in Nat
  BY TotalNat, FS_Subset
<1> QED BY <1>1, <1>2

\* Zeros add up to zero.
LEMMA TotalZero ==
  ASSUME NEW f, NEW S, IsFiniteSet(S), \A x \in S : f[x] = 0
  PROVE  Total(f, S) = 0
<1> DEFINE T == {s \in SUBSET S : Total(f, s) = 0}
<1>1. {} \in T
  <2>1. Total(f, {}) = 0
    BY TotalUnfold
  <2> QED BY <2>1
<1>2. ASSUME NEW U \in SUBSET S, U # {}, \A x \in U : U \ {x} \in T
      PROVE  U \in T
  <2>1. Total(f, U) = f[Chosen(U)] + Total(f, U \ {Chosen(U)})
    BY <1>2, TotalUnfold, FS_Subset
  <2>2. Chosen(U) \in U
    BY <1>2, ChosenIn
  <2> QED BY <1>2, <2>1, <2>2
<1>3. \A s \in SUBSET S : s \in T
  <2> HIDE DEF T
  <2> QED BY <1>1, <1>2, SubsetInduction
<1> QED BY <1>3

\* A bound for every summand bounds the sum.
LEMMA TotalBound ==
  ASSUME NEW f, NEW S, IsFiniteSet(S), NEW b \in Nat, \A x \in S : f[x] \in Nat /\ f[x] <= b
  PROVE  Total(f, S) <= b * Cardinality(S)
<1> DEFINE T == {s \in SUBSET S : Total(f, s) <= b * Cardinality(s)}
<1>1. {} \in T
  <2>1. Total(f, {}) = 0
    BY TotalUnfold
  <2>2. Cardinality({}) = 0
    BY FS_EmptySet
  <2> QED BY <2>1, <2>2
<1>2. ASSUME NEW U \in SUBSET S, U # {}, \A x \in U : U \ {x} \in T
      PROVE  U \in T
  <2> DEFINE p == Chosen(U)
             V == U \ {p}
  <2>1. Total(f, U) = f[p] + Total(f, V)
    BY <1>2, TotalUnfold, FS_Subset
  <2>2. p \in U
    BY <1>2, ChosenIn
  <2>3. IsFiniteSet(U) /\ IsFiniteSet(V) /\ V \in SUBSET S
    BY FS_Subset
  <2>4. Cardinality(V) = Cardinality(U) - 1 /\ Cardinality(U) \in Nat /\ Cardinality(V) \in Nat
    BY <2>2, <2>3, FS_RemoveElement, FS_CardinalityType
  <2>5. Total(f, V) \in Int /\ Total(f, V) <= b * Cardinality(V)
    BY <1>2, <2>2, <2>3, TotalInt
  <2>6. f[p] \in Nat /\ f[p] <= b
    BY <2>2
  <2> HIDE DEF p, V
  <2>7. b * Cardinality(U) = b * Cardinality(V) + b
    BY <2>4
  <2>8. b * Cardinality(U) \in Int /\ b * Cardinality(V) \in Int
    BY <2>4
  <2> HIDE <2>4
  <2>9. Total(f, U) <= b * Cardinality(U)
    BY <2>1, <2>5, <2>6, <2>7, <2>8
  <2> QED BY <2>9
<1>3. \A s \in SUBSET S : s \in T
  <2> HIDE DEF T
  <2> QED BY <1>1, <1>2, SubsetInduction
<1> QED BY <1>3
=============================================================================
