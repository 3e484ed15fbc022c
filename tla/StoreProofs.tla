----------------------------- MODULE StoreProofs -----------------------------
(***************************************************************************)
(* Proofs about the Redis server's store: the table of a shard             *)
(* (ShardTable), and the memory it accounts for (MemoryLimit).             *)
(***************************************************************************)
EXTENDS ShardTable, MemoryLimit, FiniteSetTheorems, SequenceTheorems, WellFoundedInduction, TLAPS

-----------------------------------------------------------------------------
(* Induction, with the set of what holds in the place of a predicate.       *)

\* A set of natural numbers has a least one.
LEMMA NatMin ==
  ASSUME NEW S \in SUBSET Nat, S # {}
  PROVE  \E m \in S : \A x \in S : m <= x
<1> DEFINE R == OpToRel(<, Nat)
<1>1. IsWellFoundedOn(R, Nat)
  BY NatLessThanWellFounded, Zenon
<1>2. \A x, y \in Nat : x < y => <<x, y>> \in R
  BY Zenon DEF OpToRel
<1> HIDE DEF R
<1>3. PICK m \in S : \A y \in S : <<y, m>> \notin R
  <2>1. S \subseteq Nat
    OBVIOUS
  <2>2. \E m \in S : \A y \in S : ~ (<<y, m>> \in R)
    BY ONLY <1>1, <2>1, S # {}, WFMin
  <2> QED BY <2>2
<1>4. \A y \in S : ~ (y < m)
  BY <1>2, <1>3
<1> QED BY <1>3, <1>4

\* Induction over the natural numbers up to n.
LEMMA UpTo ==
  ASSUME NEW n \in Nat, NEW P, 0 \in P, \A i \in 0..(n - 1) : i \in P => i + 1 \in P
  PROVE  \A i \in 0..n : i \in P
<1> DEFINE Bad == {i \in 0..n : i \notin P}
<1> SUFFICES ASSUME Bad # {} PROVE FALSE
  OBVIOUS
<1>1. PICK m \in Bad : \A x \in Bad : m <= x
  <2>1. Bad \in SUBSET Nat
    OBVIOUS
  <2> HIDE DEF Bad
  <2> QED BY <2>1, NatMin
<1>2. m \in 1..n /\ m - 1 \in 0..(n - 1)
  OBVIOUS
<1>3. m - 1 \in P
  BY <1>1, <1>2
<1> QED BY <1>2, <1>3

\* Induction over the subsets of a finite set.
LEMMA OverSubsets ==
  ASSUME NEW S, IsFiniteSet(S), NEW P, {} \in P,
         \A T \in SUBSET S : \A x \in S \ T : T \in P => T \cup {x} \in P
  PROVE  \A T \in SUBSET S : T \in P
<1> DEFINE Sizes == {Cardinality(T) : T \in {U \in SUBSET S : U \notin P}}
<1> SUFFICES ASSUME NEW U \in SUBSET S, U \notin P PROVE FALSE
  OBVIOUS
<1>1. \A T \in SUBSET S : IsFiniteSet(T) /\ Cardinality(T) \in Nat
  BY FS_Subset, FS_CardinalityType
<1>2. PICK m \in Sizes : \A x \in Sizes : m <= x
  <2>1. Sizes \in SUBSET Nat /\ Sizes # {}
    BY <1>1
  <2> HIDE DEF Sizes
  <2> QED BY <2>1, NatMin
<1>3. PICK T \in SUBSET S : T \notin P /\ m = Cardinality(T)
  OBVIOUS
<1>4. PICK x \in T : TRUE
  BY <1>3
<1>5. T \ {x} \in SUBSET S /\ x \in S \ (T \ {x}) /\ (T \ {x}) \cup {x} = T
  OBVIOUS
<1>6. Cardinality(T \ {x}) = Cardinality(T) - 1
  BY <1>1, FS_RemoveElement
<1>7. T \ {x} \in P
  <2>1. T \ {x} \in SUBSET S /\ Cardinality(T \ {x}) < m /\ m \in Nat /\ Cardinality(T \ {x}) \in Nat
    BY <1>1, <1>3, <1>5, <1>6
  <2> QED BY <1>2, <2>1
<1> QED BY <1>3, <1>5, <1>7

-----------------------------------------------------------------------------
(* Sums.  SumFunctionOnSet is a fold that takes the elements of a set away  *)
(* one by one, in an order that CHOOSE decides.                             *)

SumOf(f, S) == SumFunctionOnSet(f, S)

\* The element that the fold takes from s.
Picked(s) == CHOOSE x \in s : TRUE

\* g is the fold of f over the subsets of S.
SumsOver(g, f, S) ==
  g = [s \in SUBSET S |-> IF s = {} THEN 0 ELSE f[Picked(s)] + g[s \ {Picked(s)}]]

\* The recursion of the fold has a solution.
LEMMA SumsExist ==
  ASSUME NEW f, NEW S, IsFiniteSet(S)
  PROVE  \E g : SumsOver(g, f, S)
<1> DEFINE Up(n) == {s \in SUBSET S : Cardinality(s) <= n}
           Sol(n, g) == g = [s \in Up(n) |-> IF s = {} THEN 0
                                             ELSE f[Picked(s)] + g[s \ {Picked(s)}]]
           N == Cardinality(S)
           P == {n \in 0..N : \E g : Sol(n, g)}
<1>1. N \in Nat /\ \A s \in SUBSET S : IsFiniteSet(s) /\ Cardinality(s) \in 0..N
  BY FS_Subset, FS_CardinalityType
<1>2. 0 \in P
  <2>1. \A s \in Up(0) : s = {}
    BY <1>1, FS_EmptySet
  <2>2. Sol(0, [s \in Up(0) |-> 0])
    BY <2>1
  <2>3. \E g : Sol(0, g)
    <3> HIDE DEF Sol
    <3> QED BY <2>2
  <2> HIDE DEF Sol, N
  <2> QED BY <1>1, <2>3
<1>3. ASSUME NEW n \in 0..(N - 1), n \in P PROVE n + 1 \in P
  <2>1. PICK g : Sol(n, g)
    BY <1>3
  <2> DEFINE h == [s \in Up(n + 1) |-> IF s = {} THEN 0
                                       ELSE f[Picked(s)] + g[s \ {Picked(s)}]]
  <2>2. ASSUME NEW s \in Up(n + 1), s # {}
        PROVE  h[s \ {Picked(s)}] = g[s \ {Picked(s)}]
    <3>1. Picked(s) \in s
      BY <2>2 DEF Picked
    <3>2. Cardinality(s \ {Picked(s)}) = Cardinality(s) - 1
      BY <1>1, <3>1, FS_RemoveElement
    <3>3. s \ {Picked(s)} \in Up(n) /\ s \ {Picked(s)} \in Up(n + 1)
      BY <1>1, <3>1, <3>2
    <3> QED BY <2>1, <3>3
  <2>3. Sol(n + 1, h)
    BY <2>2
  <2>4. n + 1 \in 0..N
    BY <1>1
  <2> QED BY <2>3, <2>4
<1>4. N \in P
  <2> HIDE DEF P, N
  <2> QED BY <1>1, <1>2, <1>3, UpTo
<1>5. Up(N) = SUBSET S
  BY <1>1
<1>6. PICK g : Sol(N, g)
  BY <1>4
<1>7. SumsOver(g, f, S)
  BY <1>5, <1>6 DEF SumsOver
<1> QED BY <1>7

\* The fold over a set is that over a larger one.
LEMMA SumsAgree ==
  ASSUME NEW f, NEW S, IsFiniteSet(S), NEW T \in SUBSET S, NEW g, NEW h,
         SumsOver(g, f, S), SumsOver(h, f, T)
  PROVE  \A s \in SUBSET T : g[s] = h[s]
<1> DEFINE P == {n \in 0..Cardinality(T) :
                   \A s \in SUBSET T : Cardinality(s) = n => g[s] = h[s]}
           N == Cardinality(T)
<1>1. N \in Nat /\ \A s \in SUBSET T : IsFiniteSet(s) /\ Cardinality(s) \in 0..N
  <2>1. IsFiniteSet(T)
    BY FS_Subset
  <2> QED BY <2>1, FS_Subset, FS_CardinalityType
<1>2. 0 \in P
  <2>1. \A s \in SUBSET T : Cardinality(s) = 0 => s = {}
    BY <1>1, FS_EmptySet
  <2>2. g[{}] = 0 /\ h[{}] = 0
    BY DEF SumsOver
  <2> QED BY <1>1, <2>1, <2>2
<1>3. ASSUME NEW n \in 0..(N - 1), n \in P PROVE n + 1 \in P
  <2>1. ASSUME NEW s \in SUBSET T, Cardinality(s) = n + 1 PROVE g[s] = h[s]
    <3>1. s # {} /\ Picked(s) \in s
      BY <2>1, <1>1, FS_EmptySet DEF Picked
    <3>2. Cardinality(s \ {Picked(s)}) = n
      <4>1. Cardinality(s \ {Picked(s)}) = Cardinality(s) - 1
        BY <1>1, <3>1, FS_RemoveElement
      <4> QED BY <1>1, <2>1, <4>1
    <3>3. s \ {Picked(s)} \in SUBSET T
      OBVIOUS
    <3>4. g[s \ {Picked(s)}] = h[s \ {Picked(s)}]
      BY <1>3, <3>2, <3>3
    <3>5. g[s] = f[Picked(s)] + g[s \ {Picked(s)}]
      BY <3>1 DEF SumsOver
    <3>6. h[s] = f[Picked(s)] + h[s \ {Picked(s)}]
      BY <3>1 DEF SumsOver
    <3> QED BY <3>4, <3>5, <3>6
  <2>2. n + 1 \in 0..N
    BY <1>1
  <2> QED BY <2>1, <2>2
<1>4. \A n \in 0..N : n \in P
  <2> HIDE DEF P, N
  <2> QED BY <1>1, <1>2, <1>3, UpTo
<1> QED BY <1>1, <1>4

\* The sum is such a fold.
LEMMA SumIs ==
  ASSUME NEW f, NEW S, IsFiniteSet(S)
  PROVE  \E g : SumsOver(g, f, S) /\ SumOf(f, S) = g[S]
<1> DEFINE g == CHOOSE h : SumsOver(h, f, S)
<1>1. SumsOver(g, f, S)
  BY SumsExist
<1>2. SumOf(f, S) = g[S]
  BY DEF SumOf, SumFunctionOnSet, FoldFunctionOnSet, MapThenFoldSet, SumsOver, Picked
<1> QED BY <1>1, <1>2

\* A fold takes one element and goes on with the others.
LEMMA SumStep ==
  ASSUME NEW f, NEW S, IsFiniteSet(S)
  PROVE  /\ S = {} => SumOf(f, S) = 0
         /\ S # {} => SumOf(f, S)
                        = f[Picked(S)] + SumOf(f, S \ {Picked(S)})
<1>1. PICK g : SumsOver(g, f, S) /\ SumOf(f, S) = g[S]
  BY SumIs
<1>2. PICK h : /\ SumsOver(h, f, S \ {Picked(S)})
               /\ SumOf(f, S \ {Picked(S)}) = h[S \ {Picked(S)}]
  BY SumIs, FS_RemoveElement
<1>3. g[S \ {Picked(S)}] = h[S \ {Picked(S)}]
  BY <1>1, <1>2, SumsAgree
<1>4. g[S] = IF S = {} THEN 0 ELSE f[Picked(S)] + g[S \ {Picked(S)}]
  BY <1>1 DEF SumsOver
<1> QED BY <1>1, <1>2, <1>3, <1>4

\* A sum of integers is one.
LEMMA SumType ==
  ASSUME NEW S, IsFiniteSet(S), NEW f, \A x \in S : f[x] \in Int
  PROVE  SumOf(f, S) \in Int
<1> DEFINE N == Cardinality(S)
           P == {n \in 0..N : \A T \in SUBSET S : Cardinality(T) = n => SumOf(f, T) \in Int}
<1>1. N \in Nat /\ \A T \in SUBSET S : IsFiniteSet(T) /\ Cardinality(T) \in 0..N
  BY FS_Subset, FS_CardinalityType
<1>2. 0 \in P
  <2>1. \A T \in SUBSET S : Cardinality(T) = 0 => T = {}
    BY <1>1, FS_EmptySet
  <2>2. SumOf(f, {}) = 0
    BY FS_EmptySet, SumStep
  <2> QED BY <1>1, <2>1, <2>2
<1>3. ASSUME NEW n \in 0..(N - 1), n \in P PROVE n + 1 \in P
  <2>1. ASSUME NEW T \in SUBSET S, Cardinality(T) = n + 1 PROVE SumOf(f, T) \in Int
    <3>1. IsFiniteSet(T) /\ T # {} /\ Picked(T) \in T
      BY <1>1, <2>1, FS_EmptySet DEF Picked
    <3>2. Cardinality(T \ {Picked(T)}) = Cardinality(T) - 1
      BY <3>1, FS_RemoveElement
    <3>3. T \ {Picked(T)} \in SUBSET S /\ Cardinality(T \ {Picked(T)}) = n
      BY <2>1, <3>2
    <3>4. SumOf(f, T \ {Picked(T)}) \in Int
      BY <1>3, <3>3
    <3>5. SumOf(f, T) = f[Picked(T)] + SumOf(f, T \ {Picked(T)})
      BY <3>1, SumStep
    <3> QED BY <3>1, <3>4, <3>5
  <2>2. n + 1 \in 0..N
    BY <1>1
  <2> QED BY <2>1, <2>2
<1>4. \A n \in 0..N : n \in P
  <2> HIDE DEF P, N
  <2> QED BY <1>1, <1>2, <1>3, UpTo
<1> QED BY <1>1, <1>4

\* Any element can be taken first.
LEMMA SumRemove ==
  ASSUME NEW S, IsFiniteSet(S), NEW f, \A x \in S : f[x] \in Int
  PROVE  \A y \in S : SumOf(f, S) = f[y] + SumOf(f, S \ {y})
<1> DEFINE N == Cardinality(S)
           P == {n \in 0..N : \A T \in SUBSET S : Cardinality(T) = n =>
                                \A y \in T : SumOf(f, T) = f[y] + SumOf(f, T \ {y})}
<1>1. N \in Nat /\ \A T \in SUBSET S : IsFiniteSet(T) /\ Cardinality(T) \in 0..N
  BY FS_Subset, FS_CardinalityType
<1>2. 0 \in P
  <2>1. \A T \in SUBSET S : Cardinality(T) = 0 => T = {}
    BY <1>1, FS_EmptySet
  <2> QED BY <1>1, <2>1
<1>3. ASSUME NEW n \in 0..(N - 1), n \in P PROVE n + 1 \in P
  <2>1. ASSUME NEW T \in SUBSET S, Cardinality(T) = n + 1, NEW y \in T
        PROVE  SumOf(f, T) = f[y] + SumOf(f, T \ {y})
    <3>1. IsFiniteSet(T) /\ T # {} /\ Picked(T) \in T
      BY <1>1, <2>1 DEF Picked
    <3>2. SumOf(f, T) = f[Picked(T)] + SumOf(f, T \ {Picked(T)})
      BY <3>1, SumStep
    <3>3. CASE y = Picked(T)
      BY <3>2, <3>3
    <3>4. CASE y # Picked(T)
      <4>1. PICK c \in T : c = Picked(T)
        BY <3>1
      <4>2. Cardinality(T \ {c}) = n /\ Cardinality(T \ {y}) = n
        <5>1. Cardinality(T \ {c}) = Cardinality(T) - 1 /\ Cardinality(T \ {y}) = Cardinality(T) - 1
          BY <3>1, FS_RemoveElement
        <5> QED BY <2>1, <5>1
      <4>3. SumOf(f, T \ {c}) = f[y] + SumOf(f, (T \ {c}) \ {y})
        BY <1>3, <3>4, <4>1, <4>2
      <4>4. SumOf(f, T \ {y}) = f[c] + SumOf(f, (T \ {y}) \ {c})
        BY <1>3, <3>4, <4>1, <4>2
      <4>5. (T \ {c}) \ {y} = (T \ {y}) \ {c} /\ (T \ {c}) \ {y} \in SUBSET S
        OBVIOUS
      <4>6. SumOf(f, (T \ {c}) \ {y}) \in Int /\ f[c] \in Int /\ f[y] \in Int
        BY <1>1, <4>5, SumType
      <4>7. PICK rest \in Int : rest = SumOf(f, (T \ {c}) \ {y})
        BY <4>6
      <4>8. SumOf(f, T \ {y}) = f[c] + rest
        BY <4>4, <4>5, <4>7
      <4>9. SumOf(f, T) = f[c] + (f[y] + rest)
        BY <3>2, <4>1, <4>3, <4>7
      <4> QED BY <4>6, <4>8, <4>9
    <3> QED BY <3>3, <3>4
  <2>2. n + 1 \in 0..N
    BY <1>1
  <2> QED BY <2>1, <2>2
<1>4. \A n \in 0..N : n \in P
  <2> HIDE DEF P, N
  <2> QED BY <1>1, <1>2, <1>3, UpTo
<1> QED BY <1>1, <1>4

\* An element more.
LEMMA SumAdd ==
  ASSUME NEW S, IsFiniteSet(S), NEW x, x \notin S, NEW f, \A y \in S \cup {x} : f[y] \in Int
  PROVE  /\ IsFiniteSet(S \cup {x})
         /\ SumOf(f, S \cup {x}) = f[x] + SumOf(f, S)
<1>1. IsFiniteSet(S \cup {x})
  BY FS_AddElement
<1>2. SumOf(f, S \cup {x}) = f[x] + SumOf(f, (S \cup {x}) \ {x})
  BY <1>1, SumRemove
<1>3. (S \cup {x}) \ {x} = S
  OBVIOUS
<1> QED BY <1>1, <1>2, <1>3

\* The sum of nothing.
LEMMA SumEmpty == \A f : SumOf(f, {}) = 0
BY FS_EmptySet, SumStep

\* Sums of equal numbers are equal, and sums of smaller numbers smaller.
LEMMA SumCompare ==
  ASSUME NEW S, IsFiniteSet(S), NEW f, NEW g,
         \A x \in S : f[x] \in Int /\ g[x] \in Int /\ f[x] <= g[x]
  PROVE  SumOf(f, S) <= SumOf(g, S)
<1> DEFINE P == {T \in SUBSET S : SumOf(f, T) <= SumOf(g, T)}
<1>1. {} \in P
  BY SumEmpty
<1>2. ASSUME NEW T \in SUBSET S, NEW x \in S \ T, T \in P PROVE T \cup {x} \in P
  <2>1. IsFiniteSet(T)
    BY FS_Subset
  <2>2. SumOf(f, T) \in Int /\ SumOf(g, T) \in Int
    BY <2>1, SumType
  <2>3. SumOf(f, T \cup {x}) = f[x] + SumOf(f, T)
    BY <2>1, SumAdd
  <2>4. SumOf(g, T \cup {x}) = g[x] + SumOf(g, T)
    BY <2>1, SumAdd
  <2>5. SumOf(f, T) <= SumOf(g, T) /\ T \cup {x} \in SUBSET S
    BY <1>2
  <2> QED BY <2>2, <2>3, <2>4, <2>5
<1>3. \A T \in SUBSET S : T \in P
  <2> HIDE DEF P
  <2> QED BY <1>1, <1>2, OverSubsets
<1> QED BY <1>3

\* The sum depends on the numbers only.
LEMMA SumSame ==
  ASSUME NEW S, IsFiniteSet(S), NEW f, NEW g, \A x \in S : f[x] \in Int /\ f[x] = g[x]
  PROVE  SumOf(f, S) = SumOf(g, S)
<1>1. SumOf(f, S) <= SumOf(g, S) /\ SumOf(g, S) <= SumOf(f, S)
  BY SumCompare
<1> QED BY <1>1, SumType

\* A sum of natural numbers is one.
LEMMA SumNat ==
  ASSUME NEW S, IsFiniteSet(S), NEW f, \A x \in S : f[x] \in Nat
  PROVE  SumOf(f, S) \in Nat
<1> DEFINE P == {T \in SUBSET S : SumOf(f, T) \in Nat}
<1>1. {} \in P
  BY SumEmpty
<1>2. ASSUME NEW T \in SUBSET S, NEW x \in S \ T, T \in P PROVE T \cup {x} \in P
  <2>1. IsFiniteSet(T)
    BY FS_Subset
  <2>2. SumOf(f, T \cup {x}) = f[x] + SumOf(f, T)
    BY <2>1, SumAdd
  <2> QED BY <1>2, <2>2
<1>3. \A T \in SUBSET S : T \in P
  <2> HIDE DEF P
  <2> QED BY <1>1, <1>2, OverSubsets
<1> QED BY <1>3

\* One number changes.
LEMMA SumChange ==
  ASSUME NEW S, IsFiniteSet(S), NEW x \in S, NEW f, NEW g,
         \A y \in S : f[y] \in Int /\ g[y] \in Int /\ (y # x => g[y] = f[y])
  PROVE  SumOf(g, S) = SumOf(f, S) - f[x] + g[x]
<1>1. IsFiniteSet(S \ {x})
  BY FS_RemoveElement
<1>2. SumOf(f, S) = f[x] + SumOf(f, S \ {x})
  BY SumRemove
<1>3. SumOf(g, S) = g[x] + SumOf(g, S \ {x})
  BY SumRemove
<1>4. SumOf(f, S \ {x}) = SumOf(g, S \ {x})
  BY <1>1, SumSame
<1>5. SumOf(f, S \ {x}) \in Int /\ f[x] \in Int /\ g[x] \in Int
  BY <1>1, SumType
<1> QED BY <1>2, <1>3, <1>4, <1>5

-----------------------------------------------------------------------------
(* Recursive functions over the natural numbers, from first to next.        *)

\* h is a solution up to n.
SolvedUpTo(h, n, X, first, next) ==
  /\ h \in [0..n -> X] /\ h[0] = first
  /\ \A i \in 0..(n - 1) : h[i + 1] = next[<<i, h[i]>>]

\* There are solutions up to every number.
LEMMA SolvedSome ==
  ASSUME NEW X, NEW first \in X, NEW next \in [Nat \X X -> X], NEW n \in Nat
  PROVE  \E h : SolvedUpTo(h, n, X, first, next)
<1> DEFINE P == {m \in 0..n : \E h : SolvedUpTo(h, m, X, first, next)}
<1>1. 0 \in P
  <2>1. SolvedUpTo([i \in 0..0 |-> first], 0, X, first, next)
    BY DEF SolvedUpTo
  <2>2. \E h : SolvedUpTo(h, 0, X, first, next)
    BY <2>1
  <2> QED BY <2>2
<1>2. ASSUME NEW m \in 0..(n - 1), m \in P PROVE m + 1 \in P
  <2>1. PICK h : SolvedUpTo(h, m, X, first, next)
    BY <1>2
  <2> DEFINE g == [i \in 0..(m + 1) |-> IF i <= m THEN h[i] ELSE next[<<m, h[m]>>]]
  <2>2. m \in Nat /\ h[m] \in X /\ <<m, h[m]>> \in Nat \X X
    BY <2>1 DEF SolvedUpTo
  <2>3. g \in [0..(m + 1) -> X] /\ g[0] = first
    BY <2>1, <2>2 DEF SolvedUpTo
  <2>4. ASSUME NEW i \in 0..m PROVE g[i + 1] = next[<<i, g[i]>>]
    <3>1. CASE i = m
      BY <2>2, <3>1
    <3>2. CASE i # m
      <4>1. i \in 0..(m - 1) /\ i + 1 <= m /\ i + 1 \in 0..(m + 1) /\ i <= m /\ i \in 0..(m + 1)
        BY <2>2, <3>2
      <4>2. g[i + 1] = h[i + 1] /\ g[i] = h[i]
        BY <4>1
      <4> QED BY <2>1, <4>1, <4>2 DEF SolvedUpTo
    <3> QED BY <3>1, <3>2
  <2>5. SolvedUpTo(g, m + 1, X, first, next)
    <3> HIDE DEF g
    <3>1. (m + 1) - 1 = m
      BY <2>2
    <3> QED BY <2>3, <2>4, <3>1 DEF SolvedUpTo
  <2>6. \E f : SolvedUpTo(f, m + 1, X, first, next)
    BY <2>5
  <2> QED BY <2>6
<1>3. \A m \in 0..n : m \in P
  <2> HIDE DEF P
  <2> QED BY <1>1, <1>2, UpTo
<1> QED BY <1>3

\* Two solutions agree as far as both go.
LEMMA SolvedSame ==
  ASSUME NEW X, NEW first, NEW next, NEW n \in Nat, NEW m \in Nat, n <= m,
         NEW g, SolvedUpTo(g, n, X, first, next), NEW h, SolvedUpTo(h, m, X, first, next)
  PROVE  \A i \in 0..n : g[i] = h[i]
<1> DEFINE P == {i \in 0..n : g[i] = h[i]}
<1>1. 0 \in P
  BY DEF SolvedUpTo
<1>2. ASSUME NEW i \in 0..(n - 1), i \in P PROVE i + 1 \in P
  <2>1. i \in 0..(m - 1) /\ i + 1 \in 0..n
    OBVIOUS
  <2>2. g[i + 1] = next[<<i, g[i]>>] /\ h[i + 1] = next[<<i, h[i]>>]
    BY <2>1 DEF SolvedUpTo
  <2> QED BY <1>2, <2>1, <2>2
<1>3. \A i \in 0..n : i \in P
  <2> HIDE DEF P
  <2> QED BY <1>1, <1>2, UpTo
<1> QED BY <1>3

\* next leads from a number and its value to the next value.
NextValue(next, X) == next \in [Nat \X X -> X]

\* g is the function that begins with first and goes on with next.
Recurs(g, X, first, next) ==
  g \in [Nat -> X] /\ g[0] = first /\ \A n \in Nat : g[n + 1] = next[<<n, g[n]>>]

\* Recursion over the natural numbers.
LEMMA Recursion ==
  ASSUME NEW X, NEW first \in X, NEW next, NextValue(next, X)
  PROVE  \E g : Recurs(g, X, first, next)
<1> USE DEF NextValue
<1> DEFINE Best(n) == CHOOSE h : SolvedUpTo(h, n, X, first, next)
           g == [n \in Nat |-> Best(n)[n]]
<1>1. \A n \in Nat : SolvedUpTo(Best(n), n, X, first, next)
  BY SolvedSome
<1> HIDE DEF Best
<1>2. g \in [Nat -> X] /\ g[0] = first
  BY <1>1 DEF SolvedUpTo
<1>3. ASSUME NEW n \in Nat PROVE g[n + 1] = next[<<n, g[n]>>]
  <2>1. n + 1 \in Nat /\ n <= n + 1 /\ n \in 0..n /\ n \in 0..((n + 1) - 1)
    OBVIOUS
  <2>2. Best(n)[n] = Best(n + 1)[n]
    BY <1>1, <2>1, SolvedSame
  <2>3. Best(n + 1)[n + 1] = next[<<n, Best(n + 1)[n]>>]
    BY <1>1, <2>1 DEF SolvedUpTo
  <2> QED BY <2>1, <2>2, <2>3
<1>4. Recurs(g, X, first, next)
  <2> HIDE DEF g
  <2> QED BY <1>2, <1>3 DEF Recurs
<1> QED BY <1>4

-----------------------------------------------------------------------------
(* Sizes of tables.                                                         *)

\* The smallest table has two slots at least.
LEMMA MinSlotsIs == MinSlots \in Nat /\ MinSlots >= 2
<1>1. PICK i \in 1..10 : MinSlots = 2^i
  BY SizeAssumption
<1>2. CASE i = 1 BY <1>1, <1>2
<1>3. CASE i = 2 BY <1>1, <1>3
<1>4. CASE i = 3 BY <1>1, <1>4
<1>5. CASE i = 4 BY <1>1, <1>5
<1>6. CASE i = 5 BY <1>1, <1>6
<1>7. CASE i = 6 BY <1>1, <1>7
<1>8. CASE i = 7 BY <1>1, <1>8
<1>9. CASE i = 8 BY <1>1, <1>9
<1>10. CASE i = 9 BY <1>1, <1>10
<1>11. CASE i = 10 BY <1>1, <1>11
<1> QED BY <1>2, <1>3, <1>4, <1>5, <1>6, <1>7, <1>8, <1>9, <1>10, <1>11

\* Doubled is what its definition says.
LEMMA DoubledIs == /\ Doubled \in [Nat -> Nat] /\ Doubled[0] = MinSlots
                   /\ \A j \in Nat : Doubled[j + 1] = 2 * Doubled[j]
<1> DEFINE Eq(f) == f = [j \in Nat |-> IF j = 0 THEN MinSlots ELSE 2 * f[j - 1]]
<1>0. PICK next \in [Nat \X Nat -> Nat] : \A p \in Nat \X Nat : next[p] = 2 * p[2]
  <2>1. [p \in Nat \X Nat |-> 2 * p[2]] \in [Nat \X Nat -> Nat]
    OBVIOUS
  <2> QED BY <2>1
<1>1. PICK g \in [Nat -> Nat] : g[0] = MinSlots /\ \A n \in Nat : g[n + 1] = next[<<n, g[n]>>]
  <2>1. NextValue(next, Nat) /\ MinSlots \in Nat
    BY MinSlotsIs DEF NextValue
  <2>2. PICK g : Recurs(g, Nat, MinSlots, next)
    BY <2>1, Recursion
  <2> QED BY <2>2 DEF Recurs
<1>2. Eq(g)
  <2>1. ASSUME NEW j \in Nat PROVE g[j] = IF j = 0 THEN MinSlots ELSE 2 * g[j - 1]
    <3>1. CASE j = 0
      BY <1>1, <3>1
    <3>2. CASE j # 0
      <4>1. j - 1 \in Nat /\ (j - 1) + 1 = j
        BY <3>2
      <4>2. g[(j - 1) + 1] = next[<<j - 1, g[j - 1]>>]
        BY <1>1, <4>1
      <4> QED BY <1>0, <3>2, <4>1, <4>2
    <3> QED BY <3>1, <3>2
  <2> QED BY <2>1
<1>3. Doubled = CHOOSE f : Eq(f)
  BY DEF Doubled
<1>4. Eq(Doubled)
  <2> HIDE DEF Eq
  <2> QED BY <1>2, <1>3
<1>5. Doubled = g
  <2> DEFINE P == {j \in Nat : Doubled[j] = g[j]}
  <2>1. ASSUME NEW n \in Nat PROVE \A j \in 0..n : j \in P
    <3>1. 0 \in P
      BY <1>1, <1>4
    <3>2. ASSUME NEW j \in 0..(n - 1), j \in P PROVE j + 1 \in P
      <4>1. j \in Nat /\ j + 1 \in Nat /\ j + 1 # 0 /\ (j + 1) - 1 = j
        OBVIOUS
      <4>2. Doubled[j + 1] = 2 * Doubled[j]
        BY <1>4, <4>1
      <4>3. g[j + 1] = 2 * g[j]
        BY <1>2, <4>1
      <4> QED BY <3>2, <4>1, <4>2, <4>3
    <3> HIDE DEF P
    <3> QED BY <3>1, <3>2, UpTo
  <2>2. \A n \in Nat : Doubled[n] = g[n]
    BY <2>1
  <2>3. Doubled = [j \in Nat |-> Doubled[j]]
    BY <1>4
  <2> QED BY <1>1, <2>2, <2>3
<1>6. \A n \in Nat : g[n + 1] = 2 * g[n]
  <2>1. \A n \in Nat : <<n, g[n]>> \in Nat \X Nat
    BY <1>1
  <2> QED BY <1>0, <1>1, <2>1
<1> QED BY <1>1, <1>5, <1>6

\* The least of a set of numbers.
LEMMA MinIs ==
  ASSUME NEW S \in SUBSET Nat, S # {}
  PROVE  Min(S) \in S /\ \A x \in S : Min(S) <= x
BY NatMin DEF Min

\* Doubling goes on for ever.
LEMMA DoubledGrows == \A j \in Nat : Doubled[j] \in Nat /\ Doubled[j] >= 2 * j + 2
<1> DEFINE P == {j \in Nat : Doubled[j] >= 2 * j + 2}
<1>1. ASSUME NEW n \in Nat PROVE \A j \in 0..n : j \in P
  <2>1. 0 \in P
    BY DoubledIs, MinSlotsIs
  <2>2. ASSUME NEW j \in 0..(n - 1), j \in P PROVE j + 1 \in P
    <3>1. j \in Nat /\ Doubled[j] \in Nat /\ Doubled[j + 1] = 2 * Doubled[j]
      BY DoubledIs
    <3> QED BY <2>2, <3>1
  <2> HIDE DEF P
  <2> QED BY <2>1, <2>2, UpTo
<1>2. \A j \in Nat : j \in 0..j
  OBVIOUS
<1>3. \A j \in Nat : j \in P
  <2> HIDE DEF P
  <2> QED BY <1>1, <1>2
<1> QED BY <1>3, DoubledIs

\* A size of tables.
IsSize(n) == n \in Nat /\ n >= 2 /\ \E j \in 0..n : n = Doubled[j]

\* grow0 finds a size, with room for twice the items and a third more.
LEMMA FittingIs ==
  ASSUME NEW cnt \in Nat
  PROVE  IsSize(Fitting(cnt)) /\ Fitting(cnt) * 3 >= (cnt + 1) * 8
<1> DEFINE S == {j \in 0..(2 * cnt + 2) : Doubled[j] * 3 >= (cnt + 1) * 4 * 2}
<1>1. 2 * cnt + 2 \in S
  <2>1. Doubled[2 * cnt + 2] \in Nat /\ Doubled[2 * cnt + 2] >= 2 * (2 * cnt + 2) + 2
    BY DoubledGrows
  <2> QED BY <2>1
<1>2. S \in SUBSET Nat
  OBVIOUS
<1>3. Min(S) \in S
  <2> HIDE DEF S
  <2> QED BY <1>1, <1>2, MinIs
<1>4. PICK j \in S : j = Min(S)
  BY <1>3
<1>5. Fitting(cnt) = Doubled[j]
  BY <1>4 DEF Fitting
<1>6. j \in Nat /\ Doubled[j] \in Nat /\ Doubled[j] >= 2 * j + 2 /\ Doubled[j] * 3 >= (cnt + 1) * 8
  BY DoubledGrows
<1>7. IsSize(Doubled[j])
  BY <1>6 DEF IsSize
<1> QED BY <1>5, <1>6, <1>7

\* So is the size of the first table.
LEMMA MinSlotsSize == IsSize(MinSlots)
BY DoubledIs, MinSlotsIs DEF IsSize

-----------------------------------------------------------------------------
(* Probe paths.  In a table of n slots a path begins at the remainder of    *)
(* the hash and goes once around the table.                                 *)

\* The remainder of a division is determined by its equation.
LEMMA Remainder ==
  ASSUME NEW n \in Nat, n > 0, NEW q \in Nat, NEW r \in 0..(n - 1)
  PROVE  (n * q + r) % n = r
OBVIOUS

\* The position at distance d, without a division.
LEMMA ProbeIs ==
  ASSUME NEW k \in Keys, NEW n \in Nat, n > 0, NEW d \in 0..n
  PROVE  /\ Hash[k] % n \in 0..(n - 1)
         /\ Probe(k, d, n) = IF (Hash[k] % n) + d < n THEN (Hash[k] % n) + d
                             ELSE IF (Hash[k] % n) + d < 2 * n THEN (Hash[k] % n) + d - n
                             ELSE ((Hash[k] % n) + d) - 2 * n
<1> DEFINE h == Hash[k]
           q == h \div n
           r == h % n
<1>1. h \in Nat
  BY HashAssumption
<1>2. r \in 0..(n - 1) /\ q \in Nat /\ h = n * q + r
  BY <1>1
<1> HIDE DEF h, q, r
<1>3. CASE r + d < n
  <2>1. h + d = n * q + (r + d) /\ r + d \in 0..(n - 1)
    BY <1>2, <1>3
  <2>2. (h + d) % n = r + d
    BY <1>2, <2>1, Remainder
  <2> QED BY <1>2, <1>3, <2>2 DEF h, r, Probe
<1>4. CASE r + d >= n
  <2>1. CASE r + d < 2 * n
    <3>1. q + 1 \in Nat /\ n * (q + 1) = n * q + n
      BY <1>2
    <3>2. h + d = n * (q + 1) + (r + d - n) /\ r + d - n \in 0..(n - 1)
      BY <1>2, <1>4, <2>1, <3>1
    <3>3. (h + d) % n = r + d - n
      BY <3>1, <3>2, Remainder
    <3> QED BY <1>2, <1>4, <2>1, <3>3 DEF h, r, Probe
  <2>2. CASE r + d >= 2 * n
    BY <1>2, <2>2
  <2> QED BY <1>2, <2>1, <2>2
<1> QED BY <1>2, <1>3, <1>4

\* The slot after slot i.
LEMMA NextSlot ==
  ASSUME NEW n \in Nat, n > 0, NEW i \in 0..(n - 1)
  PROVE  (i + 1) % n = IF i = n - 1 THEN 0 ELSE i + 1
<1>1. CASE i = n - 1
  <2>1. (n * 1 + 0) % n = 0
    BY Remainder
  <2> QED BY <1>1, <2>1
<1>2. CASE i # n - 1
  <2>1. (n * 0 + (i + 1)) % n = i + 1
    BY <1>2, Remainder
  <2> QED BY <1>2, <2>1
<1> QED BY <1>1, <1>2

\* A path meets every slot once, one after the other.
LEMMA Path ==
  ASSUME NEW k \in Keys, NEW n \in Nat, n > 0
  PROVE  /\ \A d \in 0..(n - 1) : Probe(k, d, n) \in 0..(n - 1)
         /\ \A d, e \in 0..(n - 1) : Probe(k, d, n) = Probe(k, e, n) => d = e
         /\ \A i \in 0..(n - 1) : \E d \in 0..(n - 1) : Probe(k, d, n) = i
         /\ \A d \in 0..(n - 2) : Probe(k, d + 1, n) = (Probe(k, d, n) + 1) % n
<1> DEFINE r == Hash[k] % n
<1>1. r \in 0..(n - 1)
  BY ProbeIs
<1>2. \A d \in 0..n : Probe(k, d, n) = IF r + d < n THEN r + d
                                       ELSE IF r + d < 2 * n THEN r + d - n ELSE r + d - 2 * n
  BY ProbeIs
<1> HIDE DEF r
<1>3. \A d \in 0..(n - 1) : Probe(k, d, n) = IF r + d < n THEN r + d ELSE r + d - n
  BY <1>1, <1>2
<1>4. \A d \in 0..(n - 1) : Probe(k, d, n) \in 0..(n - 1)
  BY <1>1, <1>3
<1>5. ASSUME NEW i \in 0..(n - 1) PROVE \E d \in 0..(n - 1) : Probe(k, d, n) = i
  <2>1. CASE r <= i
    <3>1. i - r \in 0..(n - 1) /\ Probe(k, i - r, n) = i
      BY <1>1, <1>3, <2>1
    <3> QED BY <3>1
  <2>2. CASE i < r
    <3>1. i - r + n \in 0..(n - 1) /\ Probe(k, i - r + n, n) = i
      BY <1>1, <1>3, <2>2
    <3> QED BY <3>1
  <2> QED BY <1>1, <2>1, <2>2
<1>6. ASSUME NEW d \in 0..(n - 2) PROVE Probe(k, d + 1, n) = (Probe(k, d, n) + 1) % n
  <2>1. d \in 0..(n - 1) /\ d + 1 \in 0..(n - 1)
    OBVIOUS
  <2>2. (Probe(k, d, n) + 1) % n = IF Probe(k, d, n) = n - 1 THEN 0 ELSE Probe(k, d, n) + 1
    BY <1>4, <2>1, NextSlot
  <2> QED BY <1>1, <1>3, <2>1, <2>2
<1>7. ASSUME NEW d \in 0..(n - 1), NEW e \in 0..(n - 1), Probe(k, d, n) = Probe(k, e, n)
      PROVE  d = e
  BY <1>1, <1>3, <1>7
<1> QED BY <1>4, <1>5, <1>6, <1>7

-----------------------------------------------------------------------------
(* The slots of a table.                                                    *)

Slots    == [key : Keys, exp : Exps, cost : Costs] \cup {Empty, Tomb}
Width(q) == Cardinality(DOMAIN q)

\* The slots are numbered from 0.
Table(q) == Width(q) \in Nat /\ Width(q) >= 2 /\ q \in [0..(Width(q) - 1) -> Slots]

\* No key has two items.
Unique(q) == \A i, j \in DOMAIN q : q[i].key \in Keys /\ q[i].key = q[j].key => i = j

\* No slot before distance d on the path of k is empty.
Reached(q, k, d) == \A e \in 0..(d - 1) : q[Probe(k, e, Width(q))] # Empty

\* The path of an item is not cut before it.
Paths(q) ==
  \A k \in Keys : \A d \in 0..(Width(q) - 1) :
    q[Probe(k, d, Width(q))].key = k => Reached(q, k, d)

Sound(q) == Table(q) /\ Unique(q) /\ Paths(q)
Room(q)  == \E i \in DOMAIN q : q[i] = Empty

\* The kinds of slots.
LEMMA SlotIs ==
  ASSUME NEW s \in Slots
  PROVE  /\ IsItem(s) <=> s \notin {Empty, Tomb}
         /\ s.exp \in Exps /\ s.exp \in Nat /\ s.cost \in Nat
         /\ IsItem(s) => s = Slot(s.key, s.exp, s.cost) /\ s.key \in Keys /\ s.cost \in Costs
         /\ ~ IsItem(s) => s.exp = 0 /\ s.cost = 0
         /\ Empty # Tomb /\ Empty.key \notin Keys /\ Tomb.key \notin Keys
<1>1. MaxExp \in Nat /\ Costs \subseteq Nat
  BY SizeAssumption
<1>2. Empty.key \notin Keys /\ Tomb.key \notin Keys /\ Empty.key # Tomb.key
  BY HashAssumption DEF Empty, Tomb, Slot
<1>3. CASE s \in [key : Keys, exp : Exps, cost : Costs]
  BY <1>1, <1>2, <1>3 DEF Exps, IsItem, Slot
<1>4. CASE s \in {Empty, Tomb}
  BY <1>1, <1>2, <1>4 DEF Exps, IsItem, Empty, Tomb, Slot
<1> QED BY <1>3, <1>4 DEF Slots

\* A position and its content.
LEMMA TableIs ==
  ASSUME NEW q, Table(q)
  PROVE  /\ DOMAIN q = 0..(Width(q) - 1)
         /\ \A i \in DOMAIN q : q[i] \in Slots
         /\ \A k \in Keys : \A d \in 0..(Width(q) - 1) :
              /\ Probe(k, d, Width(q)) \in DOMAIN q /\ q[Probe(k, d, Width(q))] \in Slots
              /\ d < Width(q) - 1 => Probe(k, d + 1, Width(q)) = (Probe(k, d, Width(q)) + 1) % Width(q)
         /\ \A k \in Keys : \A i \in DOMAIN q :
              \E d \in 0..(Width(q) - 1) : Probe(k, d, Width(q)) = i
         /\ \A k \in Keys : \A d, e \in 0..(Width(q) - 1) :
              Probe(k, d, Width(q)) = Probe(k, e, Width(q)) => d = e
<1>1. Width(q) \in Nat /\ Width(q) > 0 /\ DOMAIN q = 0..(Width(q) - 1)
      /\ \A i \in DOMAIN q : q[i] \in Slots
  BY DEF Table
<1> DEFINE n == Width(q)
<1> HIDE DEF n
<1>2. ASSUME NEW k \in Keys
      PROVE  /\ \A d \in 0..(n - 1) : Probe(k, d, n) \in 0..(n - 1)
             /\ \A d, e \in 0..(n - 1) : Probe(k, d, n) = Probe(k, e, n) => d = e
             /\ \A i \in 0..(n - 1) : \E d \in 0..(n - 1) : Probe(k, d, n) = i
             /\ \A d \in 0..(n - 1) : d < n - 1 => Probe(k, d + 1, n) = (Probe(k, d, n) + 1) % n
  <2>1. n \in Nat /\ n > 0
    BY <1>1 DEF n
  <2>2. \A d \in 0..(n - 1) : d < n - 1 => d \in 0..(n - 2)
    BY <2>1
  <2> QED BY <2>1, <2>2, Path
<1> QED BY <1>1, <1>2 DEF n

\* Two distances on a path are two slots.
LEMMA SamePlace ==
  ASSUME NEW q, Table(q), NEW k \in Keys, NEW d \in 0..(Width(q) - 1), NEW e \in 0..(Width(q) - 1),
         Probe(k, d, Width(q)) = Probe(k, e, Width(q))
  PROVE  d = e
BY TableIs

\* A free slot that an item with key k can be put into.
FreeFor(q, k, p) ==
  \E d \in 0..(Width(q) - 1) :
    /\ p = Probe(k, d, Width(q)) /\ q[p] \in {Empty, Tomb} /\ Reached(q, k, d)
    /\ \A e \in 0..(d - 1) : q[Probe(k, e, Width(q))].key # k

\* What find promises.
FoundIn(q, k, idx, ins) ==
  /\ \/ idx = -1 /\ \A i \in DOMAIN q : q[i].key # k
     \/ idx \in DOMAIN q /\ q[idx].key = k
  /\ ins = -1 \/ FreeFor(q, k, ins)
  /\ idx = -1 => ins # -1

\* The distances at which the loop of find may end, and those of free slots.
Stops(q, k) == {d \in 0..(Width(q) - 1) : \/ q[Probe(k, d, Width(q))] = Empty
                                          \/ q[Probe(k, d, Width(q))].key = k}
Frees(q, k) == {d \in 0..(Width(q) - 1) : q[Probe(k, d, Width(q))] \in {Empty, Tomb}}

\* Find is what its definition says.
LEMMA FindUnfolds ==
  ASSUME NEW t, NEW k
  PROVE  /\ Find(t, k).idx = LET at == Probe(k, Min(Stops(t.slots, k)), Width(t.slots))
                             IN  IF t.slots[at] = Empty THEN -1 ELSE at
         /\ Find(t, k).ins = IF \/ Frees(t.slots, k) = {}
                                \/ Min(Frees(t.slots, k)) > Min(Stops(t.slots, k)) THEN -1
                             ELSE Probe(k, Min(Frees(t.slots, k)), Width(t.slots))
         /\ Ends(t.slots, k) <=> Stops(t.slots, k) # {}
<1> DEFINE n == Width(t.slots)
<1>1. ASSUME NEW stop, NEW free, NEW at, NEW min,
             stop = Min(Stops(t.slots, k)), free = Frees(t.slots, k),
             at = Probe(k, stop, n), min = Min(free)
      PROVE  Find(t, k) = [idx |-> IF t.slots[at] = Empty THEN -1 ELSE at,
                           ins |-> IF free = {} \/ min > stop THEN -1 ELSE Probe(k, min, n)]
  BY <1>1 DEF Find, Distances, With, Size, Width, Stops, Frees
<1>2. Ends(t.slots, k) <=> Stops(t.slots, k) # {}
  BY DEF Ends, Distances, Width, Stops
<1> HIDE DEF n
<1>3. Find(t, k) = LET stop == Min(Stops(t.slots, k))
                       free == Frees(t.slots, k)
                       at == Probe(k, stop, n)
                       min == Min(free)
                   IN  [idx |-> IF t.slots[at] = Empty THEN -1 ELSE at,
                        ins |-> IF free = {} \/ min > stop THEN -1 ELSE Probe(k, min, n)]
  BY <1>1
<1> QED BY <1>2, <1>3 DEF n

\* find finds the key, or finds that it is not there; its loop ends.
LEMMA FindIs ==
  ASSUME NEW t, Sound(t.slots), Room(t.slots), NEW k \in Keys
  PROVE  /\ FoundIn(t.slots, k, Find(t, k).idx, Find(t, k).ins)
         /\ Ends(t.slots, k)
<1> DEFINE q == t.slots
           n == Width(q)
           S == Stops(q, k)
           F == Frees(q, k)
           stop == Min(S)
           least == Min(F)
           at == Probe(k, stop, n)
           idx == IF q[at] = Empty THEN -1 ELSE at
           ins == IF F = {} \/ least > stop THEN -1 ELSE Probe(k, least, n)
<1>1. Find(t, k).idx = idx /\ Find(t, k).ins = ins /\ (Ends(q, k) <=> S # {})
  BY FindUnfolds
<1>2. Table(q) /\ Unique(q) /\ Paths(q) /\ n \in Nat
  BY DEF Sound, Table
<1>3. /\ DOMAIN q = 0..(n - 1)
      /\ \A i \in DOMAIN q : q[i] \in Slots
      /\ \A d \in 0..(n - 1) : Probe(k, d, n) \in DOMAIN q /\ q[Probe(k, d, n)] \in Slots
      /\ \A i \in DOMAIN q : \E d \in 0..(n - 1) : Probe(k, d, n) = i
  BY <1>2, TableIs
<1>4. S # {}
  <2>1. PICK i \in DOMAIN q : q[i] = Empty
    BY DEF Room
  <2>2. PICK d \in 0..(n - 1) : Probe(k, d, n) = i
    BY <1>3
  <2> QED BY <2>1, <2>2 DEF Stops
<1>5. stop \in S /\ \A d \in S : stop <= d
  <2>1. S \in SUBSET Nat
    BY <1>2 DEF Stops
  <2> QED BY <1>4, <2>1, MinIs
<1>6. F # {} => least \in F /\ \A d \in F : least <= d
  <2>1. F \in SUBSET Nat
    BY <1>2 DEF Frees
  <2> QED BY <2>1, MinIs
<1>8. stop \in 0..(n - 1) /\ at \in DOMAIN q /\ q[at] \in Slots /\ (q[at] = Empty \/ q[at].key = k)
  BY <1>3, <1>5 DEF Stops
<1>9. \A e \in 0..(stop - 1) : e \in 0..(n - 1) /\ q[Probe(k, e, n)] # Empty /\ q[Probe(k, e, n)].key # k
  <2>1. \A e \in 0..(stop - 1) : e \in 0..(n - 1) /\ e \notin S
    BY <1>2, <1>5, <1>8
  <2> QED BY <2>1 DEF Stops
<1> HIDE DEF S, F, stop, least
<1>11. \/ idx = -1 /\ \A i \in DOMAIN q : q[i].key # k
       \/ idx \in DOMAIN q /\ q[idx].key = k
  <2>1. CASE q[at] # Empty
    BY <1>8, <2>1
  <2>2. CASE q[at] = Empty
    <3>1. ASSUME NEW i \in DOMAIN q, q[i].key = k PROVE FALSE
      <4>1. PICK d \in 0..(n - 1) : Probe(k, d, n) = i
        BY <1>3
      <4>2. stop <= d
        BY <1>5, <3>1, <4>1 DEF S, Stops
      <4>3. stop # d
        <5>1. q[i] # Empty
          BY <3>1, HashAssumption DEF Empty, Slot
        <5> QED BY <2>2, <4>1, <5>1
      <4>4. Reached(q, k, d)
        BY <1>2, <3>1, <4>1 DEF Paths
      <4>5. stop \in 0..(d - 1)
        BY <1>8, <4>2, <4>3
      <4> QED BY <2>2, <4>4, <4>5 DEF Reached
    <3>2. \A i \in DOMAIN q : q[i].key # k
      BY <3>1
    <3>3. idx = -1
      BY <2>2
    <3> HIDE DEF idx
    <3> QED BY <3>2, <3>3
  <2> QED BY <2>1, <2>2
<1>12. ins = -1 \/ FreeFor(q, k, ins)
  <2>1. CASE F = {} \/ least > stop
    BY <2>1
  <2>2. CASE ~ (F = {} \/ least > stop)
    <3>1. least \in 0..(n - 1) /\ least <= stop /\ q[Probe(k, least, n)] \in {Empty, Tomb}
      BY <1>2, <1>6, <1>8, <2>2 DEF F, Frees
    <3>2. Reached(q, k, least) /\ \A e \in 0..(least - 1) : q[Probe(k, e, n)].key # k
      <4>1. \A e \in 0..(least - 1) : e \in 0..(stop - 1)
        BY <1>8, <3>1
      <4> QED BY <1>9, <4>1 DEF Reached
    <3>3. ins = Probe(k, least, n)
      BY <2>2
    <3> QED BY <3>1, <3>2, <3>3 DEF FreeFor
  <2> QED BY <2>1, <2>2
<1>13. idx = -1 => ins # -1
  <2>1. ASSUME q[at] = Empty PROVE ins # -1
    <3>1. stop \in F
      BY <1>8, <2>1 DEF F, Frees
    <3>2. least <= stop /\ least \in 0..(n - 1) /\ ~ (least > stop) /\ F # {}
      <4>1. least \in F /\ least <= stop
        BY <1>6, <3>1
      <4>2. least \in 0..(n - 1)
        BY <4>1 DEF F, Frees
      <4> QED BY <1>2, <1>8, <3>1, <4>1, <4>2
    <3>3. ins = Probe(k, least, n)
      BY <3>2
    <3>4. Probe(k, least, n) \in 0..(n - 1)
      BY <1>3, <3>2
    <3> QED BY <3>3, <3>4
  <2>2. at # -1
    BY <1>3, <1>8
  <2> QED BY <2>1, <2>2
<1> HIDE DEF idx, ins
<1> QED BY <1>1, <1>4, <1>11, <1>12, <1>13 DEF FoundIn

\* So every item is where find looks for it.
LEMMA FindsItems ==
  ASSUME NEW t, Sound(t.slots), Room(t.slots), NEW i \in DOMAIN t.slots, IsItem(t.slots[i])
  PROVE  Find(t, t.slots[i].key).idx = i
<1> DEFINE k == t.slots[i].key
<1>1. k \in Keys
  BY DEF IsItem
<1>2. FoundIn(t.slots, k, Find(t, k).idx, Find(t, k).ins)
  BY <1>1, FindIs
<1> QED BY <1>1, <1>2 DEF FoundIn, Sound, Unique

-----------------------------------------------------------------------------
(* One slot changes.                                                        *)

\* Slot p gets s.
Put(q, p, s) == [q EXCEPT ![p] = s]

\* The changed array.
LEMMA Changed ==
  ASSUME NEW q, Table(q), NEW p \in DOMAIN q, NEW s \in Slots
  PROVE  /\ Table(Put(q, p, s)) /\ Width(Put(q, p, s)) = Width(q)
         /\ DOMAIN Put(q, p, s) = DOMAIN q
         /\ Put(q, p, s)[p] = s /\ \A i \in DOMAIN q : i # p => Put(q, p, s)[i] = q[i]
BY DEF Table, Width, Put

\* del keeps the paths: the slot before an empty one is on nobody's way.
LEMMA DelSound ==
  ASSUME NEW q, Sound(q), NEW p \in DOMAIN q, IsItem(q[p]), NEW r,
         r = Put(q, p, IF q[(p + 1) % Width(q)] = Empty THEN Empty ELSE Tomb)
  PROVE  Sound(r)
<1>1. Table(q) /\ Unique(q) /\ Paths(q) /\ Width(q) \in Nat
  BY DEF Sound, Table
<1> DEFINE s == IF q[(p + 1) % Width(q)] = Empty THEN Empty ELSE Tomb
<1>2. s \in Slots /\ s.key \notin Keys
  BY HashAssumption DEF Slots, Empty, Tomb, Slot
<1>3. /\ Table(r) /\ Width(r) = Width(q) /\ DOMAIN r = DOMAIN q
      /\ r[p] = s /\ \A i \in DOMAIN q : i # p => r[i] = q[i]
  BY <1>1, <1>2, Changed
<1>4. Unique(r)
  BY <1>1, <1>2, <1>3 DEF Unique
<1>5. ASSUME NEW k \in Keys, NEW d \in 0..(Width(q) - 1), r[Probe(k, d, Width(q))].key = k,
             NEW e \in 0..(d - 1)
      PROVE  r[Probe(k, e, Width(q))] # Empty
  <2> DEFINE n == Width(q)
             y == Probe(k, d, n)
             x == Probe(k, e, n)
  <2>1. /\ e \in 0..(n - 1) /\ e + 1 \in 0..(n - 1) /\ e < n - 1 /\ e + 1 <= d
    BY <1>1
  <2>2. x \in DOMAIN q /\ y \in DOMAIN q /\ q[y] \in Slots
    BY <1>1, <2>1, TableIs
  <2>3. y # p /\ q[y].key = k
    BY <1>2, <1>3, <1>5, <2>2
  <2>4. Reached(q, k, d)
    BY <1>1, <2>3 DEF Paths
  <2>5. q[x] # Empty
    BY <2>4 DEF Reached
  <2>6. CASE x # p
    BY <1>3, <2>2, <2>5, <2>6
  <2>7. CASE x = p
    <3>1. Probe(k, e + 1, n) = (p + 1) % n
      BY <1>1, <2>1, <2>7, TableIs
    <3>2. q[Probe(k, e + 1, n)] # Empty
      <4>1. CASE e + 1 = d
        BY <2>3, <4>1, HashAssumption DEF Empty, Slot
      <4>2. CASE e + 1 # d
        <5>1. e + 1 \in 0..(d - 1)
          BY <2>1, <4>2
        <5> QED BY <2>4, <5>1 DEF Reached
      <4> QED BY <4>1, <4>2
    <3>3. s = Tomb
      BY <3>1, <3>2
    <3> QED BY <1>3, <2>7, <3>3, HashAssumption DEF Empty, Tomb, Slot
  <2> QED BY <2>6, <2>7
<1>6. Paths(r)
  BY <1>3, <1>5 DEF Paths, Reached
<1> QED BY <1>3, <1>4, <1>6 DEF Sound

\* insert puts a key that is not there into a free slot that its path reaches.
LEMMA InsertSound ==
  ASSUME NEW q, Sound(q), NEW s \in Slots, IsItem(s), NEW p, FreeFor(q, s.key, p),
         \A i \in DOMAIN q : q[i].key # s.key, NEW r, r = Put(q, p, s)
  PROVE  Sound(r) /\ p \in DOMAIN q
<1>1. Table(q) /\ Unique(q) /\ Paths(q) /\ Width(q) \in Nat /\ s.key \in Keys
  BY SlotIs DEF Sound, Table
<1>2. PICK f \in 0..(Width(q) - 1) :
        p = Probe(s.key, f, Width(q)) /\ q[p] \in {Empty, Tomb} /\ Reached(q, s.key, f)
  BY DEF FreeFor
<1>3. p \in DOMAIN q
  BY <1>1, <1>2, TableIs
<1>4. /\ Table(r) /\ Width(r) = Width(q) /\ DOMAIN r = DOMAIN q
      /\ r[p] = s /\ \A i \in DOMAIN q : i # p => r[i] = q[i]
  BY <1>1, <1>3, Changed
<1>5. s # Empty
  BY SlotIs
<1>6. Unique(r)
  BY <1>1, <1>4 DEF Unique
<1>7. ASSUME NEW k \in Keys, NEW d \in 0..(Width(q) - 1), r[Probe(k, d, Width(q))].key = k,
             NEW e \in 0..(d - 1)
      PROVE  r[Probe(k, e, Width(q))] # Empty
  <2> DEFINE n == Width(q)
             y == Probe(k, d, n)
             x == Probe(k, e, n)
  <2>0. e \in 0..(n - 1) /\ d \in 0..(n - 1)
    BY <1>1
  <2>1. x \in DOMAIN q /\ y \in DOMAIN q
    BY <1>1, <2>0, TableIs
  <2>2. Reached(q, k, d)
    <3>1. CASE y = p
      <4>1. k = s.key
        BY <1>4, <1>7, <3>1
      <4>2. d = f
        BY <1>1, <1>2, <3>1, <4>1, SamePlace
      <4> QED BY <1>2, <4>1, <4>2
    <3>2. CASE y # p
      <4>1. q[y].key = k
        BY <1>4, <1>7, <2>1, <3>2
      <4> QED BY <1>1, <4>1 DEF Paths
    <3> QED BY <3>1, <3>2
  <2>3. q[x] # Empty
    BY <2>2 DEF Reached
  <2> QED BY <1>4, <1>5, <2>1, <2>3
<1>8. Paths(r)
  BY <1>4, <1>7 DEF Paths, Reached
<1> QED BY <1>3, <1>4, <1>6, <1>8 DEF Sound

\* An item changes in its slot.
LEMMA ChangeSound ==
  ASSUME NEW q, Sound(q), NEW p \in DOMAIN q, NEW s \in Slots, IsItem(s), q[p].key = s.key,
         NEW r, r = Put(q, p, s)
  PROVE  Sound(r)
<1>1. Table(q) /\ Unique(q) /\ Paths(q)
  BY DEF Sound
<1>2. /\ Table(r) /\ Width(r) = Width(q) /\ DOMAIN r = DOMAIN q
      /\ r[p] = s /\ \A i \in DOMAIN q : i # p => r[i] = q[i]
  BY <1>1, Changed
<1>3. s # Empty /\ \A i \in DOMAIN q : r[i].key = q[i].key /\ (q[i] # Empty => r[i] # Empty)
  BY <1>2, SlotIs
<1>4. Unique(r)
  BY <1>1, <1>2, <1>3 DEF Unique
<1>5. Paths(r)
  <2>1. ASSUME NEW k \in Keys, NEW d \in 0..(Width(q) - 1), NEW e \in 0..(d - 1)
        PROVE  Probe(k, d, Width(q)) \in DOMAIN q /\ Probe(k, e, Width(q)) \in DOMAIN q
    <3>1. e \in 0..(Width(q) - 1)
      BY <1>1 DEF Table
    <3> QED BY <1>1, <3>1, TableIs
  <2>2. \A k \in Keys : \A d \in 0..(Width(q) - 1) : Probe(k, d, Width(q)) \in DOMAIN q
    BY <1>1, TableIs
  <2> QED BY <1>1, <1>2, <1>3, <2>1, <2>2 DEF Paths, Reached
<1> QED BY <1>2, <1>4, <1>5 DEF Sound

-----------------------------------------------------------------------------
(* The counters.                                                            *)

One(b) == IF b THEN 1 ELSE 0

IsTimed(s) == IsItem(s) /\ s.exp # 0

ItemsOf(q) == {i \in DOMAIN q : IsItem(q[i])}
TombsOf(q) == {i \in DOMAIN q : q[i] = Tomb}
TimedOf(q) == {i \in DOMAIN q : IsTimed(q[i])}
CostOf(q)  == SumOf([i \in DOMAIN q |-> q[i].cost], DOMAIN q)

\* What the counters of a table count.
Tally(q) == [items |-> Cardinality(ItemsOf(q)), tombs |-> Cardinality(TombsOf(q)),
             timed |-> Cardinality(TimedOf(q)), cost  |-> CostOf(q)]

\* A set that differs at one place.
LEMMA CardChange ==
  ASSUME NEW A, IsFiniteSet(A), NEW B, NEW p, A \ {p} = B \ {p}
  PROVE  /\ IsFiniteSet(B) /\ Cardinality(A) \in Nat /\ Cardinality(B) \in Nat
         /\ Cardinality(B) = Cardinality(A) - One(p \in A) + One(p \in B)
<1> DEFINE C == A \ {p}
<1>1. IsFiniteSet(C) /\ Cardinality(A) \in Nat /\ Cardinality(C) \in Nat
      /\ Cardinality(C) = Cardinality(A) - One(p \in A)
  BY FS_RemoveElement, FS_CardinalityType DEF One
<1>2. B = IF p \in B THEN C \cup {p} ELSE C
  OBVIOUS
<1>3. p \notin C
  OBVIOUS
<1> HIDE DEF C
<1>4. CASE p \in B
  <2>1. IsFiniteSet(C \cup {p}) /\ Cardinality(C \cup {p}) = Cardinality(C) + 1
    BY <1>1, <1>3, FS_AddElement
  <2> QED BY <1>1, <1>2, <1>4, <2>1 DEF One
<1>5. CASE p \notin B
  BY <1>1, <1>2, <1>5 DEF One
<1> QED BY <1>4, <1>5

\* The sets of slots are finite.
LEMMA Finite ==
  ASSUME NEW q, Table(q)
  PROVE  /\ IsFiniteSet(DOMAIN q) /\ Cardinality(DOMAIN q) = Width(q)
         /\ IsFiniteSet(ItemsOf(q)) /\ IsFiniteSet(TombsOf(q)) /\ IsFiniteSet(TimedOf(q))
         /\ Tally(q).items \in Nat /\ Tally(q).tombs \in Nat /\ Tally(q).timed \in Nat
         /\ Tally(q).cost \in Nat
<1>1. IsFiniteSet(DOMAIN q) /\ Cardinality(DOMAIN q) = Width(q)
  BY FS_Interval DEF Table, Width
<1>2. /\ ItemsOf(q) \in SUBSET DOMAIN q /\ TombsOf(q) \in SUBSET DOMAIN q
      /\ TimedOf(q) \in SUBSET DOMAIN q
  BY DEF ItemsOf, TombsOf, TimedOf
<1>3. IsFiniteSet(ItemsOf(q)) /\ IsFiniteSet(TombsOf(q)) /\ IsFiniteSet(TimedOf(q))
  BY <1>1, <1>2, FS_Subset
<1>4. CostOf(q) \in Nat
  <2> DEFINE f == [i \in DOMAIN q |-> q[i].cost]
  <2>1. \A i \in DOMAIN q : f[i] \in Nat
    BY TableIs, SlotIs
  <2> HIDE DEF f
  <2>2. SumOf(f, DOMAIN q) \in Nat
    BY <1>1, <2>1, SumNat
  <2> QED BY <2>2 DEF CostOf, f
<1> QED BY <1>1, <1>3, <1>4, FS_CardinalityType DEF Tally

\* One slot more or less.
LEMMA PutTally ==
  ASSUME NEW q, Table(q), NEW p \in DOMAIN q, NEW s \in Slots, NEW r, r = Put(q, p, s)
  PROVE  /\ Tally(r).items = Tally(q).items - One(IsItem(q[p])) + One(IsItem(s))
         /\ Tally(r).tombs = Tally(q).tombs - One(q[p] = Tomb) + One(s = Tomb)
         /\ Tally(r).timed = Tally(q).timed - One(IsTimed(q[p])) + One(IsTimed(s))
         /\ Tally(r).cost  = Tally(q).cost - q[p].cost + s.cost
<1>1. /\ DOMAIN r = DOMAIN q /\ r[p] = s /\ \A i \in DOMAIN q : i # p => r[i] = q[i]
  BY Changed
<1>2. /\ ItemsOf(q) \ {p} = ItemsOf(r) \ {p} /\ TombsOf(q) \ {p} = TombsOf(r) \ {p}
      /\ TimedOf(q) \ {p} = TimedOf(r) \ {p}
  BY <1>1 DEF ItemsOf, TombsOf, TimedOf
<1>3. /\ One(p \in ItemsOf(q)) = One(IsItem(q[p])) /\ One(p \in ItemsOf(r)) = One(IsItem(s))
      /\ One(p \in TombsOf(q)) = One(q[p] = Tomb) /\ One(p \in TombsOf(r)) = One(s = Tomb)
      /\ One(p \in TimedOf(q)) = One(IsTimed(q[p])) /\ One(p \in TimedOf(r)) = One(IsTimed(s))
  BY <1>1 DEF ItemsOf, TombsOf, TimedOf, One
<1>4. Tally(r).items = Tally(q).items - One(IsItem(q[p])) + One(IsItem(s))
  <2>1. Cardinality(ItemsOf(r)) = Cardinality(ItemsOf(q)) - One(p \in ItemsOf(q)) + One(p \in ItemsOf(r))
    BY <1>2, Finite, CardChange
  <2> QED BY <1>3, <2>1 DEF Tally
<1>5. Tally(r).tombs = Tally(q).tombs - One(q[p] = Tomb) + One(s = Tomb)
  <2>1. Cardinality(TombsOf(r)) = Cardinality(TombsOf(q)) - One(p \in TombsOf(q)) + One(p \in TombsOf(r))
    BY <1>2, Finite, CardChange
  <2> QED BY <1>3, <2>1 DEF Tally
<1>6. Tally(r).timed = Tally(q).timed - One(IsTimed(q[p])) + One(IsTimed(s))
  <2>1. Cardinality(TimedOf(r)) = Cardinality(TimedOf(q)) - One(p \in TimedOf(q)) + One(p \in TimedOf(r))
    BY <1>2, Finite, CardChange
  <2> QED BY <1>3, <2>1 DEF Tally
<1>7. Tally(r).cost = Tally(q).cost - q[p].cost + s.cost
  <2> DEFINE f == [i \in DOMAIN q |-> q[i].cost]
             g == [i \in DOMAIN q |-> r[i].cost]
  <2>1. \A i \in DOMAIN q : f[i] \in Int /\ g[i] \in Int /\ (i # p => g[i] = f[i])
    <3>1. \A i \in DOMAIN q : q[i].cost \in Nat /\ s.cost \in Nat
      BY TableIs, SlotIs
    <3> QED BY <1>1, <3>1
  <2>2. f[p] = q[p].cost /\ g[p] = s.cost
    BY <1>1
  <2>3. Tally(q).cost = SumOf(f, DOMAIN q) /\ Tally(r).cost = SumOf(g, DOMAIN q)
    BY <1>1 DEF Tally, CostOf
  <2> HIDE DEF f, g
  <2>4. SumOf(g, DOMAIN q) = SumOf(f, DOMAIN q) - f[p] + g[p]
    BY <2>1, Finite, SumChange
  <2> QED BY <2>2, <2>3, <2>4
<1> QED BY <1>4, <1>5, <1>6, <1>7

\* A table that is not full of items and tombstones has an empty slot.
LEMMA RoomIs ==
  ASSUME NEW q, Table(q), Tally(q).items + Tally(q).tombs < Width(q)
  PROVE  Room(q)
<1> SUFFICES ASSUME ~ Room(q) PROVE FALSE
  OBVIOUS
<1>1. DOMAIN q = ItemsOf(q) \cup TombsOf(q)
  <2>1. \A i \in DOMAIN q : IsItem(q[i]) \/ q[i] = Tomb
    BY TableIs, SlotIs DEF Room
  <2> QED BY <2>1 DEF ItemsOf, TombsOf
<1>2. Cardinality(DOMAIN q) = Cardinality(ItemsOf(q)) + Cardinality(TombsOf(q))
                              - Cardinality(ItemsOf(q) \cap TombsOf(q))
  BY <1>1, Finite, FS_Union
<1>3. Cardinality(ItemsOf(q) \cap TombsOf(q)) \in Nat
  BY Finite, FS_Intersection, FS_CardinalityType
<1> QED BY <1>2, <1>3, Finite DEF Tally

\* The numbers of an empty table.
LEMMA FreshTally ==
  ASSUME NEW n \in Nat, n >= 2
  PROVE  /\ Sound(Fresh(n)) /\ Width(Fresh(n)) = n
         /\ Tally(Fresh(n)) = [items |-> 0, tombs |-> 0, timed |-> 0, cost |-> 0]
         /\ \A i \in DOMAIN Fresh(n) : Fresh(n)[i] = Empty
<1> DEFINE q == Fresh(n)
<1>1. DOMAIN q = 0..(n - 1) /\ Width(q) = n /\ \A i \in DOMAIN q : q[i] = Empty
  BY FS_Interval DEF Fresh, Width
<1>2. Empty \in Slots /\ ~ IsItem(Empty) /\ Empty # Tomb /\ Empty.cost = 0 /\ Empty.key \notin Keys
  BY SlotIs, HashAssumption DEF Slots, Empty, Slot, IsItem
<1>3. Table(q)
  BY <1>1, <1>2 DEF Table, Fresh
<1>4. Sound(q)
  <2>1. \A k \in Keys : \A d \in 0..(Width(q) - 1) : Probe(k, d, Width(q)) \in DOMAIN q
    BY <1>3, TableIs
  <2> QED BY <1>1, <1>2, <1>3, <2>1 DEF Sound, Unique, Paths
<1>5. ItemsOf(q) = {} /\ TombsOf(q) = {} /\ TimedOf(q) = {}
  BY <1>1, <1>2 DEF ItemsOf, TombsOf, TimedOf, IsTimed
<1>6. CostOf(q) = 0
  <2> DEFINE f == [i \in DOMAIN q |-> q[i].cost]
             z == [i \in DOMAIN q |-> 0]
  <2>1. f = z
    BY <1>1, <1>2
  <2> DEFINE P == {T \in SUBSET DOMAIN q : SumOf(z, T) = 0}
  <2>2. {} \in P
    BY SumEmpty
  <2>3. ASSUME NEW T \in SUBSET DOMAIN q, NEW x \in DOMAIN q \ T, T \in P PROVE T \cup {x} \in P
    <3>1. IsFiniteSet(T)
      BY <1>3, Finite, FS_Subset
    <3>2. \A y \in T \cup {x} : z[y] \in Int
      OBVIOUS
    <3>3. SumOf(z, T \cup {x}) = z[x] + SumOf(z, T)
      BY <3>1, <3>2, SumAdd
    <3> QED BY <2>3, <3>3
  <2>4. \A T \in SUBSET DOMAIN q : T \in P
    <3>1. IsFiniteSet(DOMAIN q)
      BY <1>3, Finite
    <3> HIDE DEF P
    <3> QED BY <2>2, <2>3, <3>1, OverSubsets
  <2> QED BY <2>1, <2>4 DEF CostOf
<1> QED BY <1>1, <1>4, <1>5, <1>6, FS_EmptySet DEF Tally

\* Numbers that are zero do not count.
LEMMA SumZeros ==
  ASSUME NEW S, IsFiniteSet(S), NEW T \in SUBSET S, NEW f,
         \A x \in S : f[x] \in Int /\ (x \notin T => f[x] = 0)
  PROVE  SumOf(f, S) = SumOf(f, T)
<1> DEFINE R == S \ T
           P == {U \in SUBSET R : SumOf(f, T \cup U) = SumOf(f, T)}
<1>1. {} \in P
  BY SumEmpty
<1>2. ASSUME NEW U \in SUBSET R, NEW x \in R \ U, U \in P PROVE U \cup {x} \in P
  <2>1. T \cup U \in SUBSET S /\ x \notin T \cup U /\ T \cup (U \cup {x}) = (T \cup U) \cup {x}
    OBVIOUS
  <2>2. IsFiniteSet(T \cup U) /\ SumOf(f, T \cup U) \in Int
    BY <2>1, FS_Subset, SumType
  <2>3. SumOf(f, (T \cup U) \cup {x}) = f[x] + SumOf(f, T \cup U)
    BY <2>1, <2>2, SumAdd
  <2>4. SumOf(f, T \cup U) = SumOf(f, T) /\ f[x] = 0
    BY <1>2
  <2>5. SumOf(f, (T \cup U) \cup {x}) = SumOf(f, T)
    BY <2>2, <2>3, <2>4
  <2> QED BY <2>1, <2>5
<1>3. \A U \in SUBSET R : U \in P
  <2>1. IsFiniteSet(R)
    BY FS_Subset
  <2> HIDE DEF P, R
  <2> QED BY <1>1, <1>2, <2>1, OverSubsets
<1>4. R \in P
  <2>1. R \in SUBSET R
    OBVIOUS
  <2> HIDE DEF P, R
  <2> QED BY <1>3, <2>1
<1>5. T \cup R = S /\ SumOf(f, T \cup R) = SumOf(f, T)
  BY <1>4
<1> QED BY <1>5

\* The sum that the counters are compared with.
LEMMA CostIs ==
  ASSUME NEW t, Table(t.slots)
  PROVE  SumFunction([i \in Items(t) |-> t.slots[i].cost]) = CostOf(t.slots)
<1> DEFINE q == t.slots
           S == ItemsOf(q)
           f == [i \in DOMAIN q |-> q[i].cost]
           g == [i \in S |-> q[i].cost]
<1>1. Items(t) = S /\ S \subseteq DOMAIN q
  BY DEF Items, ItemsOf
<1>2. SumFunction([i \in Items(t) |-> q[i].cost]) = SumOf(g, S)
  BY <1>1 DEF SumFunction, SumOf
<1>3. \A i \in DOMAIN q : f[i] \in Int /\ (i \notin S => f[i] = 0)
  <2>1. \A i \in DOMAIN q : q[i].cost \in Nat /\ (~ IsItem(q[i]) => q[i].cost = 0)
    BY TableIs, SlotIs
  <2> QED BY <2>1 DEF ItemsOf
<1>4. \A i \in S : g[i] \in Int /\ g[i] = f[i]
  BY <1>1, <1>3
<1>5. IsFiniteSet(DOMAIN q) /\ IsFiniteSet(S)
  BY Finite
<1>6. CostOf(q) = SumOf(f, DOMAIN q)
  BY DEF CostOf
<1> HIDE DEF f, g, S
<1>7. SumOf(g, S) = SumOf(f, S)
  BY <1>4, <1>5, SumSame
<1>8. SumOf(f, DOMAIN q) = SumOf(f, S)
  BY <1>1, <1>3, <1>5, SumZeros
<1> QED BY <1>2, <1>6, <1>7, <1>8

-----------------------------------------------------------------------------
(* The items of a table, wherever they are, and the map that they make.     *)

Contents(q) == {q[i] : i \in ItemsOf(q)}

\* No key has two items.
Distinct(C) == \A s, u \in C : s.key = u.key => s = u

\* Items, and not other slots.
AreItems(C) == \A s \in C : s \in Slots /\ IsItem(s)

Value(s) == [exp |-> s.exp, cost |-> s.cost]

MapOf(C) == [k \in {s.key : s \in C} |-> Value(CHOOSE s \in C : s.key = k)]

\* The items of a sound table.
LEMMA ContentsAre ==
  ASSUME NEW q, Sound(q)
  PROVE  /\ AreItems(Contents(q)) /\ Distinct(Contents(q))
         /\ \A i \in DOMAIN q : IsItem(q[i]) => q[i] \in Contents(q)
         /\ \A s \in Contents(q) : \E i \in DOMAIN q : q[i] = s
<1>1. \A i \in DOMAIN q : q[i] \in Slots
  BY TableIs DEF Sound
<1> QED BY <1>1 DEF Sound, Unique, AreItems, Distinct, Contents, ItemsOf, IsItem

\* The map of some items.
LEMMA MapIs ==
  ASSUME NEW C, Distinct(C)
  PROVE  /\ DOMAIN MapOf(C) = {s.key : s \in C}
         /\ \A s \in C : s.key \in DOMAIN MapOf(C) /\ MapOf(C)[s.key] = Value(s)
         /\ \A k \in DOMAIN MapOf(C) : \E s \in C : s.key = k /\ MapOf(C)[k] = Value(s)
<1>1. ASSUME NEW k, NEW s \in C, s.key = k PROVE (CHOOSE x \in C : x.key = k) = s
  BY <1>1 DEF Distinct
<1> QED BY <1>1 DEF MapOf

\* Two maps with the same values.
LEMMA SameMap ==
  ASSUME NEW C, Distinct(C), NEW m, NEW D, m = [k \in D |-> m[k]],
         \A s \in C : s.key \in D /\ m[s.key] = Value(s),
         \A k \in D : \E s \in C : s.key = k
  PROVE  MapOf(C) = m
<1>1. DOMAIN MapOf(C) = D
  <2>1. DOMAIN MapOf(C) = {s.key : s \in C}
    BY MapIs
  <2> QED BY <2>1
<1>2. ASSUME NEW k \in D PROVE MapOf(C)[k] = m[k]
  <2>1. PICK s \in C : s.key = k
    OBVIOUS
  <2>2. MapOf(C)[s.key] = Value(s)
    BY MapIs
  <2> QED BY <2>1, <2>2
<1>3. MapOf(C) = [k \in D |-> MapOf(C)[k]]
  BY <1>1 DEF MapOf
<1> QED BY <1>2, <1>3

\* Keys go away.
LEMMA MapWithout ==
  ASSUME NEW C, Distinct(C), NEW K
  PROVE  /\ MapOf({s \in C : s.key \notin K}) = [k \in DOMAIN MapOf(C) \ K |-> MapOf(C)[k]]
         /\ Distinct({s \in C : s.key \notin K})
<1> DEFINE R == {s \in C : s.key \notin K}
           D == DOMAIN MapOf(C) \ K
           m == [k \in D |-> MapOf(C)[k]]
<1>1. Distinct(R)
  BY DEF Distinct
<1>2. \A s \in R : s.key \in D /\ m[s.key] = Value(s)
  <2>1. \A s \in C : s.key \in DOMAIN MapOf(C) /\ MapOf(C)[s.key] = Value(s)
    BY MapIs
  <2> QED BY <2>1
<1>3. ASSUME NEW k \in D PROVE \E s \in R : s.key = k
  <2>1. PICK s \in C : s.key = k
    BY MapIs
  <2>2. s \in R
    BY <2>1
  <2> QED BY <2>1, <2>2
<1>4. m = [k \in D |-> m[k]]
  OBVIOUS
<1> HIDE DEF R, D, m
<1>5. MapOf(R) = m
  BY <1>1, <1>2, <1>3, <1>4, SameMap
<1> QED BY <1>1, <1>5 DEF R, D, m

\* A key gets a value.
LEMMA MapWith ==
  ASSUME NEW C, Distinct(C), NEW u
  PROVE  /\ MapOf({s \in C : s.key # u.key} \cup {u})
              = [k \in DOMAIN MapOf(C) \cup {u.key} |-> IF k = u.key THEN Value(u) ELSE MapOf(C)[k]]
         /\ Distinct({s \in C : s.key # u.key} \cup {u})
<1> DEFINE R == {s \in C : s.key # u.key} \cup {u}
           D == DOMAIN MapOf(C) \cup {u.key}
           m == [k \in D |-> IF k = u.key THEN Value(u) ELSE MapOf(C)[k]]
<1>1. Distinct(R)
  BY DEF Distinct
<1>2. /\ \A s \in C : s.key \in DOMAIN MapOf(C) /\ MapOf(C)[s.key] = Value(s)
      /\ \A k \in DOMAIN MapOf(C) : \E s \in C : s.key = k
  BY MapIs
<1>3. \A s \in R : s.key \in D /\ m[s.key] = Value(s)
  BY <1>2
<1>4. ASSUME NEW k \in D PROVE \E s \in R : s.key = k
  <2>1. CASE k = u.key
    BY <2>1
  <2>2. CASE k # u.key
    <3>1. PICK s \in C : s.key = k
      BY <1>2, <2>2
    <3>2. s \in R
      BY <2>2, <3>1
    <3> QED BY <3>1, <3>2
  <2> QED BY <2>1, <2>2
<1>5. m = [k \in D |-> m[k]]
  OBVIOUS
<1> HIDE DEF R, D, m
<1>6. MapOf(R) = m
  BY <1>1, <1>3, <1>4, <1>5, SameMap
<1> QED BY <1>1, <1>6 DEF R, D, m

-----------------------------------------------------------------------------
(* The invariant of a table, and one slot's change with its counters.       *)

\* A table has these six parts.
Parts(t) ==
  t = [slots |-> t.slots, count |-> t.count, tombs |-> t.tombs, used |-> t.used,
       nexp |-> t.nexp, expCur |-> t.expCur]

Counted(t) ==
  /\ t.count = Tally(t.slots).items /\ t.tombs = Tally(t.slots).tombs
  /\ t.nexp = Tally(t.slots).timed  /\ t.used = Tally(t.slots).cost

\* Items and tombstones never take more than three quarters of the slots.
Loaded(t) == (t.count + t.tombs) * 4 <= 3 * Width(t.slots)

TableInv(t) ==
  /\ Parts(t) /\ Sound(t.slots) /\ Counted(t) /\ Loaded(t)
  /\ IsSize(Width(t.slots)) /\ t.expCur \in 0..Width(t.slots)

\* Slot p gets s, and the counters follow.
Changing(t, p, s) ==
  [slots  |-> Put(t.slots, p, s),
   count  |-> t.count - One(IsItem(t.slots[p])) + One(IsItem(s)),
   tombs  |-> t.tombs - One(t.slots[p] = Tomb) + One(s = Tomb),
   used   |-> t.used - t.slots[p].cost + s.cost,
   nexp   |-> t.nexp - One(IsTimed(t.slots[p])) + One(IsTimed(s)),
   expCur |-> t.expCur]

\* The counters of a table are natural numbers.
LEMMA CountersNat ==
  ASSUME NEW t, TableInv(t)
  PROVE  /\ t.count \in Nat /\ t.tombs \in Nat /\ t.used \in Nat /\ t.nexp \in Nat
         /\ Table(t.slots) /\ Width(t.slots) \in Nat /\ Width(t.slots) >= 2
         /\ t.expCur \in Nat /\ t.expCur <= Width(t.slots)
BY Finite DEF TableInv, Counted, Sound, Table

\* There is room in a table.
LEMMA TableRoom ==
  ASSUME NEW t, TableInv(t)
  PROVE  Room(t.slots)
<1>1. /\ t.count \in Nat /\ t.tombs \in Nat /\ Table(t.slots)
      /\ Width(t.slots) \in Nat /\ Width(t.slots) >= 2
  BY CountersNat
<1>2. t.count + t.tombs < Width(t.slots)
  BY <1>1 DEF TableInv, Loaded
<1> QED BY <1>1, <1>2, RoomIs DEF TableInv, Counted

\* The counters follow.
LEMMA ChangingCounted ==
  ASSUME NEW t, TableInv(t), NEW p \in DOMAIN t.slots, NEW s \in Slots, NEW u, u = Changing(t, p, s)
  PROVE  Parts(u) /\ Counted(u) /\ Table(u.slots) /\ Width(u.slots) = Width(t.slots)
<1> DEFINE q == t.slots
           r == Put(q, p, s)
<1>1. Table(q) /\ Parts(t) /\ Counted(t)
  BY DEF TableInv, Sound
<1>2. u.slots = r /\ Parts(u)
  BY DEF Changing, Parts
<1>3. Table(r) /\ Width(r) = Width(q)
  BY <1>1, Changed
<1>4. /\ Tally(r).items = Tally(q).items - One(IsItem(q[p])) + One(IsItem(s))
      /\ Tally(r).tombs = Tally(q).tombs - One(q[p] = Tomb) + One(s = Tomb)
      /\ Tally(r).timed = Tally(q).timed - One(IsTimed(q[p])) + One(IsTimed(s))
      /\ Tally(r).cost  = Tally(q).cost - q[p].cost + s.cost
  BY <1>1, PutTally
<1>5. /\ u.count = t.count - One(IsItem(q[p])) + One(IsItem(s))
      /\ u.tombs = t.tombs - One(q[p] = Tomb) + One(s = Tomb)
      /\ u.nexp = t.nexp - One(IsTimed(q[p])) + One(IsTimed(s))
      /\ u.used = t.used - q[p].cost + s.cost
  BY DEF Changing
<1> HIDE DEF r
<1>6. Counted(u)
  BY <1>1, <1>2, <1>4, <1>5 DEF Counted
<1> QED BY <1>2, <1>3, <1>6

\* What it does to the contents.
LEMMA ChangingContents ==
  ASSUME NEW q, Sound(q), NEW p \in DOMAIN q, NEW s \in Slots, NEW r, r = Put(q, p, s)
  PROVE  Contents(r) = {x \in Contents(q) : x # q[p]} \cup (IF IsItem(s) THEN {s} ELSE {})
<1>1. /\ DOMAIN r = DOMAIN q /\ r[p] = s /\ \A i \in DOMAIN q : i # p => r[i] = q[i]
  BY Changed DEF Sound
<1>2. \A i \in DOMAIN q : IsItem(q[i]) /\ q[i] = q[p] => i = p
  BY DEF Sound, Unique, IsItem
<1> QED BY <1>1, <1>2 DEF Contents, ItemsOf

-----------------------------------------------------------------------------
(* The operations on one slot.                                              *)

\* del.
LEMMA DelIs ==
  ASSUME NEW t, TableInv(t), NEW i \in DOMAIN t.slots, IsItem(t.slots[i]), NEW u, u = Del(t, i)
  PROVE  /\ TableInv(u) /\ Width(u.slots) = Width(t.slots)
         /\ u.count = t.count - 1 /\ u.count + u.tombs <= t.count + t.tombs
         /\ u.slots = Put(t.slots, i, IF t.slots[(i + 1) % Width(t.slots)] = Empty THEN Empty ELSE Tomb)
         /\ Contents(u.slots) = {x \in Contents(t.slots) : x # t.slots[i]}
         /\ u.expCur = t.expCur
<1> DEFINE q == t.slots
           open == q[(i + 1) % Width(q)] = Empty
           s == IF open THEN Empty ELSE Tomb
<1>1. Parts(t) /\ Sound(q) /\ Table(q) /\ Size(t) = Width(q) /\ q[i] \in Slots
  BY TableIs DEF TableInv, Sound, Size, Width
<1>2. /\ t.count \in Nat /\ t.tombs \in Nat /\ t.used \in Nat /\ t.nexp \in Nat
      /\ Width(q) \in Nat /\ q[i].cost \in Nat
  BY <1>1, CountersNat, SlotIs
<1>3. /\ s \in Slots /\ ~ IsItem(s) /\ s.cost = 0 /\ q[i] # Tomb
      /\ One(s = Tomb) = IF open THEN 0 ELSE 1
  BY <1>1, SlotIs, HashAssumption DEF One, Slots, Empty, Tomb, Slot, IsItem
<1>4. u = [slots |-> Put(q, i, s), count |-> t.count - 1,
           tombs |-> IF open THEN t.tombs ELSE t.tombs + 1, used |-> t.used - q[i].cost,
           nexp |-> IF q[i].exp # 0 THEN t.nexp - 1 ELSE t.nexp, expCur |-> t.expCur]
  BY <1>1 DEF Del, Parts, Put
<1>5. /\ One(IsItem(q[i])) = 1 /\ One(IsItem(s)) = 0 /\ One(q[i] = Tomb) = 0
      /\ One(IsTimed(q[i])) = (IF q[i].exp # 0 THEN 1 ELSE 0) /\ One(IsTimed(s)) = 0
  BY <1>3 DEF One, IsTimed
<1>6. u = Changing(t, i, s)
  <2> HIDE DEF s, open
  <2>1. t.count - 1 = t.count - One(IsItem(q[i])) + One(IsItem(s))
    BY <1>2, <1>3 DEF One
  <2>2. (IF open THEN t.tombs ELSE t.tombs + 1) = t.tombs - One(q[i] = Tomb) + One(s = Tomb)
    BY <1>2, <1>3, <1>5
  <2>3. t.used - q[i].cost = t.used - q[i].cost + s.cost
    BY <1>2, <1>3
  <2>4. (IF q[i].exp # 0 THEN t.nexp - 1 ELSE t.nexp)
             = t.nexp - One(IsTimed(q[i])) + One(IsTimed(s))
    BY <1>2, <1>5
  <2> QED BY <1>4, <2>1, <2>2, <2>3, <2>4 DEF Changing
<1>7. Parts(u) /\ Counted(u) /\ Table(u.slots) /\ Width(u.slots) = Width(q)
  BY <1>3, <1>6, ChangingCounted
<1>8. u.slots = Put(q, i, s) /\ u.count = t.count - 1 /\ u.expCur = t.expCur
      /\ u.tombs = (IF open THEN t.tombs ELSE t.tombs + 1)
  BY <1>4
<1>9. Sound(u.slots)
  BY <1>1, <1>8, DelSound
<1>10. u.count + u.tombs <= t.count + t.tombs
  BY <1>2, <1>8
<1>11. Loaded(u)
  <2>1. u.count \in Int /\ u.tombs \in Int /\ (t.count + t.tombs) * 4 <= 3 * Width(q)
    BY <1>2, <1>8 DEF TableInv, Loaded
  <2> QED BY <1>2, <1>7, <1>10, <2>1 DEF Loaded
<1>12. Contents(u.slots) = {x \in Contents(q) : x # q[i]}
  BY <1>1, <1>3, <1>8, ChangingContents
<1> QED BY <1>7, <1>8, <1>9, <1>10, <1>11, <1>12 DEF TableInv

\* insert, when grow was called before it.
LEMMA InsertIs ==
  ASSUME NEW t, TableInv(t), (t.count + t.tombs + 1) * 4 <= 3 * Width(t.slots),
         NEW s \in Slots, IsItem(s), NEW p, FreeFor(t.slots, s.key, p),
         \A i \in DOMAIN t.slots : t.slots[i].key # s.key, NEW u, u = Insert(t, p, s)
  PROVE  /\ TableInv(u) /\ Contents(u.slots) = Contents(t.slots) \cup {s}
<1> DEFINE q == t.slots
<1>1. Parts(t) /\ Sound(q) /\ Table(q) /\ s.cost \in Nat /\ s.exp \in Nat
  BY SlotIs DEF TableInv, Sound
<1>2. /\ t.count \in Nat /\ t.tombs \in Nat /\ t.used \in Nat /\ t.nexp \in Nat
      /\ Width(q) \in Nat
  BY CountersNat
<1>3. Sound(Put(q, p, s)) /\ p \in DOMAIN q
  BY <1>1, InsertSound
<1>4. q[p] \in {Empty, Tomb} /\ q[p] \in Slots
  BY <1>1, <1>3, TableIs DEF FreeFor
<1>5. ~ IsItem(q[p]) /\ q[p].cost = 0 /\ s # Tomb
  BY <1>4, SlotIs
<1>6. u = [slots |-> Put(q, p, s), count |-> t.count + 1,
           tombs |-> IF q[p] = Tomb THEN t.tombs - 1 ELSE t.tombs, used |-> t.used + s.cost,
           nexp |-> IF s.exp # 0 THEN t.nexp + 1 ELSE t.nexp, expCur |-> t.expCur]
  BY <1>1 DEF Insert, Parts, Put
<1>7. /\ One(IsItem(q[p])) = 0 /\ One(IsItem(s)) = 1 /\ One(s = Tomb) = 0
      /\ One(q[p] = Tomb) = (IF q[p] = Tomb THEN 1 ELSE 0)
      /\ One(IsTimed(q[p])) = 0 /\ One(IsTimed(s)) = (IF s.exp # 0 THEN 1 ELSE 0)
  BY <1>5 DEF One, IsTimed
<1>8. u = Changing(t, p, s)
  <2>1. t.count + 1 = t.count - One(IsItem(q[p])) + One(IsItem(s))
    BY <1>2, <1>5 DEF One
  <2>2. (IF q[p] = Tomb THEN t.tombs - 1 ELSE t.tombs) = t.tombs - One(q[p] = Tomb) + One(s = Tomb)
    BY <1>2, <1>7
  <2>3. t.used + s.cost = t.used - q[p].cost + s.cost
    BY <1>1, <1>2, <1>5
  <2>4. (IF s.exp # 0 THEN t.nexp + 1 ELSE t.nexp)
             = t.nexp - One(IsTimed(q[p])) + One(IsTimed(s))
    BY <1>2, <1>7
  <2> QED BY <1>6, <2>1, <2>2, <2>3, <2>4 DEF Changing
<1>9. Parts(u) /\ Counted(u) /\ Table(u.slots) /\ Width(u.slots) = Width(q)
  BY <1>3, <1>8, ChangingCounted
<1>10. u.slots = Put(q, p, s) /\ u.count = t.count + 1 /\ u.expCur = t.expCur
      /\ u.tombs = (IF q[p] = Tomb THEN t.tombs - 1 ELSE t.tombs)
  BY <1>6
<1>11. Loaded(u)
  BY <1>2, <1>9, <1>10 DEF Loaded
<1>12. Contents(u.slots) = Contents(q) \cup {s}
  <2>1. Contents(u.slots) = {x \in Contents(q) : x # q[p]} \cup {s}
    BY <1>1, <1>3, <1>10, ChangingContents
  <2>2. \A x \in Contents(q) : x # q[p]
    BY <1>1, <1>5, ContentsAre DEF AreItems
  <2> QED BY <2>1, <2>2
<1> QED BY <1>3, <1>9, <1>10, <1>11, <1>12 DEF TableInv

\* An item changes in its slot: setStr, replace, EXPIRE and PERSIST.
LEMMA ChangeIs ==
  ASSUME NEW t, TableInv(t), NEW i \in DOMAIN t.slots, NEW s \in Slots, IsItem(s),
         t.slots[i].key = s.key, NEW u, u = Changing(t, i, s)
  PROVE  /\ TableInv(u)
         /\ Contents(u.slots) = {x \in Contents(t.slots) : x # t.slots[i]} \cup {s}
<1> DEFINE q == t.slots
<1>1. Sound(q) /\ Table(q) /\ IsItem(q[i]) /\ q[i] \in Slots
  BY TableIs DEF TableInv, Sound, IsItem
<1>2. t.count \in Nat /\ t.tombs \in Nat
  BY CountersNat
<1>3. q[i] # Tomb /\ s # Tomb
  BY <1>1, SlotIs
<1>4. u.slots = Put(q, i, s) /\ u.count = t.count /\ u.expCur = t.expCur /\ u.tombs = t.tombs
  <2>1. One(IsItem(q[i])) = 1 /\ One(IsItem(s)) = 1 /\ One(q[i] = Tomb) = 0 /\ One(s = Tomb) = 0
    BY <1>1, <1>3 DEF One
  <2>2. /\ u.slots = Put(q, i, s) /\ u.expCur = t.expCur
        /\ u.count = t.count - One(IsItem(q[i])) + One(IsItem(s))
        /\ u.tombs = t.tombs - One(q[i] = Tomb) + One(s = Tomb)
    BY DEF Changing
  <2> QED BY <1>2, <2>1, <2>2
<1>5. Parts(u) /\ Counted(u) /\ Table(u.slots) /\ Width(u.slots) = Width(q)
  BY ChangingCounted
<1>6. Sound(u.slots)
  BY <1>1, <1>4, ChangeSound
<1>7. Loaded(u)
  BY <1>4, <1>5 DEF Loaded, TableInv
<1>8. Contents(u.slots) = {x \in Contents(q) : x # q[i]} \cup {s}
  BY <1>1, <1>4, ChangingContents
<1> QED BY <1>4, <1>5, <1>6, <1>7, <1>8 DEF TableInv

\* EXPIRE and PERSIST.
LEMMA SetExpIs ==
  ASSUME NEW t, TableInv(t), NEW i \in DOMAIN t.slots, IsItem(t.slots[i]), NEW e \in Exps
  PROVE  SetExp(t, i, e) = Changing(t, i, Slot(t.slots[i].key, e, t.slots[i].cost))
<1> DEFINE q == t.slots
           s == Slot(q[i].key, e, q[i].cost)
<1>1. Parts(t) /\ q[i] \in Slots
  BY TableIs DEF TableInv, Sound
<1>2. /\ q[i] = Slot(q[i].key, q[i].exp, q[i].cost) /\ q[i].cost \in Nat /\ q[i].exp \in Nat
      /\ q[i] # Tomb /\ q[i].key \in Keys
  BY <1>1, SlotIs
<1>3. /\ t.count \in Nat /\ t.tombs \in Nat /\ t.used \in Nat /\ t.nexp \in Nat
  BY CountersNat
<1>4. IsItem(s) /\ s.exp = e /\ s.cost = q[i].cost /\ s # Tomb
  BY <1>2, HashAssumption DEF IsItem, Slot, Tomb
<1>5. [q EXCEPT ![i].exp = e] = Put(q, i, s)
  <2>1. [q[i] EXCEPT !.exp = e] = s
    BY <1>2 DEF Slot
  <2>2. [q EXCEPT ![i].exp = e] = [q EXCEPT ![i] = [q[i] EXCEPT !.exp = e]]
    OBVIOUS
  <2> QED BY <2>1, <2>2 DEF Put
<1>6. SetExp(t, i, e) =
        [slots |-> [q EXCEPT ![i].exp = e], count |-> t.count, tombs |-> t.tombs, used |-> t.used,
         nexp |-> IF q[i].exp = 0 /\ e # 0 THEN t.nexp + 1
                  ELSE IF q[i].exp # 0 /\ e = 0 THEN t.nexp - 1 ELSE t.nexp,
         expCur |-> t.expCur]
  <2>1. SetExp(t, i, e) =
          [t EXCEPT !.slots = [q EXCEPT ![i].exp = e],
                    !.nexp = IF q[i].exp = 0 /\ e # 0 THEN t.nexp + 1
                             ELSE IF q[i].exp # 0 /\ e = 0 THEN t.nexp - 1 ELSE t.nexp]
    BY DEF SetExp
  <2> QED BY <1>1, <2>1 DEF Parts
<1>7. /\ t.count = t.count - One(IsItem(q[i])) + One(IsItem(s))
      /\ t.tombs = t.tombs - One(q[i] = Tomb) + One(s = Tomb)
      /\ t.used = t.used - q[i].cost + s.cost
      /\ (IF q[i].exp = 0 /\ e # 0 THEN t.nexp + 1
          ELSE IF q[i].exp # 0 /\ e = 0 THEN t.nexp - 1 ELSE t.nexp)
         = t.nexp - One(IsTimed(q[i])) + One(IsTimed(s))
  BY <1>2, <1>3, <1>4 DEF One, IsTimed
<1> HIDE DEF s
<1>8. SetExp(t, i, e) = Changing(t, i, s)
  BY <1>5, <1>6, <1>7 DEF Changing
<1> QED BY <1>8 DEF s

\* replace.
LEMMA ReplaceIs ==
  ASSUME NEW t, TableInv(t), NEW i \in DOMAIN t.slots, IsItem(t.slots[i]), NEW s \in Slots, IsItem(s)
  PROVE  Replace(t, i, s) = Changing(t, i, s)
<1> DEFINE q == t.slots
<1>1. Parts(t) /\ q[i] \in Slots
  BY TableIs DEF TableInv, Sound
<1>2. q[i].cost \in Nat /\ q[i] # Tomb /\ s.cost \in Nat /\ s # Tomb
  BY <1>1, SlotIs
<1>3. /\ t.count \in Nat /\ t.tombs \in Nat /\ t.used \in Nat /\ t.nexp \in Nat
  BY CountersNat
<1>4. Replace(t, i, s) =
        [slots |-> Put(q, i, s), count |-> t.count, tombs |-> t.tombs,
         used |-> t.used + s.cost - q[i].cost,
         nexp |-> t.nexp - (IF q[i].exp # 0 THEN 1 ELSE 0) + (IF s.exp # 0 THEN 1 ELSE 0),
         expCur |-> t.expCur]
  <2>1. Replace(t, i, s) =
          [t EXCEPT !.slots = Put(q, i, s), !.used = t.used + s.cost - q[i].cost,
                    !.nexp = t.nexp - (IF q[i].exp # 0 THEN 1 ELSE 0) + (IF s.exp # 0 THEN 1 ELSE 0)]
    BY DEF Replace, Put
  <2> QED BY <1>1, <2>1 DEF Parts
<1>5. /\ t.count = t.count - One(IsItem(q[i])) + One(IsItem(s))
      /\ t.tombs = t.tombs - One(q[i] = Tomb) + One(s = Tomb)
      /\ t.used + s.cost - q[i].cost = t.used - q[i].cost + s.cost
      /\ (IF q[i].exp # 0 THEN 1 ELSE 0) = One(IsTimed(q[i]))
      /\ (IF s.exp # 0 THEN 1 ELSE 0) = One(IsTimed(s))
  BY <1>2, <1>3 DEF One, IsTimed
<1> QED BY <1>4, <1>5 DEF Changing

\* setStr in place is the same.
LEMMA SetInPlaceIs ==
  ASSUME NEW t, TableInv(t), NEW i \in DOMAIN t.slots, NEW s \in Slots, IsItem(s),
         IsItem(t.slots[i]), t.slots[i].key = s.key
  PROVE  SetInPlace(t, i, s) = Changing(t, i, s)
<1> DEFINE q == t.slots
           m == Slot(q[i].key, s.exp, q[i].cost)
           u == SetExp(t, i, s.exp)
<1>1. q[i] \in Slots /\ Table(q) /\ s.exp \in Exps
  BY TableIs, SlotIs DEF TableInv, Sound
<1>2. /\ s = Slot(s.key, s.exp, s.cost) /\ s.cost \in Nat /\ s # Tomb /\ m # Tomb
      /\ q[i].cost \in Nat /\ IsItem(m) /\ m.cost = q[i].cost /\ m.exp = s.exp
  BY <1>1, SlotIs, HashAssumption DEF IsItem, Slot, Tomb
<1>3. u = Changing(t, i, m)
  BY <1>1, SetExpIs
<1>4. u = [slots |-> Put(q, i, m), count |-> u.count, tombs |-> u.tombs, used |-> u.used,
           nexp |-> u.nexp, expCur |-> t.expCur]
  BY <1>3 DEF Changing
<1>5. /\ u.count = t.count - One(IsItem(q[i])) + One(IsItem(s))
      /\ u.tombs = t.tombs - One(q[i] = Tomb) + One(s = Tomb)
      /\ u.used = t.used - q[i].cost + q[i].cost
      /\ u.nexp = t.nexp - One(IsTimed(q[i])) + One(IsTimed(s))
  BY <1>2, <1>3 DEF Changing, One, IsTimed
<1>6. [Put(q, i, m) EXCEPT ![i].cost = s.cost] = Put(q, i, s)
  <2>1. Put(q, i, m)[i] = m
    BY DEF Put
  <2>2. [m EXCEPT !.cost = s.cost] = s
    BY <1>2 DEF Slot
  <2>3. [Put(q, i, m) EXCEPT ![i].cost = s.cost] = [Put(q, i, m) EXCEPT ![i] = s]
    BY <2>1, <2>2
  <2>4. [Put(q, i, m) EXCEPT ![i] = s] = Put(q, i, s)
    BY DEF Put
  <2> QED BY <2>3, <2>4
<1> HIDE DEF u, m
<1>7. SetInPlace(t, i, s) =
        [u EXCEPT !.slots = [u.slots EXCEPT ![i].cost = s.cost],
                  !.used = u.used + s.cost - q[i].cost]
  BY DEF SetInPlace, u
<1>8. SetInPlace(t, i, s) =
        [slots |-> Put(q, i, s), count |-> u.count, tombs |-> u.tombs,
         used |-> u.used + s.cost - q[i].cost, nexp |-> u.nexp, expCur |-> t.expCur]
  <2>1. [u.slots EXCEPT ![i].cost = s.cost] = Put(q, i, s)
    BY <1>4, <1>6
  <2>2. SetInPlace(t, i, s) =
          [u EXCEPT !.slots = Put(q, i, s), !.used = u.used + s.cost - q[i].cost]
    BY <1>7, <2>1
  <2>3. PICK a, b, c, d, e, f :
          u = [slots |-> a, count |-> b, tombs |-> c, used |-> d, nexp |-> e, expCur |-> f]
    BY <1>4
  <2>4. f = t.expCur
    BY <1>4, <2>3
  <2> QED BY <2>2, <2>3, <2>4
<1>9. u.used + s.cost - q[i].cost = t.used - q[i].cost + s.cost
  BY <1>2, <1>5, CountersNat
<1> QED BY <1>5, <1>8, <1>9 DEF Changing

-----------------------------------------------------------------------------
(* get.                                                                     *)

\* The key was found, and has not expired.
Hit(t, k, now, g) ==
  /\ g.tab = t /\ g.idx \in DOMAIN t.slots /\ t.slots[g.idx].key = k
  /\ ~ Expired(t.slots[g.idx].exp, now)

\* The key is not there, or no longer, and there is a slot for it.
Missed(t, k, now, g) ==
  /\ g.idx = -1
  /\ TableInv(g.tab) /\ Width(g.tab.slots) = Width(t.slots)
  /\ g.tab.count + g.tab.tombs <= t.count + t.tombs
  /\ \A i \in DOMAIN g.tab.slots : g.tab.slots[i].key # k
  /\ FreeFor(g.tab.slots, k, g.ins)
  /\ Contents(g.tab.slots) = {x \in Contents(t.slots) : x.key # k}
  /\ \A x \in Contents(t.slots) : x.key = k => Expired(x.exp, now)

\* Get is what its definition says.
LEMMA GetUnfolds ==
  ASSUME NEW t, NEW k, NEW now, NEW f, f = Find(t, k)
  PROVE  Get(t, k, now) =
           IF f.idx # -1 /\ Expired(t.slots[f.idx].exp, now)
           THEN [tab |-> Del(t, f.idx), idx |-> -1, ins |-> IF f.ins = -1 THEN f.idx ELSE f.ins]
           ELSE [tab |-> t, idx |-> f.idx, ins |-> f.ins]
BY DEF Get, With

\* The slot of an expired item is free, if no slot before it was.
LEMMA Emptied ==
  ASSUME NEW q, Sound(q), NEW k \in Keys, NEW idx \in DOMAIN q, q[idx].key = k,
         NEW s \in {Empty, Tomb}, NEW r, r = Put(q, idx, s)
  PROVE  /\ FreeFor(r, k, idx)
         /\ \A p : FreeFor(q, k, p) => FreeFor(r, k, p)
<1> DEFINE n == Width(q)
<1>1. Table(q) /\ Unique(q) /\ Paths(q) /\ n \in Nat /\ s \in Slots
  BY DEF Sound, Table, Slots
<1>2. /\ Table(r) /\ Width(r) = n /\ DOMAIN r = DOMAIN q
      /\ r[idx] = s /\ \A i \in DOMAIN q : i # idx => r[i] = q[i]
  BY <1>1, Changed
<1>3. \A d \in 0..(n - 1) : Probe(k, d, n) \in DOMAIN q
  BY <1>1, TableIs
<1>4. \A d \in 0..(n - 1) : \A e \in 0..(d - 1) : e \in 0..(n - 1) /\ e # d
  BY <1>1
<1>5. FreeFor(r, k, idx)
  <2>1. PICK d \in 0..(n - 1) : Probe(k, d, n) = idx
    BY <1>1, TableIs
  <2>2. Reached(q, k, d)
    BY <1>1, <2>1 DEF Paths
  <2>3. ASSUME NEW e \in 0..(d - 1)
        PROVE  r[Probe(k, e, n)] # Empty /\ r[Probe(k, e, n)].key # k
    <3>1. e \in 0..(n - 1) /\ e # d /\ Probe(k, e, n) \in DOMAIN q
      BY <1>3, <1>4
    <3>2. Probe(k, e, n) # idx
      BY <1>1, <2>1, <3>1, SamePlace
    <3>3. r[Probe(k, e, n)] = q[Probe(k, e, n)] /\ q[Probe(k, e, n)].key # k
      BY <1>1, <1>2, <3>1, <3>2 DEF Unique
    <3> QED BY <2>2, <3>3 DEF Reached
  <2> QED BY <1>2, <2>1, <2>3 DEF FreeFor, Reached
<1>6. ASSUME NEW p, FreeFor(q, k, p) PROVE FreeFor(r, k, p)
  <2>1. PICK d \in 0..(n - 1) :
          /\ p = Probe(k, d, n) /\ q[p] \in {Empty, Tomb} /\ Reached(q, k, d)
          /\ \A e \in 0..(d - 1) : q[Probe(k, e, n)].key # k
    BY <1>6 DEF FreeFor
  <2>2. p \in DOMAIN q /\ p # idx
    BY <1>3, <2>1, HashAssumption DEF Empty, Tomb, Slot
  <2>3. ASSUME NEW e \in 0..(d - 1)
        PROVE  r[Probe(k, e, n)] # Empty /\ r[Probe(k, e, n)].key # k
    <3>1. Probe(k, e, n) \in DOMAIN q
      BY <1>3, <1>4
    <3>2. q[Probe(k, e, n)].key # k /\ Probe(k, e, n) # idx
      BY <2>1
    <3> QED BY <1>2, <2>1, <3>1, <3>2 DEF Reached
  <2>4. r[p] \in {Empty, Tomb}
    BY <1>2, <2>1, <2>2
  <2> QED BY <1>2, <2>1, <2>3, <2>4 DEF FreeFor, Reached
<1> QED BY <1>5, <1>6

\* get finds the key, or a slot for it.
LEMMA GetIs ==
  ASSUME NEW t, TableInv(t), NEW k \in Keys, NEW now, NEW g, g = Get(t, k, now)
  PROVE  Hit(t, k, now, g) \/ Missed(t, k, now, g)
<1> DEFINE q == t.slots
<1>1. Sound(q) /\ Table(q)
  BY DEF TableInv, Sound
<1>2. PICK f : f = Find(t, k)
  OBVIOUS
<1>3. FoundIn(q, k, f.idx, f.ins)
  BY <1>1, <1>2, TableRoom, FindIs
<1>4. g = IF f.idx # -1 /\ Expired(q[f.idx].exp, now)
          THEN [tab |-> Del(t, f.idx), idx |-> -1, ins |-> IF f.ins = -1 THEN f.idx ELSE f.ins]
          ELSE [tab |-> t, idx |-> f.idx, ins |-> f.ins]
  BY <1>2, GetUnfolds
<1>5. DOMAIN q = 0..(Width(q) - 1) /\ Width(q) \in Nat
  BY <1>1 DEF Table
<1>6. CASE f.idx = -1
  <2>1. g = [tab |-> t, idx |-> -1, ins |-> f.ins]
    BY <1>4, <1>6
  <2>2. (\A i \in DOMAIN q : q[i].key # k) /\ FreeFor(q, k, f.ins)
    BY <1>3, <1>5, <1>6 DEF FoundIn
  <2>3. \A x \in Contents(q) : x.key # k
    BY <2>2 DEF Contents, ItemsOf
  <2>4. t.count + t.tombs <= t.count + t.tombs
    BY CountersNat
  <2> QED BY <2>1, <2>2, <2>3, <2>4 DEF Missed
<1>7. CASE f.idx # -1 /\ ~ Expired(q[f.idx].exp, now)
  BY <1>3, <1>4, <1>7 DEF Hit, FoundIn
<1>8. CASE f.idx # -1 /\ Expired(q[f.idx].exp, now)
  <2>1. f.idx \in DOMAIN q /\ q[f.idx].key = k /\ IsItem(q[f.idx])
    BY <1>3, <1>8 DEF FoundIn, IsItem
  <2>2. PICK u : u = Del(t, f.idx)
    OBVIOUS
  <2>3. g = [tab |-> u, idx |-> -1, ins |-> IF f.ins = -1 THEN f.idx ELSE f.ins]
    BY <1>4, <1>8, <2>2
  <2>4. /\ TableInv(u) /\ Width(u.slots) = Width(q)
        /\ u.count + u.tombs <= t.count + t.tombs
        /\ u.slots = Put(q, f.idx, IF q[(f.idx + 1) % Width(q)] = Empty THEN Empty ELSE Tomb)
        /\ Contents(u.slots) = {x \in Contents(q) : x # q[f.idx]}
    BY <2>1, <2>2, DelIs
  <2>5. PICK s \in {Empty, Tomb} : u.slots = Put(q, f.idx, s)
    BY <2>4
  <2>6. FreeFor(u.slots, k, g.ins)
    <3>1. FreeFor(u.slots, k, f.idx) /\ \A p : FreeFor(q, k, p) => FreeFor(u.slots, k, p)
      BY <1>1, <2>1, <2>5, Emptied
    <3> QED BY <1>3, <2>3, <3>1 DEF FoundIn
  <2>7. q[f.idx] \in Contents(q) /\ \A x \in Contents(q) : x.key = k <=> x = q[f.idx]
    BY <1>1, <2>1, ContentsAre DEF Distinct
  <2>8. \A i \in DOMAIN u.slots : u.slots[i].key # k
    <3>1. \A x \in Contents(u.slots) : x.key # k
      BY <2>4, <2>7
    <3>2. \A i \in DOMAIN u.slots : IsItem(u.slots[i]) => u.slots[i] \in Contents(u.slots)
      BY DEF Contents, ItemsOf
    <3> QED BY <3>1, <3>2 DEF IsItem
  <2>9. Contents(u.slots) = {x \in Contents(q) : x.key # k}
    BY <2>4, <2>7
  <2>10. \A x \in Contents(q) : x.key = k => Expired(x.exp, now)
    BY <1>8, <2>7
  <2>11. g.idx = -1 /\ g.tab = u
    BY <2>3
  <2> QED BY <2>4, <2>6, <2>8, <2>9, <2>10, <2>11 DEF Missed
<1> QED BY <1>6, <1>7, <1>8

-----------------------------------------------------------------------------
(* rehash.                                                                  *)

Empties(q, k) == {d \in 0..(Width(q) - 1) : q[Probe(k, d, Width(q))] = Empty}

\* Place is what its definition says.
LEMMA PlaceIs ==
  ASSUME NEW q, NEW s
  PROVE  Place(q, s) = Put(q, Probe(s.key, Min(Empties(q, s.key)), Width(q)), s)
BY DEF Place, With, Distances, Empties, Width, Put

\* One step of the loop.
Replaced(r, q, i) == IF IsItem(q[i]) THEN Place(r, q[i]) ELSE r

\* h is what the loop does to a table of n slots.
Rehashes(h, q, n) ==
  h[0] = Fresh(n) /\ \A i \in 0..(Width(q) - 1) : h[i + 1] = Replaced(h[i], q, i)

\* The loop of rehash comes to an end.
LEMMA PlacedIs ==
  ASSUME NEW q, Table(q), NEW n \in Nat
  PROVE  \E h : Rehashes(h, q, n) /\ Placed(q, n) = h[Width(q)]
<1> DEFINE N == Width(q)
           X == [0..(n - 1) -> Slots]
           next == [p \in Nat \X X |-> IF p[1] < N THEN Replaced(p[2], q, p[1]) ELSE p[2]]
           Eq(h) == h = [i \in 0..Cardinality(DOMAIN q) |->
                           IF i = 0 THEN Fresh(n)
                           ELSE IF IsItem(q[i - 1]) THEN Place(h[i - 1], q[i - 1]) ELSE h[i - 1]]
<1>1. N \in Nat /\ N = Cardinality(DOMAIN q) /\ \A i \in 0..(N - 1) : q[i] \in Slots
  BY DEF Table, Width
<1>2. ASSUME NEW i \in Nat, NEW r \in X, i < N PROVE Replaced(r, q, i) \in X
  <2>1. q[i] \in Slots
    BY <1>1, <1>2
  <2>2. \A p : Put(r, p, q[i]) \in X
    BY <2>1 DEF Put
  <2>3. Place(r, q[i]) \in X
    BY <2>2, PlaceIs
  <2> QED BY <2>3 DEF Replaced
<1>3. next \in [Nat \X X -> X]
  BY <1>2
<1>4. Fresh(n) \in X
  BY DEF Fresh, Slots
<1>5. PICK g : Recurs(g, X, Fresh(n), next)
  <2> HIDE DEF next, X
  <2>1. NextValue(next, X)
    BY <1>3 DEF NextValue
  <2> QED BY <1>4, <2>1, Recursion
<1>6. /\ \A i \in Nat : g[i] \in X
      /\ g[0] = Fresh(n) /\ \A i \in Nat : g[i + 1] = next[<<i, g[i]>>]
  <2> HIDE DEF next, X
  <2> QED BY <1>5 DEF Recurs
<1>7. ASSUME NEW i \in 0..(N - 1) PROVE g[i + 1] = Replaced(g[i], q, i)
  <2>1. i \in Nat /\ g[i] \in X /\ i < N /\ <<i, g[i]>> \in Nat \X X
    BY <1>1, <1>6
  <2>2. g[i + 1] = next[<<i, g[i]>>]
    BY <1>6, <2>1
  <2> QED BY <2>1, <2>2
<1> HIDE DEF next, X
<1> DEFINE h == [i \in 0..N |-> g[i]]
<1>8. Eq(h)
  <2>1. ASSUME NEW i \in 0..N, i # 0
        PROVE  h[i] = IF IsItem(q[i - 1]) THEN Place(h[i - 1], q[i - 1]) ELSE h[i - 1]
    <3>1. i - 1 \in 0..(N - 1) /\ (i - 1) + 1 = i /\ i - 1 \in 0..N
      BY <1>1, <2>1
    <3>2. g[(i - 1) + 1] = Replaced(g[i - 1], q, i - 1)
      BY <1>7, <3>1
    <3>3. h[i] = Replaced(h[i - 1], q, i - 1)
      BY <3>1, <3>2
    <3> QED BY <3>3 DEF Replaced
  <2>2. 0 \in 0..N /\ h[0] = Fresh(n)
    BY <1>1, <1>6
  <2>3. h = [i \in 0..N |-> h[i]]
    OBVIOUS
  <2> HIDE DEF h
  <2> QED BY <1>1, <2>1, <2>2, <2>3
<1>9. PICK f : f = CHOOSE x : Eq(x)
  OBVIOUS
<1>10. Eq(f)
  <2> HIDE DEF Eq, h
  <2> QED BY <1>8, <1>9
<1>11. Placed(q, n) = f[N]
  BY <1>1, <1>9 DEF Placed
<1>12. Rehashes(f, q, n)
  <2>1. f[0] = Fresh(n)
    BY <1>1, <1>10
  <2>2. ASSUME NEW i \in 0..(N - 1) PROVE f[i + 1] = Replaced(f[i], q, i)
    <3>1. i + 1 \in 0..N /\ i + 1 # 0 /\ (i + 1) - 1 = i
      BY <1>1
    <3>2. f[i + 1] = IF IsItem(q[(i + 1) - 1]) THEN Place(f[(i + 1) - 1], q[(i + 1) - 1]) ELSE f[(i + 1) - 1]
      BY <1>1, <1>10, <3>1
    <3> QED BY <3>1, <3>2 DEF Replaced
  <2> QED BY <2>1, <2>2 DEF Rehashes
<1> QED BY <1>11, <1>12

\* The first i slots of a table, as if the others were empty.
Upto(q, i) == [j \in DOMAIN q |-> IF j < i THEN q[j] ELSE Empty]

\* r holds the items of the first i slots of q, and nothing else.
Rebuilt(r, q, i) ==
  /\ Sound(r) /\ Tally(r).tombs = 0 /\ Contents(r) = Contents(Upto(q, i))
  /\ Tally(r).items = Tally(Upto(q, i)).items /\ Tally(r).timed = Tally(Upto(q, i)).timed
  /\ Tally(r).cost = Tally(Upto(q, i)).cost

\* A slot more.
LEMMA UptoNext ==
  ASSUME NEW q, Sound(q), NEW i \in 0..(Width(q) - 1)
  PROVE  /\ Table(Upto(q, i)) /\ Width(Upto(q, i)) = Width(q) /\ DOMAIN Upto(q, i) = DOMAIN q
         /\ i \in DOMAIN q /\ Upto(q, i)[i] = Empty /\ q[i] \in Slots
         /\ Upto(q, i + 1) = Put(Upto(q, i), i, q[i])
         /\ Contents(Upto(q, i + 1)) = Contents(Upto(q, i)) \cup (IF IsItem(q[i]) THEN {q[i]} ELSE {})
         /\ \A s \in Contents(Upto(q, i)) : s \in Contents(q) /\ (IsItem(q[i]) => s.key # q[i].key)
         /\ Tally(Upto(q, i)).items <= Tally(q).items
<1> DEFINE u == Upto(q, i)
<1>1. Table(q) /\ Unique(q) /\ Width(q) \in Nat /\ DOMAIN q = 0..(Width(q) - 1)
  BY DEF Sound, Table
<1>2. \A j \in DOMAIN q : q[j] \in Slots
  BY <1>1, TableIs
<1>3. Empty \in Slots /\ ~ IsItem(Empty)
  BY HashAssumption DEF Slots, Empty, Slot, IsItem
<1>4. DOMAIN u = DOMAIN q /\ Width(u) = Width(q) /\ \A j \in DOMAIN q : u[j] = IF j < i THEN q[j] ELSE Empty
  BY DEF Upto, Width
<1>5. Table(u)
  <2>1. u \in [DOMAIN q -> Slots]
    BY <1>2, <1>3 DEF Upto
  <2> QED BY <1>1, <1>4, <2>1 DEF Table
<1>6. u[i] = Empty /\ i \in DOMAIN q
  BY <1>1, <1>4
<1>7. Upto(q, i + 1) = Put(u, i, q[i])
  <2>1. ASSUME NEW j \in DOMAIN q
        PROVE  (IF j < i + 1 THEN q[j] ELSE Empty) = IF j = i THEN q[i] ELSE u[j]
    <3>1. j \in Nat
      BY <1>1
    <3> QED BY <1>4, <3>1
  <2>2. Put(u, i, q[i]) = [j \in DOMAIN q |-> IF j = i THEN q[i] ELSE u[j]]
    BY <1>4 DEF Put
  <2> QED BY <2>1, <2>2 DEF Upto
<1>8. /\ DOMAIN Upto(q, i + 1) = DOMAIN q /\ Upto(q, i + 1)[i] = q[i]
      /\ \A j \in DOMAIN q : j # i => Upto(q, i + 1)[j] = u[j]
  BY <1>2, <1>4, <1>5, <1>6, <1>7, Changed
<1>9. Contents(Upto(q, i + 1)) = Contents(u) \cup (IF IsItem(q[i]) THEN {q[i]} ELSE {})
  <2> HIDE DEF u
  <2> QED BY <1>3, <1>4, <1>6, <1>8 DEF Contents, ItemsOf
<1>10. ASSUME NEW s \in Contents(u)
       PROVE  s \in Contents(q) /\ (IsItem(q[i]) => s.key # q[i].key)
  <2>1. PICK j \in DOMAIN q : IsItem(u[j]) /\ s = u[j]
    BY <1>4 DEF Contents, ItemsOf
  <2>2. s = q[j] /\ j # i /\ IsItem(q[j])
    BY <1>3, <1>4, <1>6, <2>1
  <2> QED BY <1>1, <1>6, <2>1, <2>2 DEF Contents, ItemsOf, Unique, IsItem
<1>11. Tally(u).items <= Tally(q).items
  <2>1. ItemsOf(u) \in SUBSET ItemsOf(q)
    BY <1>3, <1>4 DEF ItemsOf
  <2>2. Cardinality(ItemsOf(u)) <= Cardinality(ItemsOf(q))
    BY <1>1, <2>1, Finite, FS_Subset
  <2> QED BY <2>2 DEF Tally
<1> QED BY <1>2, <1>4, <1>5, <1>6, <1>7, <1>9, <1>10, <1>11

\* The empty slot that the loop chooses can take the item.
LEMMA EmptyFor ==
  ASSUME NEW r, Sound(r), Room(r), NEW k \in Keys, \A x \in Contents(r) : x.key # k,
         NEW p, p = Probe(k, Min(Empties(r, k)), Width(r))
  PROVE  FreeFor(r, k, p) /\ r[p] = Empty /\ p \in DOMAIN r /\ \A i \in DOMAIN r : r[i].key # k
<1> DEFINE n == Width(r)
           S == Empties(r, k)
<1>1. Table(r) /\ n \in Nat
  BY DEF Sound, Table
<1>2. S \in SUBSET Nat /\ S # {}
  <2>1. PICK i \in DOMAIN r : r[i] = Empty
    BY DEF Room
  <2>2. PICK d \in 0..(n - 1) : Probe(k, d, n) = i
    BY <1>1, TableIs
  <2> QED BY <1>1, <2>1, <2>2 DEF Empties
<1>3. PICK d : d = Min(S)
  OBVIOUS
<1>4. d \in S /\ \A e \in S : d <= e
  <2> HIDE DEF S
  <2> QED BY <1>2, <1>3, MinIs
<1>5. d \in 0..(n - 1) /\ r[Probe(k, d, n)] = Empty /\ p = Probe(k, d, n)
  BY <1>3, <1>4 DEF Empties
<1>6. Reached(r, k, d)
  <2>1. \A e \in 0..(d - 1) : e \in 0..(n - 1) /\ e \notin S
    BY <1>1, <1>4, <1>5
  <2> QED BY <2>1 DEF Reached, Empties
<1>7. \A i \in DOMAIN r : r[i].key # k
  BY DEF Contents, ItemsOf, IsItem
<1>8. p \in DOMAIN r /\ \A e \in 0..(d - 1) : Probe(k, e, n) \in DOMAIN r
  <2>1. \A e \in 0..(n - 1) : Probe(k, e, n) \in DOMAIN r
    BY <1>1, TableIs
  <2>2. \A e \in 0..(d - 1) : e \in 0..(n - 1)
    BY <1>1, <1>5
  <2> QED BY <1>5, <2>1, <2>2
<1> QED BY <1>5, <1>6, <1>7, <1>8 DEF FreeFor

\* One step of the loop.
LEMMA RebuiltNext ==
  ASSUME NEW q, Sound(q), NEW i \in 0..(Width(q) - 1), NEW r, Rebuilt(r, q, i),
         Tally(q).items < Width(r), NEW v, v = Replaced(r, q, i)
  PROVE  Rebuilt(v, q, i + 1) /\ Width(v) = Width(r)
<1> DEFINE u == Upto(q, i)
           s == q[i]
           w == Upto(q, i + 1)
<1>1. /\ Table(u) /\ DOMAIN u = DOMAIN q /\ i \in DOMAIN q /\ u[i] = Empty /\ s \in Slots
      /\ w = Put(u, i, s) /\ Tally(u).items <= Tally(q).items
      /\ Contents(w) = Contents(u) \cup (IF IsItem(s) THEN {s} ELSE {})
      /\ \A x \in Contents(u) : x \in Contents(q) /\ (IsItem(s) => x.key # s.key)
  BY UptoNext
<1> HIDE DEF u, w
<1>2. /\ Sound(r) /\ Tally(r).tombs = 0 /\ Contents(r) = Contents(u)
      /\ Tally(r).items = Tally(u).items /\ Tally(r).timed = Tally(u).timed
      /\ Tally(r).cost = Tally(u).cost /\ Table(r)
  BY DEF Rebuilt, u, Sound
<1>3. /\ Tally(w).items = Tally(u).items - One(IsItem(u[i])) + One(IsItem(s))
      /\ Tally(w).timed = Tally(u).timed - One(IsTimed(u[i])) + One(IsTimed(s))
      /\ Tally(w).cost  = Tally(u).cost - u[i].cost + s.cost
  BY <1>1, PutTally
<1>4. /\ Tally(u).items \in Nat /\ Tally(u).timed \in Nat /\ Tally(u).cost \in Nat
      /\ Tally(q).items \in Nat /\ Width(r) \in Nat
  BY <1>1, <1>2, Finite DEF Sound, Table
<1>5. ~ IsItem(Empty) /\ Empty.cost = 0 /\ Empty # Tomb /\ Empty \in Slots
  BY HashAssumption DEF Slots, Empty, Tomb, Slot, IsItem
<1>6. One(IsItem(Empty)) = 0 /\ One(IsTimed(Empty)) = 0 /\ One(Empty = Tomb) = 0
  BY <1>5 DEF One, IsTimed
<1>7. CASE ~ IsItem(s)
  <2>1. v = r
    BY <1>7 DEF Replaced
  <2>2. s.cost = 0 /\ One(IsItem(s)) = 0 /\ One(IsTimed(s)) = 0
    BY <1>1, <1>7, SlotIs DEF One, IsTimed
  <2>3. Tally(w).items = Tally(u).items
    BY <1>1, <1>3, <1>4, <1>6, <2>2
  <2>4. Tally(w).timed = Tally(u).timed
    BY <1>1, <1>3, <1>4, <1>6, <2>2
  <2>5. Tally(w).cost = Tally(u).cost
    BY <1>1, <1>3, <1>4, <1>5, <2>2
  <2>6. Contents(w) = Contents(u)
    BY <1>1, <1>7
  <2> QED BY <1>2, <2>1, <2>3, <2>4, <2>5, <2>6 DEF Rebuilt, w
<1>8. CASE IsItem(s)
  <2> DEFINE k == s.key
             p == Probe(k, Min(Empties(r, k)), Width(r))
  <2>1. Room(r)
    <3>1. Tally(r).items + Tally(r).tombs < Width(r)
      BY <1>1, <1>2, <1>4
    <3> QED BY <1>2, <3>1, RoomIs
  <2>2. k \in Keys /\ \A x \in Contents(r) : x.key # k
    BY <1>1, <1>2, <1>8 DEF IsItem
  <2>3. v = Put(r, p, s)
    BY <1>8, PlaceIs DEF Replaced
  <2>4. FreeFor(r, k, p) /\ r[p] = Empty /\ p \in DOMAIN r /\ \A j \in DOMAIN r : r[j].key # k
    BY <1>2, <2>1, <2>2, EmptyFor
  <2> HIDE DEF p
  <2>5. Sound(v) /\ Width(v) = Width(r)
    BY <1>1, <1>2, <1>8, <2>3, <2>4, InsertSound, Changed
  <2>6. /\ Tally(v).items = Tally(r).items - One(IsItem(r[p])) + One(IsItem(s))
        /\ Tally(v).tombs = Tally(r).tombs - One(r[p] = Tomb) + One(s = Tomb)
        /\ Tally(v).timed = Tally(r).timed - One(IsTimed(r[p])) + One(IsTimed(s))
        /\ Tally(v).cost  = Tally(r).cost - r[p].cost + s.cost
    BY <1>1, <1>2, <2>3, <2>4, PutTally
  <2>7. Tally(v).items = Tally(w).items
    BY <1>1, <1>2, <1>3, <2>4, <2>6
  <2>8. Tally(v).timed = Tally(w).timed
    BY <1>1, <1>2, <1>3, <2>4, <2>6
  <2>9. Tally(v).cost = Tally(w).cost
    BY <1>1, <1>2, <1>3, <2>4, <2>6
  <2>10. Tally(v).tombs = 0
    <3>1. One(s = Tomb) = 0
      BY <1>1, <1>8, SlotIs DEF One
    <3> QED BY <1>2, <1>6, <2>4, <2>6, <3>1
  <2>11. Contents(v) = Contents(w)
    <3>1. Contents(v) = {x \in Contents(r) : x # Empty} \cup {s}
      BY <1>1, <1>2, <1>8, <2>3, <2>4, ChangingContents
    <3>2. \A x \in Contents(r) : x # Empty
      BY <1>2, <1>5, ContentsAre DEF AreItems
    <3> QED BY <1>1, <1>2, <1>8, <3>1, <3>2
  <2> QED BY <2>5, <2>7, <2>8, <2>9, <2>10, <2>11 DEF Rebuilt, w
<1> QED BY <1>7, <1>8

\* rehash keeps the items, and drops the tombstones.
LEMMA RehashIs ==
  ASSUME NEW t, TableInv(t), NEW n, IsSize(n), (t.count + 1) * 8 <= n * 3, NEW u, u = Rehash(t, n)
  PROVE  /\ TableInv(u) /\ Contents(u.slots) = Contents(t.slots) /\ Width(u.slots) = n
         /\ (u.count + u.tombs + 1) * 4 <= 3 * Width(u.slots)
<1> DEFINE q == t.slots
           N == Width(q)
           r == Placed(q, n)
<1>1. /\ Sound(q) /\ Table(q) /\ Counted(t) /\ Parts(t) /\ N \in Nat /\ N >= 2
      /\ t.count \in Nat /\ n \in Nat /\ n >= 2 /\ t.count < n
  <2>1. Sound(q) /\ Table(q) /\ Counted(t) /\ Parts(t)
    BY DEF TableInv, Sound
  <2>2. n \in Nat /\ n >= 2
    BY DEF IsSize
  <2> QED BY <2>1, <2>2, CountersNat
<1>2. PICK h : Rehashes(h, q, n) /\ r = h[N]
  BY <1>1, PlacedIs
<1>3. Upto(q, N) = q
  <2>1. \A j \in DOMAIN q : j < N
    BY <1>1 DEF Table
  <2>2. Upto(q, N) = [j \in DOMAIN q |-> q[j]]
    BY <2>1 DEF Upto
  <2> QED BY <1>1, <2>2 DEF Table
<1>4. Upto(q, 0) = Fresh(N)
  <2>1. \A j \in DOMAIN q : ~ (j < 0)
    BY <1>1 DEF Table
  <2> QED BY <1>1, <2>1 DEF Upto, Fresh, Table
<1>5. Rebuilt(h[0], q, 0) /\ Width(h[0]) = n
  <2>1. h[0] = Fresh(n)
    BY <1>2 DEF Rehashes
  <2>2. Contents(Fresh(n)) = {} /\ Contents(Fresh(N)) = {}
    <3>1. ~ IsItem(Empty)
      BY HashAssumption DEF Empty, Slot, IsItem
    <3> QED BY <1>1, <3>1, FreshTally DEF Contents, ItemsOf
  <2>3. /\ Sound(Fresh(n)) /\ Width(Fresh(n)) = n
        /\ Tally(Fresh(n)) = [items |-> 0, tombs |-> 0, timed |-> 0, cost |-> 0]
        /\ Tally(Fresh(N)) = [items |-> 0, tombs |-> 0, timed |-> 0, cost |-> 0]
    BY <1>1, FreshTally
  <2> QED BY <1>4, <2>1, <2>2, <2>3 DEF Rebuilt
<1> DEFINE P == {i \in 0..N : Rebuilt(h[i], q, i) /\ Width(h[i]) = n}
<1>6. 0 \in P
  BY <1>1, <1>5
<1>7. ASSUME NEW i \in 0..(N - 1), i \in P PROVE i + 1 \in P
  <2>1. h[i + 1] = Replaced(h[i], q, i)
    BY <1>2 DEF Rehashes
  <2>2. Tally(q).items < Width(h[i])
    BY <1>1, <1>7 DEF Counted
  <2>3. Rebuilt(h[i + 1], q, i + 1) /\ Width(h[i + 1]) = Width(h[i])
    BY <1>1, <1>7, <2>1, <2>2, RebuiltNext
  <2>4. i + 1 \in 0..N
    BY <1>1
  <2> QED BY <1>7, <2>3, <2>4
<1>8. N \in P
  <2>1. \A i \in 0..N : i \in P
    <3> HIDE DEF P, N
    <3> QED BY <1>1, <1>6, <1>7, UpTo
  <2>2. N \in 0..N
    BY <1>1
  <2> QED BY <2>1, <2>2
<1>9. Rebuilt(r, q, N) /\ Width(r) = n
  BY <1>2, <1>8
<1> HIDE DEF r
<1>10. u = [slots |-> r, count |-> t.count, tombs |-> 0, used |-> t.used, nexp |-> t.nexp, expCur |-> 0]
  BY <1>1 DEF Rehash, Parts, r
<1>11. /\ Sound(r) /\ Tally(r).tombs = 0 /\ Contents(r) = Contents(q)
       /\ Tally(r).items = Tally(q).items /\ Tally(r).timed = Tally(q).timed
       /\ Tally(r).cost = Tally(q).cost
  BY <1>3, <1>9 DEF Rebuilt
<1>12. Parts(u) /\ Counted(u)
  BY <1>1, <1>10, <1>11 DEF Parts, Counted
<1>13. (u.count + u.tombs + 1) * 4 <= 3 * Width(u.slots) /\ Loaded(u) /\ u.expCur \in 0..Width(u.slots)
  BY <1>1, <1>9, <1>10 DEF Loaded
<1> QED BY <1>9, <1>10, <1>11, <1>12, <1>13 DEF TableInv

\* grow makes room for one more item.
LEMMA GrowIs ==
  ASSUME NEW t, TableInv(t), NEW u, u = Grow(t)
  PROVE  /\ TableInv(u) /\ Contents(u.slots) = Contents(t.slots)
         /\ (u.count + u.tombs + 1) * 4 <= 3 * Width(u.slots)
<1>1. t.count \in Nat /\ t.tombs \in Nat /\ Width(t.slots) \in Nat /\ Size(t) = Width(t.slots)
  BY CountersNat DEF Size, Width
<1>2. CASE (t.count + t.tombs + 1) * 4 > Size(t) * 3
  <2>1. u = Rehash(t, Fitting(t.count))
    BY <1>2 DEF Grow
  <2>2. IsSize(Fitting(t.count)) /\ (t.count + 1) * 8 <= Fitting(t.count) * 3
    <3>1. IsSize(Fitting(t.count)) /\ Fitting(t.count) * 3 >= (t.count + 1) * 8
      BY <1>1, FittingIs
    <3>2. Fitting(t.count) \in Nat
      BY <3>1 DEF IsSize
    <3> QED BY <1>1, <3>1, <3>2
  <2> QED BY <2>1, <2>2, RehashIs
<1>3. CASE ~ ((t.count + t.tombs + 1) * 4 > Size(t) * 3)
  <2>1. u = t
    BY <1>3 DEF Grow
  <2> QED BY <1>1, <1>3, <2>1
<1> QED BY <1>2, <1>3

\* So does the sweep's grow0.
LEMMA ShrinkIs ==
  ASSUME NEW t, TableInv(t), NEW u, u = ShrinkIfSparse(t)
  PROVE  TableInv(u) /\ Contents(u.slots) = Contents(t.slots)
<1>1. t.count \in Nat
  BY CountersNat
<1>2. IsSize(Fitting(t.count)) /\ (t.count + 1) * 8 <= Fitting(t.count) * 3
  <2>1. IsSize(Fitting(t.count)) /\ Fitting(t.count) * 3 >= (t.count + 1) * 8
    BY <1>1, FittingIs
  <2>2. Fitting(t.count) \in Nat
    BY <2>1 DEF IsSize
  <2> QED BY <1>1, <2>1, <2>2
<1>3. CASE u = Rehash(t, Fitting(t.count))
  BY <1>2, <1>3, RehashIs
<1>4. CASE u = t
  BY <1>4
<1> QED BY <1>3, <1>4 DEF ShrinkIfSparse

\* A new table, and a flushed one.
LEMMA FreshIs == TableInv(FreshTable) /\ Contents(FreshTable.slots) = {}
<1> DEFINE q == Fresh(MinSlots)
           t == FreshTable
<1>1. MinSlots \in Nat /\ MinSlots >= 2 /\ IsSize(MinSlots)
  BY MinSlotsIs, MinSlotsSize
<1>2. /\ Sound(q) /\ Width(q) = MinSlots
      /\ Tally(q) = [items |-> 0, tombs |-> 0, timed |-> 0, cost |-> 0]
      /\ \A i \in DOMAIN q : q[i] = Empty
  BY <1>1, FreshTally
<1>3. t = [slots |-> q, count |-> 0, tombs |-> 0, used |-> 0, nexp |-> 0, expCur |-> 0]
  BY DEF FreshTable
<1> HIDE DEF q
<1>4. Contents(q) = {}
  <2>1. ~ IsItem(Empty)
    BY HashAssumption DEF Empty, Slot, IsItem
  <2> QED BY <1>2, <2>1 DEF Contents, ItemsOf
<1>5. Parts(t) /\ Counted(t)
  BY <1>2, <1>3 DEF Parts, Counted
<1>6. Loaded(t) /\ t.expCur \in 0..Width(t.slots)
  BY <1>1, <1>2, <1>3 DEF Loaded
<1> QED BY <1>1, <1>2, <1>3, <1>4, <1>5, <1>6 DEF TableInv

-----------------------------------------------------------------------------
(* The sweep.                                                               *)

\* Only expired items go away.
Reclaims(t, u, now) ==
  /\ TableInv(u) /\ Width(u.slots) = Width(t.slots)
  /\ Contents(u.slots) \subseteq Contents(t.slots)
  /\ \A x \in Contents(t.slots) : x \notin Contents(u.slots) => Expired(x.exp, now)

\* One slot of the sweep.
LEMMA VisitIs ==
  ASSUME NEW t, TableInv(t)
  PROVE  Reclaims(t, Visit(t), clock)
<1> DEFINE i == IF t.expCur >= Size(t) THEN 0 ELSE t.expCur
           gone == IsItem(t.slots[i]) /\ Expired(t.slots[i].exp, clock)
           d == IF gone THEN Del(t, i) ELSE t
           u == Visit(t)
<1>1. /\ Size(t) = Width(t.slots) /\ Width(t.slots) \in Nat /\ Width(t.slots) >= 2
      /\ t.expCur \in Nat /\ Table(t.slots)
  BY CountersNat DEF Size, Width
<1>2. i \in DOMAIN t.slots /\ i + 1 \in 0..Width(t.slots)
  BY <1>1 DEF Table
<1>3. u = [d EXCEPT !.expCur = i + 1]
  BY DEF Visit, With
<1> HIDE DEF i, u
<1>4. /\ TableInv(d) /\ Width(d.slots) = Width(t.slots)
      /\ Contents(d.slots) \subseteq Contents(t.slots)
      /\ \A x \in Contents(t.slots) : x \notin Contents(d.slots) => Expired(x.exp, clock)
  <2>1. CASE ~ gone
    BY <2>1
  <2>2. CASE gone
    <3>1. TableInv(d) /\ Width(d.slots) = Width(t.slots)
          /\ Contents(d.slots) = {x \in Contents(t.slots) : x # t.slots[i]}
      BY <1>2, <2>2, DelIs
    <3> QED BY <2>2, <3>1
  <2> QED BY <2>1, <2>2
<1> HIDE DEF d, gone
<1>5. Parts(d) /\ Counted(d) /\ Loaded(d)
  BY <1>4 DEF TableInv
<1>6. u = [slots |-> d.slots, count |-> d.count, tombs |-> d.tombs, used |-> d.used,
           nexp |-> d.nexp, expCur |-> i + 1]
  BY <1>3, <1>5 DEF Parts
<1>7. TableInv(u) /\ u.slots = d.slots
  BY <1>2, <1>4, <1>5, <1>6 DEF TableInv, Parts, Counted, Loaded
<1> QED BY <1>4, <1>7 DEF Reclaims, u

\* s is the sequence of tables of m steps of the sweep.
Sweeps(s, t, m) == s[0] = t /\ \A j \in 0..(m - 1) : s[j + 1] = Visit(s[j])

\* The sweep comes to an end.
LEMMA SweptSteps ==
  ASSUME NEW t, TableInv(t), NEW m \in Nat
  PROVE  \E s : Sweeps(s, t, m) /\ Swept(t, m) = s[m]
<1> DEFINE n == Width(t.slots)
           X == {u \in [slots : [0..(n - 1) -> Slots], count : Nat, tombs : Nat, used : Nat,
                        nexp : Nat, expCur : Nat] : TableInv(u)}
           next == [p \in Nat \X X |-> Visit(p[2])]
           Eq(s) == s = [j \in 0..m |-> IF j = 0 THEN t ELSE Visit(s[j - 1])]
<1>1. ASSUME NEW u, TableInv(u), Width(u.slots) = n PROVE u \in X
  <2>1. /\ u.count \in Nat /\ u.tombs \in Nat /\ u.used \in Nat /\ u.nexp \in Nat
        /\ Table(u.slots) /\ u.expCur \in Nat /\ Parts(u)
    BY <1>1, CountersNat DEF TableInv
  <2>2. u.slots \in [0..(n - 1) -> Slots]
    BY <1>1, <2>1 DEF Table
  <2>3. u \in [slots : [0..(n - 1) -> Slots], count : Nat, tombs : Nat, used : Nat,
               nexp : Nat, expCur : Nat]
    BY <2>1, <2>2 DEF Parts
  <2> QED BY <1>1, <2>3
<1>2. ASSUME NEW u \in X PROVE Visit(u) \in X
  <2>1. TableInv(u) /\ Width(u.slots) = n
    <3>1. Table(t.slots)
      BY CountersNat
    <3>2. DOMAIN u.slots = 0..(n - 1)
      OBVIOUS
    <3> QED BY <3>1, <3>2 DEF Table, Width
  <2>2. TableInv(Visit(u)) /\ Width(Visit(u).slots) = n
    BY <2>1, VisitIs DEF Reclaims
  <2> HIDE DEF X
  <2> QED BY <1>1, <2>2
<1>3. t \in X
  <2> HIDE DEF X
  <2> QED BY <1>1
<1>4. next \in [Nat \X X -> X]
  <2> HIDE DEF X
  <2> QED BY <1>2
<1>5. PICK g : Recurs(g, X, t, next)
  <2> HIDE DEF next, X
  <2>1. NextValue(next, X)
    BY <1>4 DEF NextValue
  <2> QED BY <1>3, <2>1, Recursion
<1>6. /\ \A j \in Nat : g[j] \in X
      /\ g[0] = t /\ \A j \in Nat : g[j + 1] = next[<<j, g[j]>>]
  <2> HIDE DEF next, X
  <2> QED BY <1>5 DEF Recurs
<1>7. ASSUME NEW j \in Nat PROVE g[j + 1] = Visit(g[j])
  <2>1. g[j] \in X /\ <<j, g[j]>> \in Nat \X X /\ g[j + 1] = next[<<j, g[j]>>]
    <3> HIDE DEF X, next
    <3> QED BY <1>6
  <2> HIDE DEF X
  <2> QED BY <2>1
<1> HIDE DEF next, X
<1> DEFINE h == [j \in 0..m |-> g[j]]
<1>8. Eq(h)
  <2>1. ASSUME NEW j \in 0..m, j # 0 PROVE h[j] = Visit(h[j - 1])
    <3>1. j - 1 \in Nat /\ (j - 1) + 1 = j /\ j - 1 \in 0..m
      BY <2>1
    <3>2. g[(j - 1) + 1] = Visit(g[j - 1])
      BY <1>7, <3>1
    <3> QED BY <3>1, <3>2
  <2>2. 0 \in 0..m /\ h[0] = t
    BY <1>6
  <2>3. h = [j \in 0..m |-> h[j]]
    OBVIOUS
  <2> HIDE DEF h
  <2> QED BY <2>1, <2>2, <2>3
<1>9. PICK f : f = CHOOSE s : Eq(s)
  OBVIOUS
<1>10. Eq(f)
  <2> HIDE DEF Eq, h
  <2> QED BY <1>8, <1>9
<1>11. Swept(t, m) = f[m]
  BY <1>9 DEF Swept
<1>12. Sweeps(f, t, m)
  <2>1. f[0] = t
    BY <1>10
  <2>2. ASSUME NEW j \in 0..(m - 1) PROVE f[j + 1] = Visit(f[j])
    <3>1. j + 1 \in 0..m /\ j + 1 # 0 /\ (j + 1) - 1 = j
      OBVIOUS
    <3>2. f[j + 1] = Visit(f[(j + 1) - 1])
      BY <1>10, <3>1
    <3> QED BY <3>1, <3>2
  <2> QED BY <2>1, <2>2 DEF Sweeps
<1> QED BY <1>11, <1>12

\* A critical section of the sweep reclaims expired items only.
LEMMA SweptIs ==
  ASSUME NEW t, TableInv(t), NEW m \in Nat
  PROVE  Reclaims(t, Swept(t, m), clock)
<1>1. PICK s : Sweeps(s, t, m) /\ Swept(t, m) = s[m]
  BY SweptSteps
<1> DEFINE P == {j \in 0..m : Reclaims(t, s[j], clock)}
<1>2. 0 \in P
  BY <1>1 DEF Sweeps, Reclaims
<1>3. ASSUME NEW j \in 0..(m - 1), j \in P PROVE j + 1 \in P
  <2>1. s[j + 1] = Visit(s[j]) /\ j + 1 \in 0..m
    BY <1>1 DEF Sweeps
  <2>2. Reclaims(t, s[j], clock) /\ Reclaims(s[j], s[j + 1], clock)
    BY <1>3, <2>1, VisitIs DEF Reclaims
  <2>3. Reclaims(t, s[j + 1], clock)
    BY <2>2 DEF Reclaims
  <2> QED BY <2>1, <2>3
<1>4. \A j \in 0..m : j \in P
  <2> HIDE DEF P
  <2> QED BY <1>2, <1>3, UpTo
<1> QED BY <1>1, <1>4

-----------------------------------------------------------------------------
(* What the commands do to the map.                                         *)

\* The map of table t.
MapFrom(t) ==
  [k \in {t.slots[i].key : i \in Items(t)} |->
     LET i == CHOOSE j \in Items(t) : t.slots[j].key = k
     IN  [exp |-> t.slots[i].exp, cost |-> t.slots[i].cost]]

Seen(m, k, now) == k \in DOMAIN m /\ ~ Expired(m[k].exp, now)
Less(m, K)      == [k \in DOMAIN m \ K |-> m[k]]
More(m, k, v)   == [x \in DOMAIN m \cup {k} |-> IF x = k THEN v ELSE m[x]]

\* A get that finds the key, with its value.
HitMap(m, t, k, now, g) ==
  /\ g.tab = t /\ g.idx # -1 /\ g.idx \in DOMAIN t.slots /\ t.slots[g.idx].key = k
  /\ t.slots[g.idx] \in Slots /\ IsItem(t.slots[g.idx])
  /\ Seen(m, k, now) /\ m[k] = Value(t.slots[g.idx])
  /\ Less(m, {k}) = MapOf({x \in Contents(t.slots) : x # t.slots[g.idx]})
  /\ {x \in Contents(t.slots) : x # t.slots[g.idx]} = {x \in Contents(t.slots) : x.key # k}

\* A get that does not.
MissMap(m, t, k, now, g) ==
  /\ Missed(t, k, now, g)
  /\ ~ Seen(m, k, now) /\ MapFrom(g.tab) = Less(m, {k})

\* The map is that of the contents.
LEMMA MapFromIs ==
  ASSUME NEW t, TableInv(t)
  PROVE  MapFrom(t) = MapOf(Contents(t.slots)) /\ Distinct(Contents(t.slots))
<1> DEFINE q == t.slots
           K == {q[i].key : i \in Items(t)}
<1>0. Sound(q)
  BY DEF TableInv
<1>1. Items(t) = ItemsOf(q)
  BY DEF Items, ItemsOf
<1>2. K = {s.key : s \in Contents(q)}
  BY <1>1 DEF Contents
<1>3. ASSUME NEW k \in K
      PROVE  LET i == CHOOSE j \in Items(t) : q[j].key = k
             IN  [exp |-> q[i].exp, cost |-> q[i].cost]
             = Value(CHOOSE s \in Contents(q) : s.key = k)
  <2> DEFINE i == CHOOSE j \in Items(t) : q[j].key = k
             s == CHOOSE x \in Contents(q) : x.key = k
  <2>1. i \in ItemsOf(q) /\ q[i].key = k
    BY <1>1
  <2>2. s \in Contents(q) /\ s.key = k
    BY <1>2
  <2>3. q[i] \in Contents(q)
    BY <2>1 DEF Contents
  <2>4. q[i] = s
    BY <1>0, <2>1, <2>2, <2>3, ContentsAre DEF Distinct
  <2> HIDE DEF i, s
  <2>5. [exp |-> q[i].exp, cost |-> q[i].cost] = Value(s)
    BY <2>4 DEF Value
  <2> QED BY <2>5 DEF i, s
<1>4. MapFrom(t) = MapOf(Contents(q))
  BY <1>2, <1>3 DEF MapFrom, MapOf
<1> QED BY <1>0, <1>4, ContentsAre

\* get, as the map has it.
LEMMA GetMap ==
  ASSUME NEW t, TableInv(t), NEW k \in Keys, NEW now, NEW g, g = Get(t, k, now), NEW m, m = MapFrom(t)
  PROVE  HitMap(m, t, k, now, g) \/ MissMap(m, t, k, now, g)
<1> DEFINE C == Contents(t.slots)
<1>1. /\ Sound(t.slots) /\ Table(t.slots) /\ m = MapOf(C) /\ Distinct(C)
      /\ DOMAIN t.slots = 0..(Width(t.slots) - 1) /\ Width(t.slots) \in Nat
  BY MapFromIs DEF TableInv, Sound, Table
<1>2. /\ \A s \in C : s.key \in DOMAIN m /\ m[s.key] = Value(s)
      /\ \A x \in DOMAIN m : \E s \in C : s.key = x /\ m[x] = Value(s)
  <2>1. PICK D : D = C
    OBVIOUS
  <2>2. Distinct(D) /\ m = MapOf(D)
    BY <1>1, <2>1
  <2>3. \A s \in D : s.key \in DOMAIN MapOf(D) /\ MapOf(D)[s.key] = Value(s)
    BY <2>2, MapIs
  <2>4. ASSUME NEW x \in DOMAIN MapOf(D) PROVE \E s \in D : s.key = x /\ MapOf(D)[x] = Value(s)
    <3>1. PICK s \in D : s.key = x
      <4>1. DOMAIN MapOf(D) = {s.key : s \in D}
        BY <2>2, MapIs
      <4> QED BY <4>1
    <3> QED BY <2>3, <3>1
  <2> QED BY <2>1, <2>2, <2>3, <2>4
<1>3. MapOf({s \in C : s.key \notin {k}}) = Less(m, {k})
  <2>1. PICK D, K : D = C /\ K = {k}
    OBVIOUS
  <2>2. Distinct(D)
    BY <1>1, <2>1
  <2>3. MapOf({s \in D : s.key \notin K}) = Less(MapOf(D), K)
    BY <2>2, MapWithout DEF Less
  <2> QED BY <1>1, <2>1, <2>3
<1>4. {s \in C : s.key \notin {k}} = {s \in C : s.key # k}
  OBVIOUS
<1>5. CASE Hit(t, k, now, g)
  <2>1. /\ g.idx \in DOMAIN t.slots /\ t.slots[g.idx].key = k /\ g.tab = t
        /\ ~ Expired(t.slots[g.idx].exp, now)
    BY <1>5 DEF Hit
  <2>2. g.idx # -1 /\ IsItem(t.slots[g.idx]) /\ t.slots[g.idx] \in Slots
    BY <1>1, <2>1, TableIs DEF IsItem
  <2>3. t.slots[g.idx] \in C
    BY <1>1, <2>1, <2>2, ContentsAre
  <2>4. {x \in C : x # t.slots[g.idx]} = {x \in C : x.key # k}
    BY <1>1, <2>1, <2>3 DEF Distinct
  <2>5. k \in DOMAIN m /\ m[k] = Value(t.slots[g.idx])
    BY <1>2, <2>1, <2>3
  <2>6. Seen(m, k, now)
    BY <2>1, <2>5 DEF Seen, Value
  <2> QED BY <1>3, <1>4, <2>1, <2>2, <2>4, <2>5, <2>6 DEF HitMap
<1>6. CASE Missed(t, k, now, g)
  <2>1. /\ TableInv(g.tab) /\ Contents(g.tab.slots) = {x \in C : x.key # k}
        /\ \A x \in C : x.key = k => Expired(x.exp, now)
    BY <1>6 DEF Missed
  <2>2. MapFrom(g.tab) = Less(m, {k})
    BY <1>3, <1>4, <2>1, MapFromIs
  <2>3. ~ Seen(m, k, now)
    BY <1>2, <2>1 DEF Seen, Value
  <2> QED BY <1>6, <2>2, <2>3 DEF MissMap
<1> QED BY <1>5, <1>6, GetIs

\* A command's key is set, in its slot or in a new one.
LEMMA SetMap ==
  ASSUME NEW C, Distinct(C), NEW k, NEW s, s.key = k, NEW R, R = {x \in C : x.key # k} \cup {s}
  PROVE  MapOf(R) = More(MapOf(C), k, Value(s))
BY MapWith DEF More

-----------------------------------------------------------------------------
(* The steps.                                                               *)

StoreInv == TableInv(tab) /\ budget \in Nat /\ clock \in 0..MaxTime

\* The refinement mapping before and after a step.
LEMMA MappingIs == AsMap = MapFrom(tab) /\ AsMap' = MapFrom(tab')
BY DEF AsMap, MapFrom, Items

\* A command answers with what the map holds.
LEMMA AnswerIs ==
  ASSUME NEW t, NEW k, NEW now, NEW g, NEW m, HitMap(m, t, k, now, g) \/ MissMap(m, t, k, now, g),
         NEW cmd, Answer(cmd, k, g)
  PROVE  /\ last'.cmd = cmd /\ last'.key = k
         /\ last'.reply = IF Seen(m, k, now) THEN m[k] ELSE Absent
<1>1. CASE HitMap(m, t, k, now, g)
  BY <1>1 DEF HitMap, Answer, Value
<1>2. CASE MissMap(m, t, k, now, g)
  BY <1>2 DEF MissMap, Missed, Answer
<1> QED BY <1>1, <1>2

\* So it does in the map.
LEMMA AnswerInMap ==
  ASSUME NEW k, NEW now, NEW cmd, last'.cmd = cmd, last'.key = k,
         last'.reply = IF Seen(MapFrom(tab), k, now) THEN MapFrom(tab)[k] ELSE Absent
  PROVE  Map!Answer(cmd, k, now)
BY MappingIs DEF Map!Answer, Map!Value, Map!Visible, Map!Expired, Map!Absent, Seen, Expired, Absent

\* Times that a command may take for the present.
LEMMA NowIs ==
  ASSUME StoreInv, NEW now \in Nows
  PROVE  now \in Nat /\ now \in Map!Nows
<1>1. MaxTime \in Nat /\ MaxLag \in Nat
  BY SizeAssumption
<1> QED BY <1>1 DEF StoreInv, Nows, Map!Nows

\* A get answers, and what it leaves is a table again.
LEMMA LookupStep ==
  ASSUME NEW t, TableInv(t), MapFrom(t) = MapFrom(tab), NEW k \in Keys, NEW now,
         NEW g, g = Get(t, k, now), NEW cmd, Answer(cmd, k, g), NEW m, m = MapFrom(tab)
  PROVE  /\ HitMap(m, t, k, now, g) \/ MissMap(m, t, k, now, g)
         /\ Map!Answer(cmd, k, now)
         /\ TableInv(g.tab) /\ MapFrom(g.tab) = IF Seen(m, k, now) THEN m ELSE Less(m, {k})
<1>1. HitMap(m, t, k, now, g) \/ MissMap(m, t, k, now, g)
  BY GetMap
<1>2. Map!Answer(cmd, k, now)
  BY <1>1, AnswerIs, AnswerInMap
<1>3. TableInv(g.tab) /\ MapFrom(g.tab) = IF Seen(m, k, now) THEN m ELSE Less(m, {k})
  BY <1>1 DEF HitMap, MissMap, Missed
<1> QED BY <1>1, <1>2, <1>3

\* GET and its like; the shard's map changes as the map does.
LEMMA ReadIs ==
  ASSUME NEW t, TableInv(t), MapFrom(t) = MapFrom(tab), NEW k \in Keys, NEW now,
         NEW g, g = Get(t, k, now), Answer("read", k, g), tab' = g.tab, UNCHANGED <<budget, clock>>
  PROVE  TableInv(tab') /\ Map!Read(k, now)
<1> DEFINE m == MapFrom(tab)
<1>1. /\ Map!Answer("read", k, now) /\ TableInv(tab')
      /\ MapFrom(tab') = IF Seen(m, k, now) THEN m ELSE Less(m, {k})
  <2>1. PICK cmd, w : cmd = "read" /\ w = m
    OBVIOUS
  <2>2. Answer(cmd, k, g)
    BY <2>1
  <2>3. Map!Answer(cmd, k, now) /\ TableInv(g.tab)
        /\ MapFrom(g.tab) = IF Seen(w, k, now) THEN w ELSE Less(w, {k})
    BY <2>1, <2>2, LookupStep
  <2> QED BY <2>1, <2>3
<1> QED BY <1>1, MappingIs
        DEF Map!Read, Map!Visible, Map!Without, Map!Expired, Expired, Seen, Less

LEMMA ReadStep ==
  ASSUME StoreInv, NEW k \in Keys, NEW now \in Nows, Read(k, now)
  PROVE  StoreInv' /\ Map!Read(k, now)
<1>1. TableInv(tab') /\ Map!Read(k, now)
  BY ReadIs DEF Read, StoreInv
<1> QED BY <1>1 DEF Read, StoreInv

\* grow changes nothing that the map shows.
LEMMA GrowMap ==
  ASSUME NEW t, TableInv(t), NEW u, u = Grow(t)
  PROVE  TableInv(u) /\ MapFrom(u) = MapFrom(t)
<1>1. TableInv(u) /\ Contents(u.slots) = Contents(t.slots)
  BY GrowIs
<1> QED BY <1>1, MapFromIs

LEMMA RefuseStep ==
  ASSUME StoreInv, NEW k \in Keys, NEW now \in Nows, Refuse(k, now)
  PROVE  StoreInv' /\ Map!Read(k, now)
<1>1. PICK t : t = Grow(tab)
  OBVIOUS
<1>2. TableInv(t) /\ MapFrom(t) = MapFrom(tab)
  BY <1>1, GrowMap DEF StoreInv
<1>3. PICK g : g = Get(t, k, now) /\ tab' = g.tab /\ Answer("read", k, g) /\ UNCHANGED <<budget, clock>>
  BY <1>1 DEF Refuse
<1>4. TableInv(tab') /\ Map!Read(k, now)
  BY <1>2, <1>3, ReadIs
<1> QED BY <1>3, <1>4 DEF StoreInv

\* An item with the key's name and the given value.
LEMMA NewItem ==
  ASSUME NEW k \in Keys, NEW e \in Exps, NEW c \in Costs
  PROVE  /\ Slot(k, e, c) \in Slots /\ IsItem(Slot(k, e, c)) /\ Slot(k, e, c).key = k
         /\ Value(Slot(k, e, c)) = [exp |-> e, cost |-> c]
         /\ [exp |-> e, cost |-> c] \in [exp : Exps, cost : Costs]
BY DEF Slots, Slot, IsItem, Value

\* A key that is found gets another value.
LEMMA HitSet ==
  ASSUME NEW t, TableInv(t), NEW k \in Keys, NEW now, NEW g, NEW m, m = MapFrom(t),
         HitMap(m, t, k, now, g), NEW s \in Slots, IsItem(s), s.key = k,
         NEW u, u = Changing(g.tab, g.idx, s)
  PROVE  TableInv(u) /\ MapFrom(u) = More(m, k, Value(s))
<1> DEFINE C == Contents(t.slots)
<1>1. /\ g.tab = t /\ g.idx \in DOMAIN t.slots /\ t.slots[g.idx].key = k
      /\ {x \in C : x # t.slots[g.idx]} = {x \in C : x.key # k}
  BY DEF HitMap
<1>2. TableInv(u) /\ Contents(u.slots) = {x \in C : x # t.slots[g.idx]} \cup {s}
  <2>1. PICK i : i = g.idx
    OBVIOUS
  <2>2. i \in DOMAIN t.slots /\ u = Changing(t, i, s)
    BY <1>1, <2>1
  <2> QED BY <1>1, <2>1, <2>2, ChangeIs
<1>3. MapFrom(t) = MapOf(C) /\ Distinct(C) /\ MapFrom(u) = MapOf(Contents(u.slots))
  BY <1>2, MapFromIs
<1>4. MapOf(Contents(u.slots)) = More(MapOf(C), k, Value(s))
  BY <1>1, <1>2, <1>3, SetMap
<1> QED BY <1>2, <1>3, <1>4

\* A key that is not found gets a value.
LEMMA MissSet ==
  ASSUME NEW t, TableInv(t), (t.count + t.tombs + 1) * 4 <= 3 * Width(t.slots),
         NEW k \in Keys, NEW now, NEW g, NEW m, m = MapFrom(t),
         MissMap(m, t, k, now, g), NEW s \in Slots, IsItem(s), s.key = k,
         NEW u, u = Insert(g.tab, g.ins, s)
  PROVE  TableInv(u) /\ MapFrom(u) = More(m, k, Value(s))
<1> DEFINE C == Contents(t.slots)
<1>1. /\ TableInv(g.tab) /\ Width(g.tab.slots) = Width(t.slots)
      /\ g.tab.count + g.tab.tombs <= t.count + t.tombs
      /\ \A i \in DOMAIN g.tab.slots : g.tab.slots[i].key # k
      /\ FreeFor(g.tab.slots, k, g.ins)
      /\ Contents(g.tab.slots) = {x \in C : x.key # k}
  BY DEF MissMap, Missed
<1>2. (g.tab.count + g.tab.tombs + 1) * 4 <= 3 * Width(g.tab.slots)
  <2>1. /\ g.tab.count \in Nat /\ g.tab.tombs \in Nat /\ t.count \in Nat /\ t.tombs \in Nat
        /\ Width(t.slots) \in Nat
    BY <1>1, CountersNat
  <2> QED BY <1>1, <2>1
<1>3. TableInv(u) /\ Contents(u.slots) = {x \in C : x.key # k} \cup {s}
  BY <1>1, <1>2, InsertIs
<1>4. MapFrom(t) = MapOf(C) /\ Distinct(C) /\ MapFrom(u) = MapOf(Contents(u.slots))
  BY <1>3, MapFromIs
<1>5. MapOf(Contents(u.slots)) = More(MapOf(C), k, Value(s))
  BY <1>3, <1>4, SetMap
<1> QED BY <1>3, <1>4, <1>5

\* SET and its like.
LEMMA WriteStep ==
  ASSUME StoreInv, NEW k \in Keys, NEW now \in Nows, NEW c \in Costs, NEW e \in Exps, NEW keep \in BOOLEAN,
         Write(k, now, c, e, keep)
  PROVE  /\ StoreInv'
         /\ \E v \in [exp : Exps, cost : Costs] : Map!Write(k, now, v)
<1> DEFINE m == MapFrom(tab)
<1>1. PICK t : t = Grow(tab)
  OBVIOUS
<1>2. /\ TableInv(t) /\ MapFrom(t) = m
      /\ (t.count + t.tombs + 1) * 4 <= 3 * Width(t.slots)
  BY <1>1, GrowMap, GrowIs DEF StoreInv
<1>3. PICK g : /\ g = Get(t, k, now) /\ Answer("write", k, g) /\ UNCHANGED <<budget, clock>>
               /\ LET s == Slot(k, IF keep /\ g.idx # -1 THEN g.tab.slots[g.idx].exp ELSE e, c)
                  IN  tab' \in IF g.idx = -1 THEN {Insert(g.tab, g.ins, s)}
                              ELSE {SetInPlace(g.tab, g.idx, s), Replace(g.tab, g.idx, s)}
  BY <1>1 DEF Write
<1>4. PICK x : x = IF keep /\ g.idx # -1 THEN g.tab.slots[g.idx].exp ELSE e
  OBVIOUS
<1>5. PICK s : s = Slot(k, x, c)
  OBVIOUS
<1>6. tab' \in IF g.idx = -1 THEN {Insert(g.tab, g.ins, s)}
               ELSE {SetInPlace(g.tab, g.idx, s), Replace(g.tab, g.idx, s)}
  BY <1>3, <1>4, <1>5
<1>7. HitMap(m, t, k, now, g) \/ MissMap(m, t, k, now, g)
  BY <1>2, <1>3, GetMap
<1>8. Map!Answer("write", k, now)
  <2>1. PICK cmd : cmd = "write"
    OBVIOUS
  <2>2. Answer(cmd, k, g)
    BY <1>3, <2>1
  <2>3. Map!Answer(cmd, k, now)
    BY <1>2, <1>3, <2>2, LookupStep
  <2> QED BY <2>1, <2>3
<1>9. x \in Exps
  <2>1. CASE HitMap(m, t, k, now, g)
    BY <1>4, <2>1, SlotIs DEF HitMap
  <2>2. CASE MissMap(m, t, k, now, g)
    BY <1>4, <2>2 DEF MissMap, Missed
  <2> QED BY <1>7, <2>1, <2>2
<1>10. /\ s \in Slots /\ IsItem(s) /\ s.key = k /\ Value(s) \in [exp : Exps, cost : Costs]
  BY <1>5, <1>9, NewItem
<1>11. TableInv(tab') /\ MapFrom(tab') = More(m, k, Value(s))
  <2>1. CASE HitMap(m, t, k, now, g)
    <3>1. PICK i : i = g.idx
      OBVIOUS
    <3>2. /\ g.tab = t /\ i # -1 /\ i \in DOMAIN t.slots /\ t.slots[i].key = k /\ IsItem(t.slots[i])
      BY <2>1, <3>1 DEF HitMap
    <3>3. tab' \in {SetInPlace(t, i, s), Replace(t, i, s)}
      BY <1>6, <3>1, <3>2
    <3>4. tab' = Changing(t, i, s)
      BY <1>2, <1>10, <3>2, <3>3, SetInPlaceIs, ReplaceIs
    <3> QED BY <1>2, <1>10, <2>1, <3>1, <3>2, <3>4, HitSet
  <2>2. CASE MissMap(m, t, k, now, g)
    <3>1. tab' = Insert(g.tab, g.ins, s)
      BY <1>6, <2>2 DEF MissMap, Missed
    <3> QED BY <1>2, <1>10, <2>2, <3>1, MissSet
  <2> QED BY <1>7, <2>1, <2>2
<1>12. Map!Write(k, now, Value(s))
  BY <1>3, <1>8, <1>11, MappingIs DEF Map!Write, Map!With, More
<1> QED BY <1>3, <1>10, <1>11, <1>12 DEF StoreInv

\* A key is deleted from its slot.
LEMMA HitDelete ==
  ASSUME NEW t, TableInv(t), NEW k \in Keys, NEW now, NEW g, NEW m, m = MapFrom(t),
         HitMap(m, t, k, now, g), NEW u, u = Del(g.tab, g.idx)
  PROVE  TableInv(u) /\ MapFrom(u) = Less(m, {k})
<1>1. PICK i : i = g.idx
  OBVIOUS
<1>2. /\ g.tab = t /\ i \in DOMAIN t.slots /\ IsItem(t.slots[i])
      /\ Less(m, {k}) = MapOf({x \in Contents(t.slots) : x # t.slots[i]})
  BY <1>1 DEF HitMap
<1>3. TableInv(u) /\ Contents(u.slots) = {x \in Contents(t.slots) : x # t.slots[i]}
  BY <1>1, <1>2, DelIs
<1> QED BY <1>2, <1>3, MapFromIs

\* DEL and its like.
LEMMA DeleteStep ==
  ASSUME StoreInv, NEW k \in Keys, NEW now \in Nows, Delete(k, now)
  PROVE  StoreInv' /\ Map!Delete(k, now)
<1> DEFINE m == MapFrom(tab)
<1>1. PICK g : /\ g = Get(tab, k, now) /\ Answer("delete", k, g) /\ UNCHANGED <<budget, clock>>
               /\ tab' = IF g.idx = -1 THEN g.tab ELSE Del(g.tab, g.idx)
  BY DEF Delete
<1>2. TableInv(tab)
  BY DEF StoreInv
<1>3. HitMap(m, tab, k, now, g) \/ MissMap(m, tab, k, now, g)
  BY <1>1, <1>2, GetMap
<1>4. Map!Answer("delete", k, now)
  <2>1. PICK cmd : cmd = "delete"
    OBVIOUS
  <2>2. Answer(cmd, k, g)
    BY <1>1, <2>1
  <2>3. Map!Answer(cmd, k, now)
    BY <1>1, <1>2, <2>2, LookupStep
  <2> QED BY <2>1, <2>3
<1>5. TableInv(tab') /\ MapFrom(tab') = Less(m, {k})
  <2>1. CASE HitMap(m, tab, k, now, g)
    <3>1. tab' = Del(g.tab, g.idx)
      BY <1>1, <2>1 DEF HitMap
    <3> QED BY <1>2, <2>1, <3>1, HitDelete
  <2>2. CASE MissMap(m, tab, k, now, g)
    BY <1>1, <2>2 DEF MissMap, Missed
  <2> QED BY <1>3, <2>1, <2>2
<1>6. Map!Delete(k, now)
  BY <1>1, <1>4, <1>5, MappingIs DEF Map!Delete, Map!Without, Less
<1> QED BY <1>1, <1>5, <1>6 DEF StoreInv

\* EXPIRE and PERSIST.
LEMMA SetExpiryStep ==
  ASSUME StoreInv, NEW k \in Keys, NEW now \in Nows, NEW e \in Exps, SetExpiry(k, now, e)
  PROVE  StoreInv' /\ Map!SetExpiry(k, now, e)
<1> DEFINE m == MapFrom(tab)
<1>1. PICK g : /\ g = Get(tab, k, now) /\ Answer("expire", k, g) /\ UNCHANGED <<budget, clock>>
               /\ tab' = IF g.idx = -1 THEN g.tab ELSE SetExp(g.tab, g.idx, e)
  BY DEF SetExpiry
<1>2. TableInv(tab)
  BY DEF StoreInv
<1>3. HitMap(m, tab, k, now, g) \/ MissMap(m, tab, k, now, g)
  BY <1>1, <1>2, GetMap
<1>4. Map!Answer("expire", k, now)
  <2>1. PICK cmd : cmd = "expire"
    OBVIOUS
  <2>2. Answer(cmd, k, g)
    BY <1>1, <2>1
  <2>3. Map!Answer(cmd, k, now)
    BY <1>1, <1>2, <2>2, LookupStep
  <2> QED BY <2>1, <2>3
<1>5. /\ TableInv(tab')
      /\ MapFrom(tab') = IF Seen(m, k, now) THEN [m EXCEPT ![k].exp = e] ELSE Less(m, {k})
  <2>1. CASE HitMap(m, tab, k, now, g)
    <3>1. PICK i : i = g.idx
      OBVIOUS
    <3>2. /\ g.tab = tab /\ i # -1 /\ i \in DOMAIN tab.slots /\ tab.slots[i].key = k /\ IsItem(tab.slots[i])
          /\ Seen(m, k, now) /\ m[k] = Value(tab.slots[i]) /\ tab.slots[i] \in Slots
      BY <2>1, <3>1 DEF HitMap
    <3>3. PICK s : s = Slot(k, e, tab.slots[i].cost)
      OBVIOUS
    <3>4. s \in Slots /\ IsItem(s) /\ s.key = k /\ Value(s) = [exp |-> e, cost |-> tab.slots[i].cost]
      <4>1. tab.slots[i].cost \in Costs
        BY <3>2, SlotIs
      <4> QED BY <3>3, <4>1, NewItem
    <3>5. tab' = Changing(tab, i, s)
      <4>1. tab' = SetExp(tab, i, e)
        BY <1>1, <3>1, <3>2
      <4> QED BY <1>2, <3>2, <3>3, <4>1, SetExpIs
    <3>6. TableInv(tab') /\ MapFrom(tab') = More(m, k, Value(s))
      BY <1>2, <2>1, <3>1, <3>2, <3>4, <3>5, HitSet
    <3>7. More(m, k, Value(s)) = [m EXCEPT ![k].exp = e]
      <4>1. k \in DOMAIN m /\ m[k] = [exp |-> tab.slots[i].exp, cost |-> tab.slots[i].cost]
        BY <3>2 DEF Seen, Value
      <4>2. m = [x \in DOMAIN m |-> m[x]]
        BY DEF MapFrom
      <4>3. [m[k] EXCEPT !.exp = e] = [exp |-> e, cost |-> tab.slots[i].cost]
        BY <4>1
      <4> HIDE DEF m
      <4>4. DOMAIN m \cup {k} = DOMAIN m
        BY <4>1
      <4>5. [m EXCEPT ![k].exp = e] = [x \in DOMAIN m |-> IF x = k THEN [m[k] EXCEPT !.exp = e] ELSE m[x]]
        BY <4>1, <4>2
      <4> QED BY <3>4, <4>3, <4>4, <4>5 DEF More
    <3> QED BY <3>2, <3>6, <3>7
  <2>2. CASE MissMap(m, tab, k, now, g)
    BY <1>1, <2>2 DEF MissMap, Missed
  <2> QED BY <1>3, <2>1, <2>2
<1>6. Map!SetExpiry(k, now, e)
  BY <1>1, <1>4, <1>5, MappingIs
  DEF Map!SetExpiry, Map!Visible, Map!Without, Map!Expired, Expired, Seen, Less
<1> QED BY <1>1, <1>5, <1>6 DEF StoreInv

\* evictOne.
LEMMA EvictStep ==
  ASSUME StoreInv, NEW k \in Keys, Evict(k)
  PROVE  StoreInv' /\ Map!Evict(k)
<1> DEFINE m == MapFrom(tab)
           C == Contents(tab.slots)
<1>1. PICK i \in Items(tab) : tab.slots[i].key = k /\ tab' = Del(tab, i)
  BY DEF Evict
<1>2. TableInv(tab) /\ i \in DOMAIN tab.slots /\ IsItem(tab.slots[i]) /\ Sound(tab.slots)
  BY <1>1 DEF StoreInv, Items, TableInv
<1>3. TableInv(tab') /\ Contents(tab'.slots) = {x \in C : x # tab.slots[i]}
  BY <1>1, <1>2, DelIs
<1>4. m = MapOf(C) /\ Distinct(C) /\ MapFrom(tab') = MapOf(Contents(tab'.slots))
  BY <1>2, <1>3, MapFromIs
<1>5. tab.slots[i] \in C
  BY <1>2, ContentsAre
<1>6. PICK K : K = {k}
  OBVIOUS
<1>7. {x \in C : x # tab.slots[i]} = {x \in C : x.key \notin K}
  BY <1>1, <1>4, <1>5, <1>6 DEF Distinct
<1>8. MapOf({x \in C : x.key \notin K}) = Less(MapOf(C), K)
  BY <1>4, MapWithout DEF Less
<1>9. k \in DOMAIN m
  BY <1>1 DEF MapFrom
<1>10. Map!Evict(k)
  BY <1>3, <1>4, <1>6, <1>7, <1>8, <1>9, MappingIs DEF Map!Evict, Map!Without, Less, Evict
<1> QED BY <1>3, <1>10 DEF StoreInv, Evict

\* FLUSHALL.
LEMMA FlushStep ==
  ASSUME StoreInv, Flush
  PROVE  StoreInv' /\ Map!Flush
<1>1. TableInv(tab') /\ Contents(tab'.slots) = {}
  BY FreshIs DEF Flush
<1>2. MapFrom(tab') = MapOf({})
  BY <1>1, MapFromIs
<1>3. MapOf({}) = [k \in {} |-> Absent]
  BY DEF MapOf
<1>4. Map!Flush
  BY <1>2, <1>3, MappingIs DEF Map!Flush, Map!Nothing, Map!Absent, Absent, Flush
<1> QED BY <1>1, <1>4 DEF StoreInv, Flush

\* Expired items go away between the commands.
LEMMA ReclaimIs ==
  ASSUME TableInv(tab), NEW u, Reclaims(tab, u, clock), TableInv(tab'),
         Contents(tab'.slots) = Contents(u.slots), last' = [cmd |-> "none"], UNCHANGED clock
  PROVE  Map!Reclaim
<1> DEFINE m == MapFrom(tab)
           C == Contents(tab.slots)
           D == Contents(tab'.slots)
<1>1. D \subseteq C /\ \A x \in C : x \notin D => Expired(x.exp, clock)
  BY DEF Reclaims
<1>2. m = MapOf(C) /\ Distinct(C) /\ MapFrom(tab') = MapOf(D)
  BY MapFromIs
<1>3. PICK K : K = {x.key : x \in C \ D}
  OBVIOUS
<1>4. {x \in C : x.key \notin K} = D
  BY <1>1, <1>2, <1>3 DEF Distinct
<1>5. MapFrom(tab') = Less(m, K)
  <2>1. MapOf({x \in C : x.key \notin K}) = Less(MapOf(C), K)
    BY <1>2, MapWithout DEF Less
  <2> QED BY <1>2, <1>4, <2>1
<1>6. K \in SUBSET {k \in DOMAIN m : Expired(m[k].exp, clock)}
  <2>1. \A s \in C : s.key \in DOMAIN MapOf(C) /\ MapOf(C)[s.key] = Value(s)
    BY <1>2, MapIs
  <2>2. ASSUME NEW k \in K PROVE k \in DOMAIN m /\ Expired(m[k].exp, clock)
    <3>1. PICK x \in C : x \notin D /\ k = x.key
      BY <1>3
    <3>2. Expired(x.exp, clock) /\ k \in DOMAIN m /\ m[k] = Value(x)
      BY <1>1, <1>2, <2>1, <3>1
    <3> QED BY <3>2 DEF Value
  <2> QED BY <2>2
<1> HIDE DEF m, C, D
<1>7. AsMap = m /\ AsMap' = Less(m, K)
  BY <1>5, MappingIs DEF m
<1> QED BY <1>6, <1>7 DEF Map!Reclaim, Map!Without, Map!Expired, Expired, Less

\* A critical section of the sweep.
LEMMA SweepStep ==
  ASSUME StoreInv, Sweep
  PROVE  StoreInv' /\ Map!Reclaim
<1> DEFINE b == IF budget > 0 THEN budget ELSE Size(tab) \div 8 + SweepBase
           m == Min({BatchSize, b})
<1>1. TableInv(tab) /\ budget \in Nat /\ BatchSize \in Nat /\ SweepBase \in Nat
  BY SizeAssumption DEF StoreInv
<1>2. b \in Nat
  <2>1. Size(tab) \in Nat
    BY <1>1, CountersNat DEF Size, Width
  <2>2. Size(tab) \div 8 \in Nat
    BY <2>1
  <2> QED BY <1>1, <2>2
<1>3. tab' = ShrinkIfSparse(Swept(tab, m)) /\ budget' = b - m /\ last' = [cmd |-> "none"] /\ UNCHANGED clock
  BY DEF Sweep, With
<1> HIDE DEF b
<1>4. m \in Nat /\ m <= b
  <2>1. {BatchSize, b} \in SUBSET Nat
    BY <1>1, <1>2
  <2>2. Min({BatchSize, b}) \in {BatchSize, b} /\ \A x \in {BatchSize, b} : Min({BatchSize, b}) <= x
    BY <2>1, MinIs
  <2> QED BY <2>1, <2>2
<1> HIDE DEF m
<1>5. PICK u : u = Swept(tab, m)
  OBVIOUS
<1>6. Reclaims(tab, u, clock)
  BY <1>1, <1>4, <1>5, SweptIs
<1>7. TableInv(tab') /\ Contents(tab'.slots) = Contents(u.slots)
  BY <1>3, <1>5, <1>6, ShrinkIs DEF Reclaims
<1>8. Map!Reclaim
  BY <1>1, <1>3, <1>6, <1>7, ReclaimIs
<1> QED BY <1>2, <1>3, <1>4, <1>7, <1>8 DEF StoreInv

\* A tick without one.
LEMMA SweepSkipStep ==
  ASSUME StoreInv, SweepSkip
  PROVE  StoreInv' /\ Map!Reclaim
<1>1. TableInv(tab) /\ tab' = ShrinkIfSparse(tab)
  BY DEF StoreInv, SweepSkip
<1>2. TableInv(tab') /\ Contents(tab'.slots) = Contents(tab.slots)
  BY <1>1, ShrinkIs
<1>3. Reclaims(tab, tab, clock)
  BY <1>1 DEF Reclaims
<1>4. Map!Reclaim
  BY <1>1, <1>2, <1>3, ReclaimIs DEF SweepSkip
<1> QED BY <1>2, <1>4 DEF StoreInv, SweepSkip

\* Time passes.
LEMMA TickStep ==
  ASSUME StoreInv, Tick
  PROVE  StoreInv' /\ Map!Tick
<1>1. Map!Tick
  BY MappingIs DEF Tick, Map!Tick
<1>2. MaxTime \in Nat
  BY SizeAssumption
<1> QED BY <1>1, <1>2 DEF Tick, StoreInv

\* One command.
LEMMA CommandStep ==
  ASSUME StoreInv, NEW k \in Keys, NEW now \in Nows, Command(k, now)
  PROVE  StoreInv' /\ Map!Next
<1>1. now \in Nat /\ now \in Map!Nows
  BY NowIs
<1>2. {0} \cup Later(now) \subseteq Exps
  <2>1. MaxExp \in Nat
    BY SizeAssumption
  <2> QED BY <1>1, <2>1 DEF Later, Exps
<1>3. CASE Read(k, now)
  BY <1>1, <1>3, ReadStep DEF Map!Next
<1>4. CASE Refuse(k, now)
  BY <1>1, <1>4, RefuseStep DEF Map!Next
<1>5. CASE \E c \in Costs, e \in {0} \cup Later(now) : Write(k, now, c, e, FALSE)
  <2>1. PICK c \in Costs, e \in Exps : Write(k, now, c, e, FALSE)
    BY <1>2, <1>5
  <2>2. PICK keep \in BOOLEAN : Write(k, now, c, e, keep)
    BY <2>1
  <2> QED BY <1>1, <2>2, WriteStep DEF Map!Next
<1>6. CASE \E c \in Costs : Write(k, now, c, 0, TRUE)
  <2>1. PICK c \in Costs, e \in Exps, keep \in BOOLEAN : Write(k, now, c, e, keep)
    BY <1>2, <1>6
  <2> QED BY <1>1, <2>1, WriteStep DEF Map!Next
<1>7. CASE Delete(k, now)
  BY <1>1, <1>7, DeleteStep DEF Map!Next
<1>8. CASE \E e \in {0} \cup Later(now) : SetExpiry(k, now, e)
  <2>1. PICK e \in Exps : SetExpiry(k, now, e)
    BY <1>2, <1>8
  <2> QED BY <1>1, <2>1, SetExpiryStep DEF Map!Next
<1> QED BY <1>3, <1>4, <1>5, <1>6, <1>7, <1>8 DEF Command

\* Every step keeps the invariant, and is a step of the map.
LEMMA StoreStep ==
  ASSUME StoreInv, Next
  PROVE  StoreInv' /\ Map!Next
<1>1. CASE \E k \in Keys, now \in Nows : Command(k, now)
  BY <1>1, CommandStep
<1>2. CASE \E k \in Keys : Evict(k)
  BY <1>2, EvictStep DEF Map!Next
<1>3. CASE Flush
  BY <1>3, FlushStep DEF Map!Next
<1>4. CASE Sweep
  BY <1>4, SweepStep DEF Map!Next
<1>5. CASE SweepSkip
  BY <1>5, SweepSkipStep DEF Map!Next
<1>6. CASE Tick
  BY <1>6, TickStep DEF Map!Next
<1> QED BY <1>1, <1>2, <1>3, <1>4, <1>5, <1>6 DEF Next

LEMMA StoreInit ==
  ASSUME Init
  PROVE  StoreInv /\ Map!Init
<1>1. TableInv(tab) /\ Contents(tab.slots) = {}
  BY FreshIs DEF Init
<1>2. MapFrom(tab) = MapOf({})
  BY <1>1, MapFromIs
<1>3. MapOf({}) = [k \in {} |-> Absent]
  BY DEF MapOf
<1>4. MaxTime \in Nat
  BY SizeAssumption
<1>5. StoreInv
  BY <1>1, <1>4 DEF Init, StoreInv
<1>6. Map!Init
  BY <1>2, <1>3, MappingIs DEF Map!Init, Map!Nothing, Map!Absent, Absent, Init
<1> QED BY <1>5, <1>6

LEMMA StoreIndInv == Spec => []StoreInv
<1>1. Init => StoreInv
  BY StoreInit
<1>2. StoreInv /\ [Next]_vars => StoreInv'
  <2>1. StoreInv /\ Next => StoreInv'
    BY StoreStep
  <2>2. StoreInv /\ UNCHANGED vars => StoreInv'
    BY DEF StoreInv, vars
  <2> QED BY <2>1, <2>2
<1> QED BY <1>1, <1>2, PTL DEF Spec

\* What the operations rely on follows.
LEMMA StoreSound ==
  ASSUME StoreInv
  PROVE  TableSound
<1> DEFINE q == tab.slots
<1>1. /\ TableInv(tab) /\ Sound(q) /\ Table(q) /\ Counted(tab) /\ Room(q) /\ Size(tab) = Width(q)
  BY TableRoom DEF StoreInv, TableInv, Sound, Size, Width
<1>2. TypeOK
  <2>1. /\ DOMAIN q = 0..(Size(tab) - 1) /\ \E j \in 0..Size(tab) : Size(tab) = Doubled[j]
    BY <1>1 DEF Table, TableInv, IsSize
  <2>2. \A i \in DOMAIN q : q[i] \in [key : Keys, exp : Exps, cost : Costs] \cup {Empty, Tomb}
    BY <1>1 DEF Table, Slots
  <2>3. {tab.count, tab.tombs, tab.used, tab.nexp} \subseteq Nat /\ tab.expCur \in 0..Size(tab)
    BY <1>1, CountersNat DEF TableInv
  <2> QED BY <2>1, <2>2, <2>3 DEF TypeOK, StoreInv
<1>3. ProbeEnds
  BY <1>1, FindIs DEF ProbeEnds
<1>4. EveryItemFound
  BY <1>1, FindsItems DEF EveryItemFound, Items
<1>5. CountersMatch
  <2>1. /\ Items(tab) = ItemsOf(q) /\ {i \in DOMAIN q : q[i] = Tomb} = TombsOf(q)
        /\ {i \in Items(tab) : q[i].exp # 0} = TimedOf(q)
    BY DEF Items, ItemsOf, TombsOf, TimedOf, IsTimed
  <2>2. SumFunction([i \in Items(tab) |-> q[i].cost]) = CostOf(q)
    BY <1>1, CostIs
  <2> QED BY <1>1, <2>1, <2>2 DEF CountersMatch, Counted, Tally
<1> QED BY <1>2, <1>3, <1>4, <1>5 DEF TableSound

\* The shard's table is sound, whatever the commands, the evictions and the
\* sweeps: find's unbounded loop ends, every item is where find looks for it,
\* no key is there twice, and the counters that grow, DBSIZE and INFO rely on
\* are those of the table (store.go:195-337).
THEOREM TableSafe == Spec => []TableSound
<1>1. StoreInv => TableSound
  BY StoreSound
<1> QED BY StoreIndInv, <1>1, PTL

\* The commands answer, and change the shard, as they would with a map: del,
\* insert, rehash, and the sweep with its shrinking never lose or revive a key
\* (store.go:195-337, 400-452).
THEOREM TableIsMap == Spec => ImplementsMap
<1>1. Init => Map!Init
  BY StoreInit
<1>2. StoreInv /\ [Next]_vars => [Map!Next]_Map!vars
  <2>1. StoreInv /\ Next => Map!Next
    BY StoreStep
  <2>2. UNCHANGED vars => UNCHANGED Map!vars
    BY MappingIs DEF vars, Map!vars
  <2> QED BY <2>1, <2>2
<1> QED BY StoreIndInv, <1>1, <1>2, PTL DEF Spec, ImplementsMap, Map!Spec

-----------------------------------------------------------------------------
(* Memory.  More about sums.                                                *)

\* Of two sets that have nothing in common.
LEMMA SumSplit ==
  ASSUME NEW S, IsFiniteSet(S), NEW T \in SUBSET S, NEW f, \A x \in S : f[x] \in Int
  PROVE  SumOf(f, S) = SumOf(f, T) + SumOf(f, S \ T)
<1> DEFINE R == S \ T
           P == {U \in SUBSET R : SumOf(f, T \cup U) = SumOf(f, T) + SumOf(f, U)}
<1>1. IsFiniteSet(T) /\ IsFiniteSet(R)
  BY FS_Subset
<1>2. SumOf(f, T) \in Int
  BY <1>1, SumType
<1>3. {} \in P
  BY <1>2, SumEmpty
<1>4. ASSUME NEW U \in SUBSET R, NEW x \in R \ U, U \in P PROVE U \cup {x} \in P
  <2>1. T \cup U \in SUBSET S /\ x \notin T \cup U /\ T \cup (U \cup {x}) = (T \cup U) \cup {x}
    OBVIOUS
  <2>2. IsFiniteSet(T \cup U) /\ IsFiniteSet(U)
    BY <1>1, <2>1, FS_Subset
  <2>3. SumOf(f, (T \cup U) \cup {x}) = f[x] + SumOf(f, T \cup U)
    BY <2>1, <2>2, SumAdd
  <2>4. SumOf(f, U \cup {x}) = f[x] + SumOf(f, U)
    BY <2>2, SumAdd
  <2>5. SumOf(f, U) \in Int
    BY <2>2, SumType
  <2>6. SumOf(f, T \cup U) = SumOf(f, T) + SumOf(f, U) /\ U \cup {x} \in SUBSET R
    BY <1>4
  <2>7. SumOf(f, T \cup (U \cup {x})) = SumOf(f, T) + SumOf(f, U \cup {x})
    <3>1. SumOf(f, T \cup (U \cup {x})) = f[x] + SumOf(f, T \cup U)
      BY <2>1, <2>3
    <3>2. f[x] \in Int
      OBVIOUS
    <3> QED BY <1>2, <2>4, <2>5, <2>6, <3>1, <3>2
  <2> QED BY <2>6, <2>7
<1>5. \A U \in SUBSET R : U \in P
  <2> HIDE DEF P, R
  <2> QED BY <1>1, <1>3, <1>4, OverSubsets
<1>6. R \in P
  <2>1. R \in SUBSET R
    OBVIOUS
  <2> HIDE DEF P, R
  <2> QED BY <1>5, <2>1
<1>7. T \cup R = S /\ SumOf(f, T \cup R) = SumOf(f, T) + SumOf(f, R)
  BY <1>6
<1> QED BY <1>7

\* Each number has a share of c.
LEMMA SumShares ==
  ASSUME NEW S, IsFiniteSet(S), NEW c \in Int, NEW f, NEW g,
         \A x \in S : g[x] \in Int /\ f[x] = c + g[x]
  PROVE  SumOf(f, S) = Cardinality(S) * c + SumOf(g, S)
<1> DEFINE P == {T \in SUBSET S : SumOf(f, T) = Cardinality(T) * c + SumOf(g, T)}
<1>1. {} \in P
  <2>1. Cardinality({}) = 0
    BY FS_EmptySet
  <2> QED BY <2>1, SumEmpty
<1>2. ASSUME NEW T \in SUBSET S, NEW x \in S \ T, T \in P PROVE T \cup {x} \in P
  <2>1. IsFiniteSet(T)
    BY FS_Subset
  <2>2. PICK n \in Nat : n = Cardinality(T)
    BY <2>1, FS_CardinalityType
  <2>3. Cardinality(T \cup {x}) = n + 1
    BY <2>1, <2>2, FS_AddElement
  <2>4. SumOf(f, T \cup {x}) = f[x] + SumOf(f, T)
    <3>1. \A y \in S : f[y] \in Int
      OBVIOUS
    <3> QED BY <2>1, <3>1, SumAdd
  <2>5. SumOf(g, T \cup {x}) = g[x] + SumOf(g, T)
    BY <2>1, SumAdd
  <2>6. PICK s \in Int : s = SumOf(g, T)
    BY <2>1, SumType
  <2>7. SumOf(f, T) = n * c + s
    BY <1>2, <2>2, <2>6
  <2>8. (n + 1) * c = n * c + c /\ n * c \in Int
    OBVIOUS
  <2>9. SumOf(f, T \cup {x}) = (n + 1) * c + SumOf(g, T \cup {x})
    BY <2>4, <2>5, <2>6, <2>7, <2>8
  <2> QED BY <2>3, <2>9
<1>3. \A T \in SUBSET S : T \in P
  <2> HIDE DEF P
  <2> QED BY <1>1, <1>2, OverSubsets
<1> QED BY <1>3

\* All numbers are c.
LEMMA SumEqual ==
  ASSUME NEW S, IsFiniteSet(S), NEW c \in Int, NEW f, \A x \in S : f[x] = c
  PROVE  SumOf(f, S) = Cardinality(S) * c
<1> DEFINE g == [x \in S |-> 0]
<1>1. \A x \in S : g[x] \in Int /\ g[x] = 0 /\ f[x] = c + g[x]
  OBVIOUS
<1> HIDE DEF g
<1>2. SumOf(f, S) = Cardinality(S) * c + SumOf(g, S)
  BY <1>1, SumShares
<1>3. SumOf(g, S) = SumOf(g, {})
  BY <1>1, SumZeros
<1>4. Cardinality(S) * c \in Int
  BY FS_CardinalityType
<1> QED BY <1>2, <1>3, <1>4, SumEmpty

-----------------------------------------------------------------------------
(* The sum of a list.                                                       *)

LEMMA TotalIs ==
  ASSUME NEW s \in Seq(Nat)
  PROVE  /\ Total(s) = SumOf(s, 1..Len(s))
         /\ Total(s) \in Nat
<1>1. DOMAIN s = 1..Len(s) /\ \A i \in 1..Len(s) : s[i] \in Nat
  OBVIOUS
<1>2. Total(s) = SumOf(s, 1..Len(s))
  BY <1>1 DEF Total, SumFunction, SumOf
<1>3. IsFiniteSet(1..Len(s))
  BY FS_Interval
<1> QED BY <1>1, <1>2, <1>3, SumNat

LEMMA TotalEmpty == Total(<<>>) = 0
<1>1. <<>> \in Seq(Nat) /\ 1..Len(<<>>) = {}
  OBVIOUS
<1> QED BY <1>1, TotalIs, SumEmpty

LEMMA TotalAppend ==
  ASSUME NEW s \in Seq(Nat), NEW n \in Nat
  PROVE  Append(s, n) \in Seq(Nat) /\ Total(Append(s, n)) = Total(s) + n
<1> DEFINE t == Append(s, n)
           l == Len(s)
<1>1. /\ t \in Seq(Nat) /\ l \in Nat /\ Len(t) = l + 1 /\ t[l + 1] = n
      /\ \A i \in 1..l : t[i] = s[i] /\ s[i] \in Nat
  OBVIOUS
<1>2. 1..(l + 1) = (1..l) \cup {l + 1} /\ l + 1 \notin 1..l
  BY <1>1
<1>3. IsFiniteSet(1..l)
  BY <1>1, FS_Interval
<1>4. \A y \in (1..l) \cup {l + 1} : t[y] \in Int
  BY <1>1
<1> HIDE DEF t, l
<1>5. SumOf(t, (1..l) \cup {l + 1}) = t[l + 1] + SumOf(t, 1..l)
  BY <1>2, <1>3, <1>4, SumAdd
<1>6. SumOf(t, 1..l) = SumOf(s, 1..l)
  BY <1>1, <1>3, SumSame
<1>7. Total(t) = SumOf(t, 1..(l + 1)) /\ Total(s) = SumOf(s, 1..l) /\ Total(s) \in Nat
  BY <1>1, TotalIs DEF l
<1>8. Total(t) = Total(s) + n
  <2>1. SumOf(t, 1..(l + 1)) = t[l + 1] + SumOf(t, 1..l)
    BY <1>2, <1>5
  <2>2. t[l + 1] = n /\ SumOf(t, 1..l) = Total(s) /\ Total(t) = SumOf(t, 1..(l + 1))
    BY <1>1, <1>6, <1>7
  <2>3. Total(t) = n + Total(s)
    BY <2>1, <2>2
  <2> QED BY <1>7, <2>3
<1> QED BY <1>1, <1>8 DEF t

\* Induction over a list, from the front.
LEMMA OverLists ==
  ASSUME NEW s \in Seq(Nat), NEW P, <<>> \in P,
         \A t \in Seq(Nat), n \in Nat : t \in P => Append(t, n) \in P
  PROVE  s \in P
<1> DEFINE N == Len(s)
           Q == {i \in 0..N : SubSeq(s, 1, i) \in P}
<1>1. N \in Nat /\ 0 \in Q
  <2>1. SubSeq(s, 1, 0) = <<>> /\ N \in Nat
    BY SubSeqEmpty
  <2>2. SubSeq(s, 1, 0) \in P
    BY <2>1
  <2> QED BY <2>1, <2>2
<1>2. ASSUME NEW i \in 0..(N - 1), i \in Q PROVE i + 1 \in Q
  <2>1. SubSeq(s, 1, i) \in Seq(Nat) /\ s[i + 1] \in Nat
    OBVIOUS
  <2>2. SubSeq(s, 1, i + 1) = Append(SubSeq(s, 1, i), s[i + 1])
    OBVIOUS
  <2>3. Append(SubSeq(s, 1, i), s[i + 1]) \in P
    BY <1>2, <2>1
  <2>4. SubSeq(s, 1, i + 1) \in P
    BY <2>2, <2>3
  <2>5. i + 1 \in 0..N
    BY <1>1
  <2> QED BY <2>4, <2>5
<1>3. N \in Q
  <2>1. \A i \in 0..N : i \in Q
    <3> HIDE DEF Q, N
    <3> QED BY <1>1, <1>2, UpTo
  <2>2. N \in 0..N
    BY <1>1
  <2> HIDE DEF Q, N
  <2> QED BY <2>1, <2>2
<1>4. SubSeq(s, 1, N) = s
  OBVIOUS
<1> QED BY <1>3, <1>4

LEMMA TotalConcat ==
  ASSUME NEW s \in Seq(Nat), NEW t \in Seq(Nat)
  PROVE  s \o t \in Seq(Nat) /\ Total(s \o t) = Total(s) + Total(t)
<1> DEFINE P == {u \in Seq(Nat) : Total(s \o u) = Total(s) + Total(u)}
<1>1. <<>> \in P
  <2>1. s \o <<>> = s /\ <<>> \in Seq(Nat)
    OBVIOUS
  <2> QED BY <2>1, TotalEmpty, TotalIs
<1>2. ASSUME NEW u \in Seq(Nat), NEW n \in Nat, u \in P PROVE Append(u, n) \in P
  <2>1. s \o Append(u, n) = Append(s \o u, n) /\ s \o u \in Seq(Nat)
    OBVIOUS
  <2>2. Total(Append(s \o u, n)) = Total(s \o u) + n
    BY <2>1, TotalAppend
  <2>3. Total(Append(u, n)) = Total(u) + n /\ Append(u, n) \in Seq(Nat)
    BY TotalAppend
  <2>4. Total(s) \in Nat /\ Total(u) \in Nat /\ Total(s \o u) = Total(s) + Total(u)
    BY <1>2, TotalIs
  <2>5. Total(s \o Append(u, n)) = Total(s) + Total(Append(u, n))
    BY <2>1, <2>2, <2>3, <2>4
  <2> QED BY <2>3, <2>5
<1>3. t \in P
  <2> HIDE DEF P
  <2> QED BY <1>1, <1>2, OverLists
<1> QED BY <1>3

LEMMA TotalReversed ==
  ASSUME NEW s \in Seq(Nat)
  PROVE  /\ Reversed(s) \in Seq(Nat) /\ Len(Reversed(s)) = Len(s)
         /\ Total(Reversed(s)) = Total(s)
<1> DEFINE P == {u \in Seq(Nat) : Total(Reversed(u)) = Total(u)}
<1>1. ASSUME NEW u \in Seq(Nat) PROVE Reversed(u) \in Seq(Nat) /\ Len(Reversed(u)) = Len(u)
  BY DEF Reversed
<1>2. <<>> \in P
  <2>1. Reversed(<<>>) = <<>>
    BY DEF Reversed
  <2> QED BY <2>1
<1>3. ASSUME NEW u \in Seq(Nat), NEW n \in Nat, u \in P PROVE Append(u, n) \in P
  <2>1. Reversed(Append(u, n)) = <<n>> \o Reversed(u)
    BY <1>1 DEF Reversed
  <2>2. <<n>> \in Seq(Nat) /\ Total(<<n>>) = n
    <3>1. <<n>> = Append(<<>>, n) /\ <<>> \in Seq(Nat)
      OBVIOUS
    <3>2. Total(Append(<<>>, n)) = Total(<<>>) + n
      BY <3>1, TotalAppend
    <3> QED BY <3>1, <3>2, TotalEmpty
  <2>3. Total(<<n>> \o Reversed(u)) = n + Total(Reversed(u))
    BY <1>1, <2>2, TotalConcat
  <2>4. Total(Append(u, n)) = Total(u) + n /\ Append(u, n) \in Seq(Nat)
    BY TotalAppend
  <2>5. Total(u) \in Nat /\ Total(Reversed(u)) = Total(u)
    BY <1>3, TotalIs
  <2>6. Total(Reversed(Append(u, n))) = Total(Append(u, n))
    BY <2>1, <2>3, <2>4, <2>5
  <2> QED BY <2>4, <2>6
<1>4. s \in P
  <2> HIDE DEF P
  <2> QED BY <1>2, <1>3, OverLists
<1> QED BY <1>1, <1>4

\* A list that is cut in two.
LEMMA TotalCut ==
  ASSUME NEW s \in Seq(Nat), NEW n \in 0..Len(s)
  PROVE  /\ SubSeq(s, 1, n) \in Seq(Nat) /\ Len(SubSeq(s, 1, n)) = n
         /\ SubSeq(s, n + 1, Len(s)) \in Seq(Nat) /\ Len(SubSeq(s, n + 1, Len(s))) = Len(s) - n
         /\ Total(s) = Total(SubSeq(s, 1, n)) + Total(SubSeq(s, n + 1, Len(s)))
<1>1. /\ SubSeq(s, 1, n) \in Seq(Nat) /\ Len(SubSeq(s, 1, n)) = n
      /\ SubSeq(s, n + 1, Len(s)) \in Seq(Nat) /\ Len(SubSeq(s, n + 1, Len(s))) = Len(s) - n
  OBVIOUS
<1>2. s = SubSeq(s, 1, n) \o SubSeq(s, n + 1, Len(s))
  <2>1. SubSeq(s, 1, n) \o SubSeq(s, n + 1, Len(s)) = SubSeq(s, 1, Len(s))
    <3>1. PICK m \in 1..(Len(s) + 1) : m = 1
      OBVIOUS
    <3>2. n \in (m - 1)..Len(s) /\ Len(s) \in n..Len(s)
      BY <3>1
    <3>3. SubSeq(s, m, n) \o SubSeq(s, n + 1, Len(s)) = SubSeq(s, m, Len(s))
      BY <3>2, ConcatAdjacentSubSeq
    <3> QED BY <3>1, <3>3
  <2> QED BY <2>1, SubSeqFull
<1> QED BY <1>1, <1>2, TotalConcat
-----------------------------------------------------------------------------
(* The items.                                                               *)

HashCost(h) == SumOf([f \in DOMAIN h |-> FieldBase + h[f]], DOMAIN h)

\* A hash object.
IsHash(h) == DOMAIN h \in SUBSET Fields /\ h \in [DOMAIN h -> Nat]

\* The constants are natural numbers.
LEMMA BasesNat ==
  /\ KeyBase \in Nat /\ ElemBase \in Nat /\ FieldBase \in Nat /\ MaxMemory \in Nat
  /\ MaxList \in Nat /\ Lengths \subseteq Nat /\ IsFiniteSet(MemKeys) /\ IsFiniteSet(Fields)
BY MemoryAssumption

LEMMA HashCostNat ==
  ASSUME NEW h, IsHash(h)
  PROVE  /\ IsFiniteSet(DOMAIN h) /\ HashCost(h) \in Nat
         /\ \A S \in SUBSET DOMAIN h : IsFiniteSet(S) /\ SumOf(h, S) \in Nat
<1>1. \A S \in SUBSET DOMAIN h : IsFiniteSet(S)
  BY BasesNat, FS_Subset DEF IsHash
<1>2. \A S \in SUBSET DOMAIN h : SumOf(h, S) \in Nat
  BY <1>1, SumNat DEF IsHash
<1> DEFINE w == [f \in DOMAIN h |-> FieldBase + h[f]]
<1>3. \A f \in DOMAIN h : w[f] \in Nat
  BY BasesNat DEF IsHash
<1>4. IsFiniteSet(DOMAIN h) /\ HashCost(h) = SumOf(w, DOMAIN h)
  BY <1>1 DEF HashCost
<1> HIDE DEF w
<1>5. SumOf(w, DOMAIN h) \in Nat
  BY <1>3, <1>4, SumNat
<1> QED BY <1>1, <1>2, <1>4, <1>5

\* The part of the cost that some fields have.
LEMMA HashPart ==
  ASSUME NEW h, IsHash(h), NEW S \in SUBSET DOMAIN h
  PROVE  HashCost(h) = Cardinality(S) * FieldBase + SumOf(h, S)
                            + SumOf([f \in DOMAIN h |-> FieldBase + h[f]], DOMAIN h \ S)
<1> DEFINE w == [f \in DOMAIN h |-> FieldBase + h[f]]
<1>1. \A f \in DOMAIN h : w[f] \in Int /\ w[f] = FieldBase + h[f] /\ h[f] \in Int
  BY BasesNat DEF IsHash
<1>2. HashCost(h) = SumOf(w, DOMAIN h) /\ IsFiniteSet(DOMAIN h) /\ IsFiniteSet(S)
  BY HashCostNat DEF HashCost
<1>3. SumOf(w, DOMAIN h) = SumOf(w, S) + SumOf(w, DOMAIN h \ S)
  <2> HIDE DEF w
  <2> QED BY <1>1, <1>2, SumSplit
<1>4. SumOf(w, S) = Cardinality(S) * FieldBase + SumOf(h, S)
  <2>1. \A f \in S : h[f] \in Int /\ w[f] = FieldBase + h[f]
    BY <1>1
  <2>2. FieldBase \in Int
    BY BasesNat
  <2> HIDE DEF w
  <2> QED BY <1>2, <2>1, <2>2, SumShares
<1> QED BY <1>2, <1>3, <1>4

\* HDEL takes the fields of gone.
LEMMA HashDrop ==
  ASSUME NEW h, IsHash(h), NEW gone \in SUBSET DOMAIN h, NEW left,
         left = [f \in DOMAIN h \ gone |-> h[f]]
  PROVE  /\ IsHash(left)
         /\ HashCost(left) = HashCost(h) - Cardinality(gone) * FieldBase - SumOf(h, gone)
         /\ HashCost(left) <= HashCost(h)
<1> DEFINE D == DOMAIN h \ gone
           w == [f \in DOMAIN h |-> FieldBase + h[f]]
           u == [f \in D |-> FieldBase + left[f]]
<1>1. IsHash(left) /\ DOMAIN left = D
  BY DEF IsHash
<1>2. \A f \in D : u[f] \in Int /\ u[f] = w[f]
  BY BasesNat DEF IsHash
<1>3. IsFiniteSet(D)
  BY HashCostNat
<1>4. HashCost(left) = SumOf(u, D)
  BY <1>1 DEF HashCost
<1>5. HashCost(h) = Cardinality(gone) * FieldBase + SumOf(h, gone) + SumOf(w, D)
  BY HashPart
<1>6. SumOf(u, D) = SumOf(w, D)
  <2> HIDE DEF u, w, D
  <2> QED BY <1>2, <1>3, SumSame
<1>7. SumOf(h, gone) \in Nat /\ HashCost(left) \in Nat
  BY <1>1, HashCostNat
<1>8. Cardinality(gone) * FieldBase \in Nat
  <2>1. Cardinality(gone) \in Nat
    BY HashCostNat, FS_CardinalityType
  <2> QED BY <2>1, BasesNat
<1> HIDE DEF u, w, D
<1> QED BY <1>1, <1>4, <1>5, <1>6, <1>7, <1>8

\* set is the hash h with the fields of F set to n, and the fields of new are new.
SetsTo(h, F, n, set, new) ==
  /\ set \in [F \cup DOMAIN h -> Nat] /\ new = F \ DOMAIN h
  /\ \A f \in F : set[f] = n
  /\ \A f \in DOMAIN h \ F : set[f] = h[f]

\* HSET sets the fields of F to n.
LEMMA HashSet ==
  ASSUME NEW h, IsHash(h), NEW F \in SUBSET Fields, F # {}, NEW n \in Nat, NEW set,
         NEW new, SetsTo(h, F, n, set, new)
  PROVE  /\ IsHash(set) /\ DOMAIN set # {}
         /\ HashCost(set) = HashCost(h) + (Cardinality(new) * FieldBase + Cardinality(F) * n
                                             - SumOf(h, F \ new))
         /\ HashCost(set) <= HashCost(h) + Cardinality(F) * (FieldBase + n)
<1> DEFINE S == F \cup DOMAIN h
           old == F \ new
           R == DOMAIN h \ old
           g == [f \in S |-> FieldBase + set[f]]
           w == [f \in DOMAIN h |-> FieldBase + h[f]]
<1>0. /\ set \in [F \cup DOMAIN h -> Nat] /\ new = F \ DOMAIN h
      /\ \A f \in F : set[f] = n
      /\ \A f \in DOMAIN h \ F : set[f] = h[f]
  BY DEF SetsTo
<1>1. IsHash(set) /\ DOMAIN set = S /\ S # {}
  BY <1>0 DEF IsHash
<1>2. IsFiniteSet(S) /\ IsFiniteSet(F) /\ IsFiniteSet(new) /\ IsFiniteSet(old) /\ IsFiniteSet(R)
  BY <1>0, BasesNat, FS_Subset DEF IsHash
<1>3. S \ F = R /\ old \in SUBSET DOMAIN h /\ F \in SUBSET S
  BY <1>0
<1>4. \A f \in S : g[f] \in Int
  BY <1>0, BasesNat DEF IsHash
<1>5. \A f \in F : g[f] = FieldBase + n
  BY <1>0
<1>6. \A f \in R : g[f] = w[f]
  BY <1>0
<1>7. HashCost(set) = SumOf(g, S)
  BY <1>1 DEF HashCost
<1>8. HashCost(h) = Cardinality(old) * FieldBase + SumOf(h, old) + SumOf(w, R)
  BY <1>3, HashPart
<1> HIDE DEF g, w, S, R
<1>9. SumOf(g, S) = SumOf(g, F) + SumOf(g, R)
  BY <1>2, <1>3, <1>4, SumSplit
<1>10. SumOf(g, F) = Cardinality(F) * (FieldBase + n)
  <2>1. FieldBase + n \in Int
    BY BasesNat
  <2> QED BY <1>2, <1>5, <2>1, SumEqual
<1>11. SumOf(g, R) = SumOf(w, R)
  <2>1. \A f \in R : g[f] \in Int /\ g[f] = w[f]
    BY <1>3, <1>4, <1>6
  <2> QED BY <1>2, <2>1, SumSame
<1>12. Cardinality(F) = Cardinality(new) + Cardinality(old)
  <2>1. F \cap new = new
    BY <1>0
  <2>2. Cardinality(old) = Cardinality(F) - Cardinality(F \cap new)
    BY <1>2, FS_Difference
  <2>3. Cardinality(F) \in Nat /\ Cardinality(new) \in Nat
    BY <1>2, FS_CardinalityType
  <2>4. Cardinality(old) = Cardinality(F) - Cardinality(new)
    BY <2>1, <2>2
  <2> HIDE DEF old
  <2> QED BY <2>3, <2>4
<1>13. PICK a \in Nat, b \in Nat : a = Cardinality(new) /\ b = Cardinality(old)
  BY <1>2, FS_CardinalityType
<1>14. PICK s \in Nat, r \in Int : s = SumOf(h, old) /\ r = SumOf(w, R)
  <2>1. SumOf(h, old) \in Nat
    BY <1>3, HashCostNat
  <2>2. SumOf(g, R) \in Int
    BY <1>2, <1>3, <1>4, SumType
  <2> QED BY <2>1, <2>2, <1>11
<1>15. HashCost(h) = b * FieldBase + s + r
  BY <1>8, <1>13, <1>14
<1>16. HashCost(set) = (a + b) * (FieldBase + n) + r
  BY <1>7, <1>9, <1>10, <1>11, <1>12, <1>13, <1>14
<1>17. Cardinality(F) = a + b
  BY <1>12, <1>13
<1>18. /\ (a + b) * (FieldBase + n) = a * FieldBase + b * FieldBase + (a + b) * n
       /\ a * FieldBase \in Nat /\ b * FieldBase \in Nat /\ (a + b) * n \in Nat
  BY BasesNat
<1>19. HashCost(set) = HashCost(h) + (a * FieldBase + (a + b) * n - s)
  BY <1>14, <1>15, <1>16, <1>18
<1>20. HashCost(set) <= HashCost(h) + (a + b) * (FieldBase + n)
  BY <1>14, <1>18, <1>19, HashCostNat
<1> QED BY <1>1, <1>13, <1>14, <1>17, <1>19, <1>20

\* What the table may have for a key.
MemItem(it) ==
  /\ it = [typ |-> it.typ, len |-> it.len, list |-> it.list, hash |-> it.hash, cost |-> it.cost]
  /\ it.typ \in {"none", "str", "list", "hash"}
  /\ it.len \in Nat /\ it.cost \in Nat /\ it.list \in Seq(Nat) /\ IsHash(it.hash)
  /\ it.typ = "none" => it = NoItem
  /\ it.typ = "list" => it.list # <<>> /\ it.cost = Total(it.list) + ElemBase * Len(it.list)
  /\ it.typ = "hash" => DOMAIN it.hash # {} /\ it.cost = HashCost(it.hash)

\* What the commands account for an item is what it costs by definition.
LEMMA ItemCosts ==
  ASSUME NEW it, MemItem(it)
  PROVE  Cost(it) \in Nat /\ ValueCost(it) = Cost(it)
<1>1. it.typ = "hash" => HashCost(it.hash) = SumFunction([f \in DOMAIN it.hash |-> FieldBase + it.hash[f]])
  BY DEF HashCost, SumOf, SumFunction
<1>2. Cost(it) \in Nat
  BY BasesNat DEF MemItem, Cost
<1>3. CASE it.typ = "list"
  <2>1. PICK t \in Nat, e \in Nat : t = Total(it.list) /\ e = ElemBase * Len(it.list)
    <3>1. Total(it.list) \in Nat
      BY TotalIs DEF MemItem
    <3>2. ElemBase * Len(it.list) \in Nat
      <4>1. Len(it.list) \in Nat
        BY DEF MemItem
      <4> QED BY <4>1, BasesNat
    <3> QED BY <3>1, <3>2
  <2>2. it.cost = t + e
    BY <1>3, <2>1 DEF MemItem
  <2>3. ValueCost(it) = KeyBase + t + e /\ Cost(it) = KeyBase + (t + e)
    BY <1>3, <2>1, <2>2 DEF ValueCost, Cost
  <2> QED BY <1>2, <2>3, BasesNat
<1>4. CASE it.typ = "hash"
  <2>1. ValueCost(it) = KeyBase + HashCost(it.hash)
    BY <1>1, <1>4 DEF ValueCost
  <2>2. Cost(it) = KeyBase + HashCost(it.hash)
    BY <1>4 DEF MemItem, Cost
  <2> QED BY <1>2, <2>1, <2>2
<1>5. CASE it.typ \in {"none", "str"}
  BY <1>2, <1>5 DEF ValueCost, Cost
<1> QED BY <1>3, <1>4, <1>5 DEF MemItem

LEMMA NoItemIs == MemItem(NoItem) /\ Cost(NoItem) = 0
<1> DEFINE h == [f \in {} |-> 0]
<1>1. DOMAIN h = {} /\ IsHash(h)
  BY DEF IsHash
<1>2. <<>> \in Seq(Nat)
  OBVIOUS
<1> QED BY <1>1, <1>2 DEF MemItem, NoItem, Cost

LEMMA StrIs ==
  ASSUME NEW n \in Nat
  PROVE  MemItem(Str(n)) /\ Cost(Str(n)) = KeyBase + n
<1>1. Str(n) = [typ |-> "str", len |-> n, list |-> <<>>, hash |-> NoItem.hash, cost |-> 0]
  <2>1. /\ NoItem = [typ |-> NoItem.typ, len |-> NoItem.len, list |-> NoItem.list,
                     hash |-> NoItem.hash, cost |-> NoItem.cost]
        /\ NoItem.list = <<>> /\ NoItem.cost = 0
    BY DEF NoItem
  <2>2. Str(n) = [NoItem EXCEPT !.typ = "str", !.len = n]
    BY DEF Str
  <2> QED BY ONLY <2>1, <2>2
<1>2. IsHash(NoItem.hash)
  BY NoItemIs DEF MemItem
<1>3. <<>> \in Seq(Nat)
  OBVIOUS
<1> QED BY <1>1, <1>2, <1>3 DEF MemItem, Cost

-----------------------------------------------------------------------------
(* The account, and what keeps it within the limit.                         *)

\* What the keys of K cost in m.
Charge(m, K) == SumOf([k \in MemKeys |-> Cost(m[k])], K)

\* The table and the counter.
Accounts ==
  /\ mem = [k \in MemKeys |-> mem[k]]
  /\ \A k \in MemKeys : MemItem(mem[k])
  /\ used = Charge(mem, MemKeys)

\* The clients that have written.
Evictors ==
  /\ evictor \in [MemClients -> [keys : SUBSET MemKeys, over : BOOLEAN]]
  /\ \A c \in MemClients : ~ Idle(c) => evictor[c].keys # {}

\* If the limit is exceeded then evict has given up, INCR wrote a key that does not fit, or
\* one of the clients that are evicting protects no more than fits.
Held ==
  \/ used <= MaxMemory
  \/ gaveUp
  \/ overgrown # {}
  \/ \E c \in MemClients : ~ Idle(c) /\ Charge(mem, evictor[c].keys) <= MaxMemory

History == gaveUp \in BOOLEAN /\ overgrown \in SUBSET MemKeys

Fitted == \A k \in MemKeys : k \notin overgrown => Cost(mem[k]) <= MaxMemory

MemInv == Accounts /\ Evictors /\ History /\ Fitted /\ Held

\* Keys cost natural numbers.
LEMMA ChargeNat ==
  ASSUME NEW m, \A k \in MemKeys : MemItem(m[k]), NEW K \in SUBSET MemKeys
  PROVE  IsFiniteSet(K) /\ Charge(m, K) \in Nat
<1> DEFINE f == [k \in MemKeys |-> Cost(m[k])]
<1>1. IsFiniteSet(K)
  BY BasesNat, FS_Subset
<1>2. \A k \in K : f[k] \in Nat
  BY ItemCosts
<1>3. SumOf(f, K) \in Nat
  <2> HIDE DEF f
  <2> QED BY <1>1, <1>2, SumNat
<1> QED BY <1>1, <1>3 DEF Charge

\* The charge of a set that holds what another one has and more.
LEMMA ChargeSplit ==
  ASSUME NEW m, \A k \in MemKeys : MemItem(m[k]), NEW K \in SUBSET MemKeys
  PROVE  Charge(m, MemKeys) = Charge(m, K) + Charge(m, MemKeys \ K)
<1> DEFINE f == [k \in MemKeys |-> Cost(m[k])]
<1>1. \A k \in MemKeys : f[k] \in Int
  BY ItemCosts
<1>2. SumOf(f, MemKeys) = SumOf(f, K) + SumOf(f, MemKeys \ K)
  <2> HIDE DEF f
  <2> QED BY <1>1, BasesNat, SumSplit
<1> QED BY <1>2 DEF Charge

LEMMA ChargeSame ==
  ASSUME NEW m, \A k \in MemKeys : MemItem(m[k]), NEW K \in SUBSET MemKeys, NEW l,
         \A k \in K : l[k] = m[k]
  PROVE  Charge(l, K) = Charge(m, K)
<1> DEFINE f == [k \in MemKeys |-> Cost(m[k])]
           g == [k \in MemKeys |-> Cost(l[k])]
<1>1. \A k \in K : f[k] \in Int /\ f[k] = g[k]
  BY ItemCosts
<1>2. IsFiniteSet(K)
  BY ChargeNat
<1>3. SumOf(f, K) = SumOf(g, K)
  <2> HIDE DEF f, g
  <2> QED BY <1>1, <1>2, SumSame
<1> QED BY <1>3 DEF Charge

\* One key costs what its item costs.
LEMMA ChargeOne ==
  ASSUME NEW m, \A k \in MemKeys : MemItem(m[k]), NEW k \in MemKeys
  PROVE  Charge(m, {k}) = Cost(m[k])
<1> DEFINE f == [x \in MemKeys |-> Cost(m[x])]
<1>1. f[k] \in Int /\ f[k] = Cost(m[k])
  BY ItemCosts
<1>2. IsFiniteSet({}) /\ k \notin {} /\ {} \cup {k} = {k}
  BY FS_EmptySet
<1>3. \A y \in {} \cup {k} : f[y] \in Int
  BY <1>1
<1> HIDE DEF f
<1>4. SumOf(f, {} \cup {k}) = f[k] + SumOf(f, {})
  BY <1>2, <1>3, SumAdd
<1>5. SumOf(f, {k}) = f[k] + 0
  BY <1>2, <1>4, SumEmpty
<1>6. SumOf(f, {k}) = Cost(m[k])
  BY <1>1, <1>5
<1> QED BY <1>6 DEF Charge, f

\* A key gets another item.
LEMMA ChargeChanges ==
  ASSUME NEW m, \A x \in MemKeys : MemItem(m[x]), NEW k \in MemKeys, NEW it, MemItem(it),
         NEW l, m = [x \in MemKeys |-> m[x]], l = [m EXCEPT ![k] = it]
  PROVE  /\ \A x \in MemKeys : MemItem(l[x])
         /\ l = [x \in MemKeys |-> l[x]] /\ l[k] = it
         /\ \A K \in SUBSET MemKeys :
              Charge(l, K) = IF k \in K THEN Charge(m, K) - Cost(m[k]) + Cost(it) ELSE Charge(m, K)
<1>1. \A x \in MemKeys : l[x] = IF x = k THEN it ELSE m[x]
  OBVIOUS
<1>2. l = [x \in MemKeys |-> l[x]] /\ \A x \in MemKeys : MemItem(l[x])
  BY <1>1
<1> DEFINE f == [x \in MemKeys |-> Cost(m[x])]
           g == [x \in MemKeys |-> Cost(l[x])]
<1>3. ASSUME NEW K \in SUBSET MemKeys, k \in K
      PROVE  Charge(l, K) = Charge(m, K) - Cost(m[k]) + Cost(it)
  <2>1. \A y \in K : f[y] \in Int /\ g[y] \in Int /\ (y # k => g[y] = f[y])
    BY <1>1, <1>2, ItemCosts
  <2>2. IsFiniteSet(K) /\ f[k] = Cost(m[k]) /\ g[k] = Cost(it)
    BY <1>1, ChargeNat
  <2>3. SumOf(g, K) = SumOf(f, K) - f[k] + g[k]
    <3> HIDE DEF f, g
    <3> QED BY <1>3, <2>1, <2>2, SumChange
  <2>4. SumOf(g, K) = Charge(l, K) /\ SumOf(f, K) = Charge(m, K)
    BY DEF Charge
  <2> HIDE DEF f, g
  <2> QED BY <2>2, <2>3, <2>4
<1>4. ASSUME NEW K \in SUBSET MemKeys, k \notin K
      PROVE  Charge(l, K) = Charge(m, K)
  <2>1. \A x \in K : l[x] = m[x]
    BY <1>1, <1>4
  <2> QED BY <2>1, ChargeSame
<1> QED BY <1>1, <1>2, <1>3, <1>4

\* The operators of the module.
LEMMA ChargedIs ==
  /\ \A K : Charged(K) = Charge(mem, K)
  /\ \A k, it : Account(k, it) = used + Cost(it) - Cost(mem[k])
BY DEF Charged, Charge, SumOf, Account

-----------------------------------------------------------------------------
(* The steps.                                                               *)

\* Who has written protects the keys it wrote.
LEMMA WriterProtects ==
  ASSUME Evictors, NEW c \in MemClients, Idle(c), NEW K \in SUBSET MemKeys, K # {},
         evictor' = [evictor EXCEPT ![c].keys = K]
  PROVE  Evictors' /\ ~ Idle(c)' /\ evictor'[c].keys = K
<1>1. evictor \in [MemClients -> [keys : SUBSET MemKeys, over : BOOLEAN]]
  BY DEF Evictors
<1>2. evictor' = [evictor EXCEPT ![c] = [keys |-> K, over |-> FALSE]]
  <2>1. evictor[c] = [keys |-> {}, over |-> FALSE]
    BY DEF Idle, NoEvict
  <2>2. evictor' = [evictor EXCEPT ![c] = [evictor[c] EXCEPT !.keys = K]]
    OBVIOUS
  <2>3. [evictor[c] EXCEPT !.keys = K] = [keys |-> K, over |-> FALSE]
    <3>1. PICK e \in [keys : SUBSET MemKeys, over : BOOLEAN] : e = evictor[c] /\ e.over = FALSE
      BY <1>1, <2>1
    <3>2. [e EXCEPT !.keys = K] = [keys |-> K, over |-> e.over]
      OBVIOUS
    <3> QED BY <3>1, <3>2
  <2> QED BY ONLY <2>2, <2>3
<1>3. evictor' \in [MemClients -> [keys : SUBSET MemKeys, over : BOOLEAN]]
  BY <1>1, <1>2
<1>4. evictor'[c].keys = K /\ ~ Idle(c)'
  BY <1>1, <1>2 DEF Idle, NoEvict
<1>5. \A d \in MemClients : d # c => evictor'[d] = evictor[d]
  BY <1>1, <1>2
<1>6. \A d \in MemClients : ~ Idle(d)' => evictor'[d].keys # {}
  BY <1>4, <1>5 DEF Evictors, Idle
<1> QED BY <1>3, <1>4, <1>6 DEF Evictors

\* A command writes the item of a key; it fits, or it is INCR's.
LEMMA PutStep ==
  ASSUME MemInv, NEW c \in MemClients, Idle(c), NEW k \in MemKeys, NEW it, MemItem(it),
         PutItem(c, k, it),
         \/ Cost(it) <= MaxMemory /\ overgrown' = overgrown
         \/ overgrown' = overgrown \cup {k}
  PROVE  MemInv'
<1>1. /\ \A x \in MemKeys : MemItem(mem[x])
      /\ mem = [x \in MemKeys |-> mem[x]] /\ used = Charge(mem, MemKeys)
  BY DEF MemInv, Accounts
<1>2. mem' = [mem EXCEPT ![k] = it] /\ used' = used + Cost(it) - Cost(mem[k])
  BY ChargedIs DEF PutItem
<1>3. /\ \A x \in MemKeys : MemItem(mem'[x])
      /\ mem' = [x \in MemKeys |-> mem'[x]] /\ mem'[k] = it
      /\ \A K \in SUBSET MemKeys :
           Charge(mem', K) = IF k \in K THEN Charge(mem, K) - Cost(mem[k]) + Cost(it) ELSE Charge(mem, K)
  BY <1>1, <1>2, ChargeChanges
<1>4. Cost(it) \in Nat /\ Cost(mem[k]) \in Nat /\ Charge(mem, MemKeys) \in Nat
  BY <1>1, ItemCosts, ChargeNat
<1>5. Accounts'
  <2>1. Charge(mem', MemKeys) = Charge(mem, MemKeys) - Cost(mem[k]) + Cost(it)
    BY <1>3
  <2>2. used' = Charge(mem', MemKeys)
    BY <1>1, <1>2, <1>4, <2>1
  <2> QED BY <1>3, <2>2 DEF Accounts
<1>6. Evictors' /\ ~ Idle(c)' /\ evictor'[c].keys = {k}
  <2>1. PICK K \in SUBSET MemKeys : K = {k}
    OBVIOUS
  <2>2. K # {} /\ evictor' = [evictor EXCEPT ![c].keys = K]
    BY <2>1 DEF PutItem
  <2>3. Evictors' /\ ~ Idle(c)' /\ evictor'[c].keys = K
    BY <2>2, WriterProtects DEF MemInv
  <2> QED BY <2>1, <2>3
<1>7. History'
  BY DEF MemInv, History, PutItem
<1>8. Fitted'
  <2>1. \A x \in MemKeys : x \notin overgrown => Cost(mem[x]) <= MaxMemory
    BY DEF MemInv, Fitted
  <2>2. ASSUME NEW x \in MemKeys, x \notin overgrown' PROVE Cost(mem'[x]) <= MaxMemory
    <3>1. CASE x = k
      BY <1>3, <2>2, <3>1
    <3>2. CASE x # k
      <4>1. mem'[x] = mem[x]
        BY <1>1, <1>2, <3>2
      <4> QED BY <2>1, <2>2, <4>1
    <3> QED BY <3>1, <3>2
  <2> QED BY <2>2 DEF Fitted
<1>9. Held'
  <2>1. CASE overgrown' = overgrown \cup {k}
    BY <2>1 DEF Held
  <2>2. CASE Cost(it) <= MaxMemory
    <3>1. Charge(mem', {k}) = Cost(it)
      BY <1>3, ChargeOne
    <3>2. Charge(mem', evictor'[c].keys) <= MaxMemory
      BY <1>6, <2>2, <3>1
    <3> QED BY <1>6, <3>2 DEF Held
  <2> QED BY <2>1, <2>2
<1> QED BY <1>5, <1>6, <1>7, <1>8, <1>9 DEF MemInv

\* A key loses something: nothing that was within the limit is beyond it now.
LEMMA LessStep ==
  ASSUME MemInv, NEW k \in MemKeys, NEW it, MemItem(it), Cost(it) <= Cost(mem[k]),
         mem' = [mem EXCEPT ![k] = it], used' = Account(k, it)
  PROVE  /\ Accounts' /\ used' <= used
         /\ overgrown' = overgrown => Fitted'
         /\ \A K \in SUBSET MemKeys : Charge(mem', K) <= Charge(mem, K)
<1>1. /\ \A x \in MemKeys : MemItem(mem[x])
      /\ mem = [x \in MemKeys |-> mem[x]] /\ used = Charge(mem, MemKeys)
  BY DEF MemInv, Accounts
<1>2. used' = used + Cost(it) - Cost(mem[k])
  BY ChargedIs
<1>3. /\ \A x \in MemKeys : MemItem(mem'[x])
      /\ mem' = [x \in MemKeys |-> mem'[x]] /\ mem'[k] = it
      /\ \A K \in SUBSET MemKeys :
           Charge(mem', K) = IF k \in K THEN Charge(mem, K) - Cost(mem[k]) + Cost(it) ELSE Charge(mem, K)
  BY <1>1, ChargeChanges
<1>4. /\ Cost(it) \in Nat /\ Cost(mem[k]) \in Nat
      /\ \A K \in SUBSET MemKeys : Charge(mem, K) \in Nat
  BY <1>1, ItemCosts, ChargeNat
<1>5. Accounts'
  <2>1. Charge(mem', MemKeys) = Charge(mem, MemKeys) - Cost(mem[k]) + Cost(it)
    BY <1>3
  <2>2. Charge(mem, MemKeys) \in Nat
    BY <1>4
  <2>3. used' = Charge(mem', MemKeys)
    BY <1>1, <1>2, <1>4, <2>1, <2>2
  <2> QED BY <1>3, <2>3 DEF Accounts
<1>6. used' <= used
  <2>1. used \in Nat
    BY <1>1, <1>4
  <2> QED BY <1>2, <1>4, <2>1
<1>7. ASSUME NEW K \in SUBSET MemKeys PROVE Charge(mem', K) <= Charge(mem, K)
  <2>1. Charge(mem, K) \in Nat
    BY <1>4
  <2>2. \/ Charge(mem', K) = Charge(mem, K) - Cost(mem[k]) + Cost(it)
        \/ Charge(mem', K) = Charge(mem, K)
    BY <1>3
  <2> QED BY <1>4, <2>1, <2>2
<1>8. ASSUME overgrown' = overgrown PROVE Fitted'
  <2>1. \A x \in MemKeys : x \notin overgrown => Cost(mem[x]) <= MaxMemory
    BY DEF MemInv, Fitted
  <2>2. ASSUME NEW x \in MemKeys, x \notin overgrown PROVE Cost(mem'[x]) <= MaxMemory
    <3>1. CASE x = k
      BY <1>3, <1>4, <2>1, <2>2, <3>1, BasesNat
    <3>2. CASE x # k
      <4>1. mem'[x] = mem[x]
        BY <1>1, <3>2
      <4> QED BY <2>1, <2>2, <4>1
    <3> QED BY <3>1, <3>2
  <2> QED BY <1>8, <2>2 DEF Fitted
<1> QED BY <1>5, <1>6, <1>7, <1>8

\* Nothing gets more than it was, and nobody stops evicting.
LEMMA HeldStays ==
  ASSUME MemInv, used' <= used, used' \in Int,
         \A K \in SUBSET MemKeys : Charge(mem', K) <= Charge(mem, K) /\ Charge(mem', K) \in Int,
         gaveUp => gaveUp', overgrown' = overgrown,
         \A c \in MemClients : ~ Idle(c) => ~ Idle(c)' /\ evictor'[c].keys = evictor[c].keys
  PROVE  Held'
<1>1. /\ used \in Nat
      /\ \A K \in SUBSET MemKeys : Charge(mem, K) \in Nat
  BY ChargeNat DEF MemInv, Accounts
<1>2. CASE used <= MaxMemory
  BY <1>1, <1>2, BasesNat DEF Held
<1>3. CASE gaveUp \/ overgrown # {}
  BY <1>3 DEF Held
<1>4. CASE \E c \in MemClients : ~ Idle(c) /\ Charge(mem, evictor[c].keys) <= MaxMemory
  <2>1. PICK c \in MemClients : ~ Idle(c) /\ Charge(mem, evictor[c].keys) <= MaxMemory
    BY <1>4
  <2>2. evictor[c].keys \in SUBSET MemKeys
    BY DEF MemInv, Evictors
  <2>3. Charge(mem', evictor'[c].keys) <= MaxMemory
    <3>1. PICK K \in SUBSET MemKeys : K = evictor[c].keys
      BY <2>2
    <3>2. Charge(mem', K) <= MaxMemory
      BY <1>1, <2>1, <3>1, BasesNat
    <3>3. evictor'[c].keys = K
      BY <2>1, <3>1
    <3> QED BY <3>2, <3>3
  <2> QED BY <2>1, <2>3 DEF Held
<1> QED BY <1>2, <1>3, <1>4 DEF MemInv, Held

\* A command that only takes away.
LEMMA ShrinkStep ==
  ASSUME MemInv, NEW k \in MemKeys, NEW it, NEW empty, Shrink(k, it, empty),
         empty \/ (MemItem(it) /\ Cost(it) <= Cost(mem[k]))
  PROVE  MemInv'
<1> DEFINE left == IF empty THEN NoItem ELSE it
<1>1. MemItem(mem[k])
  BY DEF MemInv, Accounts
<1>2. MemItem(left) /\ Cost(left) <= Cost(mem[k])
  BY <1>1, NoItemIs, ItemCosts
<1>3. /\ mem' = [mem EXCEPT ![k] = left] /\ used' = Account(k, left)
      /\ evictor' = evictor /\ gaveUp' = gaveUp /\ overgrown' = overgrown
  BY DEF Shrink
<1> HIDE DEF left
<1>4. /\ Accounts' /\ used' <= used /\ Fitted'
      /\ \A K \in SUBSET MemKeys : Charge(mem', K) <= Charge(mem, K)
  BY <1>2, <1>3, LessStep
<1>5. Evictors' /\ History'
  BY <1>3 DEF MemInv, Evictors, History, Idle
<1>6. used' \in Int /\ \A K \in SUBSET MemKeys : Charge(mem', K) \in Int
  BY <1>4, ChargeNat DEF Accounts
<1>7. Held'
  <2>1. \A c \in MemClients : ~ Idle(c) => ~ Idle(c)' /\ evictor'[c].keys = evictor[c].keys
    BY <1>3 DEF Idle
  <2> QED BY <1>3, <1>4, <1>6, <2>1, HeldStays
<1> QED BY <1>4, <1>5, <1>7 DEF MemInv

\* The items of the keys that hold a string, a list or a hash.
LEMMA KeyIs ==
  ASSUME MemInv, NEW k \in MemKeys
  PROVE  /\ MemItem(mem[k]) /\ Cost(mem[k]) \in Nat
         /\ mem[k].typ = "none" => mem[k] = NoItem
         /\ Current(k) \in Nat
         /\ mem[k].typ # "none" => Current(k) = Cost(mem[k])
         /\ mem[k].typ = "none" => Current(k) = KeyBase
<1>1. MemItem(mem[k])
  BY DEF MemInv, Accounts
<1> QED BY <1>1, ItemCosts, BasesNat DEF MemItem, Current

LEMMA SetStrStep ==
  ASSUME MemInv, NEW c \in MemClients, NEW k \in MemKeys, NEW n \in Lengths, SetStr(c, k, n)
  PROVE  MemInv'
<1>1. n \in Nat
  BY BasesNat
<1>2. MemItem(Str(n)) /\ Cost(Str(n)) = KeyBase + n
  BY <1>1, StrIs
<1>3. Idle(c) /\ KeyBase + n <= MaxMemory /\ PutItem(c, k, Str(n)) /\ overgrown' = overgrown
  BY DEF SetStr
<1> QED BY <1>2, <1>3, PutStep

LEMMA ExtendStep ==
  ASSUME MemInv, NEW c \in MemClients, NEW k \in MemKeys, NEW n \in Lengths, Extend(c, k, n)
  PROVE  MemInv'
<1>1. n \in Nat /\ mem[k].len \in Nat
  BY BasesNat, KeyIs DEF MemItem
<1>2. PICK l \in Nat : l = mem[k].len + n
  BY <1>1
<1>3. MemItem(Str(l)) /\ Cost(Str(l)) = KeyBase + l
  BY StrIs
<1>4. Idle(c) /\ KeyBase + l <= MaxMemory /\ PutItem(c, k, Str(l)) /\ overgrown' = overgrown
  <2>1. /\ Idle(c) /\ KeyBase + mem[k].len + n <= MaxMemory
        /\ PutItem(c, k, Str(mem[k].len + n)) /\ overgrown' = overgrown
    BY DEF Extend
  <2> QED BY <1>1, <1>2, <2>1, BasesNat
<1> QED BY <1>3, <1>4, PutStep

LEMMA IncrByStep ==
  ASSUME MemInv, NEW c \in MemClients, NEW k \in MemKeys, NEW n \in 1..MaxMemory, IncrBy(c, k, n)
  PROVE  MemInv'
<1>1. n \in Nat
  BY BasesNat
<1>2. MemItem(Str(n)) /\ Cost(Str(n)) = KeyBase + n
  BY <1>1, StrIs
<1>3. /\ Idle(c) /\ PutItem(c, k, Str(n))
      /\ overgrown' = IF KeyBase + n > MaxMemory THEN overgrown \cup {k} ELSE overgrown
  BY DEF IncrBy
<1>4. \/ Cost(Str(n)) <= MaxMemory /\ overgrown' = overgrown
      \/ overgrown' = overgrown \cup {k}
  BY <1>1, <1>2, <1>3, BasesNat
<1> QED BY <1>2, <1>3, <1>4, PutStep

-----------------------------------------------------------------------------
(* Lists and hashes.                                                        *)

\* A container costs what is kept beside it; a key without an item can become one.
LEMMA ContainerIs ==
  ASSUME MemInv, NEW k \in MemKeys
  PROVE  /\ mem[k].len \in Nat /\ mem[k].cost \in Nat /\ mem[k].list \in Seq(Nat)
         /\ IsHash(mem[k].hash)
         /\ mem[k].typ \in {"none", "list"} =>
              mem[k].cost = Total(mem[k].list) + ElemBase * Len(mem[k].list)
         /\ mem[k].typ \in {"none", "hash"} => mem[k].cost = HashCost(mem[k].hash)
         /\ mem[k].typ \in {"none", "list", "hash"} => Current(k) = KeyBase + mem[k].cost
<1> DEFINE i == mem[k]
<1>1. MemItem(i)
  BY KeyIs
<1>2. i.len \in Nat /\ i.cost \in Nat /\ i.list \in Seq(Nat) /\ IsHash(i.hash)
  BY <1>1 DEF MemItem
<1>3. CASE i.typ = "none"
  <2>1. i.list = <<>> /\ i.cost = 0 /\ DOMAIN i.hash = {}
    BY <1>1, <1>3 DEF MemItem, NoItem
  <2>2. Total(i.list) = 0 /\ ElemBase * Len(i.list) = 0
    BY <2>1, TotalEmpty, BasesNat
  <2>3. HashCost(i.hash) = 0
    BY <2>1, SumEmpty DEF HashCost
  <2>4. Current(k) = KeyBase + i.cost
    BY <1>3, <2>1, KeyIs, BasesNat
  <2> QED BY <1>2, <1>3, <2>1, <2>2, <2>3, <2>4
<1>4. CASE i.typ # "none"
  <2>1. i.typ # "str" => Current(k) = KeyBase + i.cost
    BY <1>4 DEF Current, Cost
  <2> QED BY <1>1, <1>2, <1>4, <2>1 DEF MemItem
<1> QED BY <1>3, <1>4

\* An item is the record of its fields.
ItemParts(i) ==
  i = [typ |-> i.typ, len |-> i.len, list |-> i.list, hash |-> i.hash, cost |-> i.cost]

\* An item that becomes a list.
LEMMA ListItem ==
  ASSUME NEW i, MemItem(i), NEW s \in Seq(Nat), s # <<>>, NEW n \in Nat,
         n = Total(s) + ElemBase * Len(s), NEW it,
         it = [typ |-> "list", len |-> i.len, list |-> s, hash |-> i.hash, cost |-> n]
  PROVE  MemItem(it) /\ Cost(it) = KeyBase + n
BY DEF MemItem, Cost

\* An item that becomes a hash.
LEMMA HashItem ==
  ASSUME NEW i, MemItem(i), NEW h, IsHash(h), DOMAIN h # {}, NEW n \in Nat, n = HashCost(h),
         NEW it, it = [typ |-> "hash", len |-> i.len, list |-> i.list, hash |-> h, cost |-> n]
  PROVE  MemItem(it) /\ Cost(it) = KeyBase + n
BY DEF MemItem, Cost

LEMMA PushListStep ==
  ASSUME MemInv, NEW c \in MemClients, NEW k \in MemKeys, NEW vs \in UNION {[1..n -> Lengths] : n \in 1..2},
         NEW front \in BOOLEAN, PushList(c, k, vs, front)
  PROVE  MemInv'
<1> DEFINE i == mem[k]
           new == IF front THEN Reversed(vs) \o i.list ELSE i.list \o vs
           more == Total(vs) + ElemBase * Len(vs)
           it == [typ |-> "list", len |-> i.len, list |-> new, hash |-> i.hash, cost |-> i.cost + more]
<1>1. vs \in Seq(Nat) /\ Len(vs) \in Nat /\ Len(vs) > 0
  <2>1. PICK n \in 1..2 : vs \in [1..n -> Lengths]
    OBVIOUS
  <2>2. vs \in [1..n -> Nat]
    BY <2>1, BasesNat
  <2> QED BY <2>2
<1>2. /\ Idle(c) /\ i.typ \in {"none", "list"} /\ overgrown' = overgrown
      /\ Current(k) + Total(vs) + ElemBase * Len(vs) <= MaxMemory
  BY DEF PushList, PushFits
<1>3. PutItem(c, k, it)
  <2>1. PutItem(c, k, [i EXCEPT !.typ = "list", !.list = new,
                                !.cost = i.cost + Total(vs) + ElemBase * Len(vs)])
    BY DEF PushList
  <2>2. MemItem(i)
    BY KeyIs
  <2>3. i.cost + Total(vs) + ElemBase * Len(vs) = i.cost + more
    BY <1>1, ContainerIs, TotalIs, BasesNat
  <2>4. PICK s, n : s = new /\ n = i.cost + Total(vs) + ElemBase * Len(vs)
    OBVIOUS
  <2>5. PICK j : j = [i EXCEPT !.typ = "list", !.list = s, !.cost = n]
    OBVIOUS
  <2>6. j = [typ |-> "list", len |-> i.len, list |-> s, hash |-> i.hash, cost |-> n]
    <3>1. ItemParts(i)
      BY <2>2 DEF MemItem, ItemParts
    <3> HIDE DEF i
    <3> QED BY ONLY <2>5, <3>1 DEF ItemParts
  <2> HIDE DEF i, new, more
  <2> QED BY <2>1, <2>3, <2>4, <2>5, <2>6
<1>4. i.list \in Seq(Nat) /\ Len(i.list) \in Nat /\ i.cost \in Nat
  BY ContainerIs
<1>5. PICK t \in Nat, e \in Nat, u \in Nat, d \in Nat :
        /\ t = Total(vs) /\ e = ElemBase * Len(vs)
        /\ u = Total(i.list) /\ d = ElemBase * Len(i.list)
  <2>1. Total(vs) \in Nat /\ Total(i.list) \in Nat
    BY <1>1, <1>4, TotalIs
  <2>2. ElemBase * Len(vs) \in Nat /\ ElemBase * Len(i.list) \in Nat
    BY <1>1, <1>4, BasesNat
  <2> QED BY <2>1, <2>2
<1>6. i.cost = u + d
  BY <1>2, <1>5, ContainerIs
<1>7. new \in Seq(Nat) /\ Len(new) = Len(i.list) + Len(vs) /\ Total(new) = u + t
  <2>1. CASE front
    <3>1. /\ Reversed(vs) \in Seq(Nat) /\ Len(Reversed(vs)) = Len(vs)
          /\ Total(Reversed(vs)) = t
      BY <1>1, <1>5, TotalReversed
    <3>2. PICK w \in Seq(Nat) : w = Reversed(vs)
      BY <3>1
    <3>3. PICK q \in Seq(Nat) : q = i.list
      BY <1>4
    <3>4. /\ w \o q \in Seq(Nat) /\ Total(w \o q) = Total(w) + Total(q)
          /\ Len(w \o q) = Len(w) + Len(q)
      BY TotalConcat
    <3>5. new = w \o q
      BY <2>1, <3>2, <3>3
    <3>6. Total(w) = t /\ Total(q) = u /\ Len(w) = Len(vs) /\ Len(q) = Len(i.list)
      BY <1>5, <3>1, <3>2, <3>3
    <3> HIDE DEF new
    <3> QED BY <1>1, <1>4, <3>4, <3>5, <3>6
  <2>2. CASE ~ front
    <3>1. Total(i.list \o vs) = u + t /\ Len(i.list \o vs) = Len(i.list) + Len(vs)
      BY <1>1, <1>4, <1>5, TotalConcat
    <3> QED BY <1>1, <1>4, <2>2, <3>1
  <2> QED BY <2>1, <2>2
<1>8. new # <<>>
  BY <1>1, <1>4, <1>7
<1>9. i.cost + more = Total(new) + ElemBase * Len(new) /\ i.cost + more \in Nat
  <2>1. ElemBase * Len(new) = d + e
    <3>1. PICK a \in Nat, b \in Nat : a = Len(i.list) /\ b = Len(vs)
      BY <1>1, <1>4
    <3>2. ElemBase * (a + b) = ElemBase * a + ElemBase * b
      BY BasesNat
    <3> QED BY <1>5, <1>7, <3>1, <3>2
  <2>2. more = t + e
    BY <1>5
  <2>3. PICK x \in Nat : x = ElemBase * Len(new) /\ x = d + e
    <3> HIDE DEF new
    <3> QED BY <2>1
  <2>4. PICK m, w, z : m = more /\ w = Total(new) /\ z = i.cost
    OBVIOUS
  <2>5. m = t + e /\ w = u + t /\ z = u + d
    BY <1>6, <1>7, <2>2, <2>4
  <2>6. z + m = w + x /\ z + m \in Nat
    BY <2>3, <2>5
  <2> HIDE DEF new, more, i
  <2> QED BY <2>3, <2>4, <2>6
<1>10. MemItem(i)
  BY KeyIs
<1> HIDE DEF new
<1>11. MemItem(it) /\ Cost(it) = KeyBase + (i.cost + more)
  BY <1>7, <1>8, <1>9, <1>10, ListItem
<1>12. Cost(it) <= MaxMemory
  <2>1. Current(k) = KeyBase + i.cost
    BY <1>2, ContainerIs
  <2>2. more = t + e
    BY <1>5
  <2>3. PICK o \in Nat : o = i.cost
    BY <1>4
  <2>4. Current(k) + t + e <= MaxMemory
    BY <1>2, <1>5
  <2>5. KeyBase + o + t + e <= MaxMemory
    BY <2>1, <2>3, <2>4
  <2>6. Cost(it) = KeyBase + (o + (t + e))
    BY <1>11, <2>2, <2>3
  <2> HIDE DEF it
  <2> QED BY <2>5, <2>6, BasesNat
<1> HIDE DEF it
<1> QED BY <1>2, <1>3, <1>11, <1>12, PutStep

LEMMA PopListStep ==
  ASSUME MemInv, NEW c \in MemClients, NEW k \in MemKeys, NEW n \in 1..MaxList, NEW front \in BOOLEAN,
         PopList(c, k, n, front)
  PROVE  MemInv'
<1> DEFINE i == mem[k]
           l == i.list
           out == IF front THEN SubSeq(l, 1, n) ELSE SubSeq(l, Len(l) - n + 1, Len(l))
           rest == IF front THEN SubSeq(l, n + 1, Len(l)) ELSE SubSeq(l, 1, Len(l) - n)
           left == i.cost - ElemBase * n - Total(out)
           it == [typ |-> "list", len |-> i.len, list |-> rest, hash |-> i.hash, cost |-> left]
<1>1. i.typ = "list" /\ n <= Len(l)
  BY DEF PopList
<1>2. l \in Seq(Nat) /\ Len(l) \in Nat /\ n \in Nat /\ i.cost \in Nat /\ MemItem(i)
  BY ContainerIs, KeyIs, BasesNat
<1>3. Shrink(k, it, rest = <<>>)
  <2>1. Shrink(k, [i EXCEPT !.list = rest, !.cost = left], rest = <<>>)
    BY DEF PopList
  <2>3. PICK s, m : s = rest /\ m = left
    OBVIOUS
  <2>4. PICK j : j = [i EXCEPT !.list = s, !.cost = m]
    OBVIOUS
  <2>5. j = [typ |-> i.typ, len |-> i.len, list |-> s, hash |-> i.hash, cost |-> m]
    <3>1. ItemParts(i)
      BY <1>2 DEF MemItem, ItemParts
    <3> HIDE DEF i
    <3> QED BY ONLY <2>4, <3>1 DEF ItemParts
  <2> HIDE DEF i, rest, left
  <2> QED BY <1>1, <2>1, <2>3, <2>4, <2>5
<1>4. /\ out \in Seq(Nat) /\ Len(out) = n
      /\ rest \in Seq(Nat) /\ Len(rest) = Len(l) - n
      /\ Total(l) = Total(out) + Total(rest)
  <2>1. CASE front
    <3>1. n \in 0..Len(l)
      <4> HIDE DEF l
      <4> QED BY <1>1, <1>2
    <3>2. /\ SubSeq(l, 1, n) \in Seq(Nat) /\ Len(SubSeq(l, 1, n)) = n
          /\ SubSeq(l, n + 1, Len(l)) \in Seq(Nat) /\ Len(SubSeq(l, n + 1, Len(l))) = Len(l) - n
          /\ Total(l) = Total(SubSeq(l, 1, n)) + Total(SubSeq(l, n + 1, Len(l)))
      BY <1>2, <3>1, TotalCut
    <3> QED BY <2>1, <3>2
  <2>2. CASE ~ front
    <3>1. PICK m \in 0..Len(l) : m = Len(l) - n
      <4>1. Len(l) - n \in 0..Len(l)
        BY <1>1, <1>2
      <4> QED BY <4>1
    <3>2. /\ SubSeq(l, 1, m) \in Seq(Nat) /\ Len(SubSeq(l, 1, m)) = m
          /\ SubSeq(l, m + 1, Len(l)) \in Seq(Nat) /\ Len(SubSeq(l, m + 1, Len(l))) = Len(l) - m
          /\ Total(l) = Total(SubSeq(l, 1, m)) + Total(SubSeq(l, m + 1, Len(l)))
      BY <1>2, <3>1, TotalCut
    <3>3. Total(SubSeq(l, 1, m)) \in Nat /\ Total(SubSeq(l, m + 1, Len(l))) \in Nat
      BY <3>2, TotalIs
    <3>4. out = SubSeq(l, m + 1, Len(l)) /\ rest = SubSeq(l, 1, m)
      BY <2>2, <3>1
    <3>5. Len(l) - m = n
      BY <1>2, <3>1
    <3>6. Len(l) - n = m /\ Len(l) \in Nat
      BY <1>1, <3>1, <3>5
    <3> HIDE DEF out, rest, l
    <3>7. out \in Seq(Nat) /\ rest \in Seq(Nat) /\ Len(out) = n /\ Len(rest) = Len(l) - n
      BY ONLY <3>2, <3>4, <3>5, <3>6
    <3>8. Total(l) = Total(rest) + Total(out) /\ Total(rest) \in Nat /\ Total(out) \in Nat
      BY ONLY <3>2, <3>3, <3>4
    <3>9. Total(l) = Total(out) + Total(rest)
      BY ONLY <3>8
    <3> QED BY ONLY <3>7, <3>9
  <2> QED BY <2>1, <2>2
<1> HIDE DEF out, rest
<1>5. PICK o \in Nat, r \in Nat : o = Total(out) /\ r = Total(rest)
  BY <1>4, TotalIs
<1>6. /\ ElemBase * Len(l) = ElemBase * Len(rest) + ElemBase * n
      /\ ElemBase * n \in Nat /\ ElemBase * Len(rest) \in Nat
  <2> HIDE DEF l
  <2>0. Len(rest) \in Nat /\ Len(l) = Len(rest) + n
    <3>1. Len(rest) = Len(l) - n
      BY <1>4
    <3>2. Len(l) - n \in Nat /\ Len(l) = (Len(l) - n) + n
      BY <1>1, <1>2
    <3> QED BY ONLY <3>1, <3>2
  <2>1. PICK a \in Nat : a = Len(rest) /\ Len(l) = a + n
    BY ONLY <2>0
  <2>2. PICK b \in Nat : b = ElemBase
    BY BasesNat
  <2>3. b * (a + n) = b * a + b * n /\ b * n \in Nat /\ b * a \in Nat
    BY <1>2
  <2> QED BY <2>1, <2>2, <2>3
<1>7. i.cost = (o + r) + (ElemBase * Len(rest) + ElemBase * n)
  <2>1. i.cost = Total(l) + ElemBase * Len(l)
    BY <1>1, ContainerIs
  <2> QED BY <1>4, <1>5, <1>6, <2>1
<1>8. left \in Nat /\ left = Total(rest) + ElemBase * Len(rest) /\ left <= i.cost
  <2>1. PICK a \in Nat, b \in Nat : a = ElemBase * n /\ b = ElemBase * Len(rest)
    BY <1>6
  <2>2. i.cost = (o + r) + (b + a)
    BY <1>7, <2>1
  <2>3. left = i.cost - a - o
    BY <1>5, <2>1
  <2>4. i.cost - a - o = r + b /\ r + b <= i.cost
    BY <2>2
  <2>5. left = r + b
    BY <2>3, <2>4
  <2> HIDE DEF left
  <2> QED BY <1>5, <2>1, <2>4, <2>5
<1>9. CASE rest = <<>>
  BY <1>3, <1>9, ShrinkStep
<1>10. CASE rest # <<>>
  <2> HIDE DEF left
  <2>1. MemItem(it) /\ Cost(it) = KeyBase + left
    <3>1. PICK s \in Seq(Nat), m \in Nat : s = rest /\ m = left
      BY <1>4, <1>8
    <3>2. PICK j : j = it
      OBVIOUS
    <3>3. j = [typ |-> "list", len |-> i.len, list |-> s, hash |-> i.hash, cost |-> m]
      BY <3>1, <3>2
    <3>4. s # <<>> /\ m = Total(s) + ElemBase * Len(s)
      BY <1>8, <1>10, <3>1
    <3> HIDE DEF it, i
    <3> QED BY <1>2, <3>1, <3>2, <3>3, <3>4, ListItem
  <2>2. Cost(i) = KeyBase + i.cost
    BY <1>1 DEF Cost
  <2>3. Cost(it) <= Cost(mem[k])
    BY <1>2, <1>8, <2>1, <2>2, BasesNat
  <2> HIDE DEF it
  <2> QED BY <1>3, <2>1, <2>3, ShrinkStep
<1> QED BY <1>9, <1>10

\* The fields of F are set.
LEMMA FieldsSet ==
  ASSUME MemInv, NEW k \in MemKeys, NEW F \in SUBSET Fields, F # {}, NEW n \in Nat,
         mem[k].typ \in {"none", "hash"}, NEW it, it = WithFields(k, F, n)
  PROVE  MemItem(it) /\ Cost(it) <= KeyBase + mem[k].cost + Cardinality(F) * (FieldBase + n)
<1> DEFINE i == mem[k]
           set == [f \in F \cup DOMAIN i.hash |-> IF f \in F THEN n ELSE i.hash[f]]
           new == NewFields(k, F)
           cost == i.cost + FieldDelta(k, F, n)
<1>1. MemItem(i) /\ IsHash(i.hash) /\ i.cost = HashCost(i.hash) /\ i.cost \in Nat
  BY KeyIs, ContainerIs
<1>2. PICK h, s, w : h = i.hash /\ s = set /\ w = new
  OBVIOUS
<1>3. w = F \ DOMAIN h
  BY <1>2 DEF NewFields
<1>4. IsHash(h)
  BY <1>1, <1>2
<1>5. /\ s \in [F \cup DOMAIN h -> Nat] /\ \A f \in F : s[f] = n
      /\ \A f \in DOMAIN h \ F : s[f] = h[f]
  <2>1. s = [f \in F \cup DOMAIN h |-> IF f \in F THEN n ELSE h[f]]
    BY <1>2
  <2> QED BY <1>4, <2>1 DEF IsHash
<1>6. /\ IsHash(s) /\ DOMAIN s # {}
      /\ HashCost(s) = HashCost(h) + (Cardinality(w) * FieldBase + Cardinality(F) * n - SumOf(h, F \ w))
      /\ HashCost(s) <= HashCost(h) + Cardinality(F) * (FieldBase + n)
  <2> HIDE DEF set, i, new
  <2>1. SetsTo(h, F, n, s, w)
    BY <1>3, <1>5 DEF SetsTo
  <2> QED BY <1>4, <2>1, HashSet
<1>7. FieldDelta(k, F, n) = Cardinality(w) * FieldBase + Cardinality(F) * n - SumOf(h, F \ w)
  BY <1>2 DEF FieldDelta, SumOf
<1>8. cost = HashCost(s)
  BY <1>1, <1>2, <1>6, <1>7
<1>9. HashCost(s) \in Nat
  BY <1>6, HashCostNat
<1>10. it = [typ |-> "hash", len |-> i.len, list |-> i.list, hash |-> s, cost |-> cost]
  <2>1. it = [i EXCEPT !.typ = "hash", !.cost = cost, !.hash = set]
    BY DEF WithFields
  <2>2. ItemParts(i)
    BY <1>1 DEF MemItem, ItemParts
  <2> HIDE DEF i, set, cost
  <2> QED BY ONLY <1>2, <2>1, <2>2 DEF ItemParts
<1> HIDE DEF i, set, cost, new
<1>11. MemItem(it) /\ Cost(it) = KeyBase + cost
  BY <1>1, <1>6, <1>8, <1>9, <1>10, HashItem
<1>12. PICK v \in Nat : v = Cardinality(F) * (FieldBase + n)
  <2>1. Cardinality(F) \in Nat
    BY BasesNat, FS_Subset, FS_CardinalityType
  <2> QED BY <2>1, BasesNat
<1>13. cost <= i.cost + v
  BY <1>1, <1>2, <1>6, <1>8, <1>12
<1>14. Cost(it) <= KeyBase + i.cost + v
  BY <1>1, <1>8, <1>9, <1>11, <1>13, BasesNat
<1> QED BY <1>11, <1>12, <1>14 DEF i

LEMMA HsetStep ==
  ASSUME MemInv, NEW c \in MemClients, NEW k \in MemKeys, NEW F \in (SUBSET Fields) \ {{}},
         NEW n \in Lengths, Hset(c, k, F, n)
  PROVE  MemInv'
<1>1. F \in SUBSET Fields /\ F # {} /\ n \in Nat
  BY BasesNat
<1>2. PICK it : it = WithFields(k, F, n)
  OBVIOUS
<1>3. /\ Idle(c) /\ mem[k].typ \in {"none", "hash"} /\ overgrown' = overgrown
      /\ Current(k) + Cardinality(F) * (FieldBase + n) <= MaxMemory
      /\ PutItem(c, k, it)
  BY <1>2 DEF Hset
<1>4. MemItem(it) /\ Cost(it) <= KeyBase + mem[k].cost + Cardinality(F) * (FieldBase + n)
  BY <1>1, <1>2, <1>3, FieldsSet
<1>5. Current(k) = KeyBase + mem[k].cost /\ mem[k].cost \in Nat
  BY <1>3, ContainerIs
<1>6. PICK v \in Nat : v = Cardinality(F) * (FieldBase + n)
  <2>1. Cardinality(F) \in Nat
    BY <1>1, BasesNat, FS_Subset, FS_CardinalityType
  <2> QED BY <1>1, <2>1, BasesNat
<1>7. Cost(it) <= MaxMemory
  <2>1. Cost(it) <= KeyBase + mem[k].cost + v
    BY <1>4, <1>6
  <2>2. KeyBase + mem[k].cost + v <= MaxMemory
    BY <1>3, <1>5, <1>6
  <2>3. Cost(it) \in Nat
    BY <1>4, ItemCosts
  <2> QED BY <1>5, <2>1, <2>2, <2>3, BasesNat
<1> QED BY <1>3, <1>4, <1>7, PutStep

LEMMA HincrbyStep ==
  ASSUME MemInv, NEW c \in MemClients, NEW k \in MemKeys, NEW f \in Fields,
         NEW n \in Lengths, Hincrby(c, k, f, n)
  PROVE  MemInv'
<1>1. n \in Nat
  BY BasesNat
<1>2. PICK F \in SUBSET Fields : F = {f} /\ F # {} /\ Cardinality(F) = 1
  <2>1. {f} \in SUBSET Fields /\ {f} # {}
    OBVIOUS
  <2>2. Cardinality({f}) = 1
    BY FS_Singleton
  <2> QED BY ONLY <2>1, <2>2
<1>3. PICK it : it = WithFields(k, F, n)
  OBVIOUS
<1>4. /\ Idle(c) /\ mem[k].typ \in {"none", "hash"} /\ overgrown' = overgrown
      /\ KeyBase + FieldBase + n + Cost(mem[k]) <= MaxMemory
      /\ PutItem(c, k, it)
  BY <1>2, <1>3 DEF Hincrby
<1>5. MemItem(it) /\ Cost(it) <= KeyBase + mem[k].cost + Cardinality(F) * (FieldBase + n)
  BY <1>1, <1>2, <1>3, <1>4, FieldsSet
<1>6. mem[k].cost \in Nat /\ Cost(mem[k]) \in Nat /\ mem[k].cost <= Cost(mem[k])
  <2>1. MemItem(mem[k]) /\ mem[k].cost \in Nat /\ Cost(mem[k]) \in Nat
    BY KeyIs, ContainerIs
  <2>2. CASE mem[k].typ = "none"
    BY <2>1, <2>2 DEF MemItem, NoItem
  <2>3. CASE mem[k].typ = "hash"
    BY <2>1, <2>3, BasesNat DEF Cost
  <2> QED BY <1>4, <2>1, <2>2, <2>3
<1>7. Cost(it) <= MaxMemory
  <2>1. Cardinality(F) * (FieldBase + n) = FieldBase + n
    BY <1>1, <1>2, BasesNat
  <2>2. Cost(it) \in Nat
    BY <1>5, ItemCosts
  <2> QED BY <1>1, <1>4, <1>5, <1>6, <2>1, <2>2, BasesNat
<1> QED BY <1>4, <1>5, <1>7, PutStep

LEMMA HdelStep ==
  ASSUME MemInv, NEW c \in MemClients, NEW k \in MemKeys, NEW F \in (SUBSET Fields) \ {{}},
         Hdel(c, k, F)
  PROVE  MemInv'
<1> DEFINE i == mem[k]
           gone == F \ NewFields(k, F)
           left == [f \in DOMAIN i.hash \ gone |-> i.hash[f]]
           cost == i.cost - Cardinality(gone) * FieldBase - SumOf(i.hash, gone)
           it == [typ |-> "hash", len |-> i.len, list |-> i.list, hash |-> left, cost |-> cost]
<1>1. i.typ = "hash"
  BY DEF Hdel
<1>2. MemItem(i) /\ IsHash(i.hash) /\ i.cost = HashCost(i.hash) /\ i.cost \in Nat
  BY <1>1, KeyIs, ContainerIs
<1>3. Shrink(k, it, DOMAIN left = {})
  <2>1. PICK j : j = [i EXCEPT !.hash = left, !.cost = cost]
    OBVIOUS
  <2>2. Shrink(k, j, DOMAIN left = {})
    BY <2>1 DEF Hdel, SumOf
  <2>3. ItemParts(i)
    BY <1>2 DEF MemItem, ItemParts
  <2>4. j = it
    <3> HIDE DEF i, left, cost
    <3> QED BY ONLY <1>1, <2>1, <2>3 DEF ItemParts
  <2> HIDE DEF i, left, cost, it
  <2> QED BY <2>2, <2>4
<1>4. gone \in SUBSET DOMAIN i.hash
  BY DEF NewFields
<1>5. PICK h, g, l : h = i.hash /\ g = gone /\ l = left
  OBVIOUS
<1>6. IsHash(h) /\ g \in SUBSET DOMAIN h /\ l = [f \in DOMAIN h \ g |-> h[f]]
  BY <1>2, <1>4, <1>5
<1> HIDE DEF gone, left
<1>7. /\ IsHash(l) /\ HashCost(l) = HashCost(h) - Cardinality(g) * FieldBase - SumOf(h, g)
      /\ HashCost(l) <= HashCost(h)
  BY <1>6, HashDrop
<1>8. cost = HashCost(l) /\ cost <= i.cost
  BY <1>2, <1>5, <1>7
<1>9. cost \in Nat
  BY <1>7, <1>8, HashCostNat
<1>10. CASE DOMAIN left = {}
  <2> HIDE DEF it
  <2> QED BY <1>3, <1>10, ShrinkStep
<1>11. CASE DOMAIN left # {}
  <2> HIDE DEF cost
  <2>1. MemItem(it) /\ Cost(it) = KeyBase + cost
    BY <1>2, <1>5, <1>7, <1>8, <1>9, <1>11, HashItem
  <2>2. Cost(i) = KeyBase + i.cost
    BY <1>1 DEF Cost
  <2>3. Cost(it) <= Cost(mem[k])
    BY <1>2, <1>8, <1>9, <2>1, <2>2, BasesNat
  <2> HIDE DEF it
  <2> QED BY <1>3, <2>1, <2>3, ShrinkStep
<1> QED BY <1>10, <1>11

LEMMA DropStep ==
  ASSUME MemInv, NEW k \in MemKeys, Drop(k)
  PROVE  MemInv'
<1>1. Shrink(k, NoItem, TRUE)
  BY DEF Drop
<1> QED BY <1>1, ShrinkStep

-----------------------------------------------------------------------------
(* Several keys, and eviction.                                              *)

LEMMA MsetStep ==
  ASSUME MemInv, NEW c \in MemClients, NEW K \in (SUBSET MemKeys) \ {{}}, NEW n \in Lengths,
         Mset(c, K, n)
  PROVE  MemInv'
<1>1. n \in Nat /\ K \in SUBSET MemKeys /\ K # {} /\ IsFiniteSet(K)
  <2>1. n \in Nat
    BY BasesNat
  <2>2. K \in SUBSET MemKeys /\ K # {}
    OBVIOUS
  <2>3. IsFiniteSet(K)
    BY <2>2, BasesNat, FS_Subset
  <2> QED BY <2>1, <2>2, <2>3
<1>2. /\ \A x \in MemKeys : MemItem(mem[x])
      /\ mem = [x \in MemKeys |-> mem[x]] /\ used = Charge(mem, MemKeys)
  BY DEF MemInv, Accounts
<1>3. PICK s : s = Str(n) /\ MemItem(s) /\ Cost(s) = KeyBase + n
  BY <1>1, StrIs
<1>4. /\ Idle(c) /\ mem' = [k \in MemKeys |-> IF k \in K THEN s ELSE mem[k]]
      /\ Cardinality(K) * (KeyBase + n) <= MaxMemory
      /\ used' = used + Cardinality(K) * (KeyBase + n) - Charge(mem, K)
      /\ evictor' = [evictor EXCEPT ![c].keys = K]
      /\ gaveUp' = gaveUp /\ overgrown' = overgrown
  BY <1>3, ChargedIs DEF Mset
<1>5. /\ \A x \in MemKeys : mem'[x] = IF x \in K THEN s ELSE mem[x]
      /\ mem' = [x \in MemKeys |-> mem'[x]] /\ \A x \in MemKeys : MemItem(mem'[x])
  BY <1>2, <1>3, <1>4
<1>6. Charge(mem', K) = Cardinality(K) * (KeyBase + n)
  <2> DEFINE f == [k \in MemKeys |-> Cost(mem'[k])]
  <2>1. \A k \in K : f[k] = KeyBase + n
    BY <1>1, <1>3, <1>5
  <2>2. KeyBase + n \in Int
    BY <1>1, BasesNat
  <2>3. SumOf(f, K) = Cardinality(K) * (KeyBase + n)
    <3> HIDE DEF f
    <3> QED BY <1>1, <2>1, <2>2, SumEqual
  <2> QED BY <2>3 DEF Charge
<1>7. PICK R \in SUBSET MemKeys : R = MemKeys \ K
  OBVIOUS
<1>8. Charge(mem', R) = Charge(mem, R)
  <2>1. \A x \in R : mem'[x] = mem[x]
    BY <1>5, <1>7
  <2> QED BY <1>2, <2>1, ChargeSame
<1>9. Charge(mem, MemKeys) = Charge(mem, K) + Charge(mem, R)
  BY <1>1, <1>2, <1>7, ChargeSplit
<1>10. Charge(mem', MemKeys) = Charge(mem', K) + Charge(mem', R)
  BY <1>1, <1>5, <1>7, ChargeSplit
<1>11. Charge(mem, K) \in Nat /\ Charge(mem, R) \in Nat /\ Charge(mem', K) \in Nat
  BY <1>1, <1>2, <1>5, ChargeNat
<1>12. used' = Charge(mem', MemKeys)
  BY <1>2, <1>4, <1>6, <1>8, <1>9, <1>10, <1>11
<1>13. Accounts'
  BY <1>5, <1>12 DEF Accounts
<1>14. Evictors' /\ ~ Idle(c)' /\ evictor'[c].keys = K
  BY <1>1, <1>4, WriterProtects DEF MemInv
<1>15. Charge(mem', K) <= MaxMemory
  BY <1>4, <1>6
<1>16. Held'
  <2>1. Charge(mem', evictor'[c].keys) <= MaxMemory
    BY <1>14, <1>15
  <2> QED BY <1>14, <2>1 DEF Held
<1>17. History'
  BY <1>4 DEF MemInv, History
<1>18. KeyBase + n <= MaxMemory
  <2>1. PICK m \in Nat : m = Cardinality(K) /\ m >= 1
    <3>1. Cardinality(K) \in Nat /\ Cardinality(K) # 0
      BY <1>1, FS_CardinalityType, FS_EmptySet
    <3> QED BY <3>1
  <2>2. PICK w \in Nat : w = KeyBase + n
    BY <1>1, BasesNat
  <2>3. m * w = w + (m - 1) * w /\ (m - 1) * w \in Nat
    BY <2>1
  <2>4. m * w <= MaxMemory
    BY <1>4, <2>1, <2>2
  <2> QED BY <2>2, <2>3, <2>4, BasesNat
<1>19. Fitted'
  <2>1. \A x \in MemKeys : x \notin overgrown => Cost(mem[x]) <= MaxMemory
    BY DEF MemInv, Fitted
  <2>2. ASSUME NEW x \in MemKeys, x \notin overgrown PROVE Cost(mem'[x]) <= MaxMemory
    BY <1>3, <1>5, <1>18, <2>1, <2>2
  <2> QED BY <1>4, <2>2 DEF Fitted
<1> QED BY <1>13, <1>14, <1>16, <1>17, <1>19 DEF MemInv

\* What a client that evicts becomes.
LEMMA EvictorTurns ==
  ASSUME Evictors, NEW c \in MemClients, ~ Idle(c), NEW o \in BOOLEAN,
         evictor' = [evictor EXCEPT ![c] = [evictor[c] EXCEPT !.over = o]]
  PROVE  /\ Evictors'
         /\ \A d \in MemClients : ~ Idle(d) => ~ Idle(d)' /\ evictor'[d].keys = evictor[d].keys
<1>1. /\ evictor \in [MemClients -> [keys : SUBSET MemKeys, over : BOOLEAN]]
      /\ \A d \in MemClients : ~ Idle(d) => evictor[d].keys # {}
  BY DEF Evictors
<1>2. PICK e \in [keys : SUBSET MemKeys, over : BOOLEAN] : e = evictor[c]
  BY <1>1
<1>3. [e EXCEPT !.over = o] = [keys |-> e.keys, over |-> o]
  OBVIOUS
<1>4. evictor' = [evictor EXCEPT ![c] = [keys |-> e.keys, over |-> o]]
  BY <1>2, <1>3
<1>5. evictor' \in [MemClients -> [keys : SUBSET MemKeys, over : BOOLEAN]]
  BY <1>1, <1>4
<1>6. evictor'[c].keys = evictor[c].keys /\ evictor[c].keys # {}
  BY <1>1, <1>2, <1>4
<1>7. \A d \in MemClients : d # c => evictor'[d] = evictor[d]
  BY <1>1, <1>4
<1>8. ~ Idle(c)'
  BY <1>6 DEF Idle, NoEvict
<1>9. \A d \in MemClients : ~ Idle(d) => ~ Idle(d)' /\ evictor'[d].keys = evictor[d].keys
  BY <1>6, <1>7, <1>8 DEF Idle
<1>10. \A d \in MemClients : ~ Idle(d)' => evictor'[d].keys # {}
  BY <1>1, <1>6, <1>7 DEF Idle
<1> QED BY <1>5, <1>9, <1>10 DEF Evictors

\* A client ends.
LEMMA EvictorEnds ==
  ASSUME Evictors, NEW c \in MemClients, evictor' = [evictor EXCEPT ![c] = NoEvict]
  PROVE  /\ Evictors'
         /\ \A d \in MemClients : d # c => evictor'[d] = evictor[d]
<1>1. /\ evictor \in [MemClients -> [keys : SUBSET MemKeys, over : BOOLEAN]]
      /\ \A d \in MemClients : ~ Idle(d) => evictor[d].keys # {}
  BY DEF Evictors
<1>2. NoEvict \in [keys : SUBSET MemKeys, over : BOOLEAN]
  BY DEF NoEvict
<1>3. evictor' \in [MemClients -> [keys : SUBSET MemKeys, over : BOOLEAN]]
  BY <1>1, <1>2
<1>4. evictor'[c] = NoEvict /\ \A d \in MemClients : d # c => evictor'[d] = evictor[d]
  BY <1>1
<1>5. \A d \in MemClients : ~ Idle(d)' => evictor'[d].keys # {}
  BY <1>1, <1>4 DEF Idle
<1> QED BY <1>3, <1>4, <1>5 DEF Evictors

LEMMA CheckLimitStep ==
  ASSUME MemInv, NEW c \in MemClients, CheckLimit(c)
  PROVE  MemInv'
<1>1. ~ Idle(c) /\ mem' = mem /\ used' = used /\ gaveUp' = gaveUp /\ overgrown' = overgrown
  BY DEF CheckLimit
<1>2. Accounts' /\ History' /\ Fitted'
  BY <1>1 DEF MemInv, Accounts, History, Fitted
<1>3. CASE Kept
  <2>1. evictor' = [evictor EXCEPT ![c] = NoEvict]
    BY <1>3 DEF CheckLimit
  <2>2. Evictors'
    BY <2>1, EvictorEnds DEF MemInv
  <2>3. Held'
    BY <1>1, <1>3 DEF Kept, Held
  <2> QED BY <1>2, <2>2, <2>3 DEF MemInv
<1>4. CASE ~ Kept
  <2>1. evictor' = [evictor EXCEPT ![c] = [evictor[c] EXCEPT !.over = TRUE]]
    BY <1>4 DEF CheckLimit
  <2>2. /\ Evictors'
        /\ \A d \in MemClients : ~ Idle(d) => ~ Idle(d)' /\ evictor'[d].keys = evictor[d].keys
    BY <1>1, <2>1, EvictorTurns DEF MemInv
  <2>3. /\ used' <= used /\ used' \in Int
        /\ \A K \in SUBSET MemKeys : Charge(mem', K) <= Charge(mem, K) /\ Charge(mem', K) \in Int
    <3>1. \A K \in SUBSET MemKeys : Charge(mem, K) \in Nat
      BY ChargeNat DEF MemInv, Accounts
    <3>2. used \in Nat
      BY <3>1 DEF MemInv, Accounts
    <3> QED BY <1>1, <3>1, <3>2
  <2>4. Held'
    BY <1>1, <2>2, <2>3, HeldStays
  <2> QED BY <1>2, <2>2, <2>4 DEF MemInv
<1> QED BY <1>3, <1>4

LEMMA EvictOneStep ==
  ASSUME MemInv, NEW c \in MemClients, EvictOne(c)
  PROVE  MemInv'
<1>1. ~ Idle(c) /\ gaveUp' = gaveUp /\ overgrown' = overgrown
  BY DEF EvictOne, Idle, NoEvict
<1>2. PICK k \in MemKeys : mem' = [mem EXCEPT ![k] = NoItem] /\ used' = Account(k, NoItem)
  BY DEF EvictOne, LiveKeys
<1>3. Cost(NoItem) <= Cost(mem[k]) /\ MemItem(NoItem)
  BY NoItemIs, KeyIs
<1>4. /\ Accounts' /\ used' <= used /\ Fitted'
      /\ \A K \in SUBSET MemKeys : Charge(mem', K) <= Charge(mem, K)
  BY <1>1, <1>2, <1>3, LessStep
<1>5. evictor' = [evictor EXCEPT ![c] = [evictor[c] EXCEPT !.over = FALSE]]
  BY DEF EvictOne
<1>6. /\ Evictors'
      /\ \A d \in MemClients : ~ Idle(d) => ~ Idle(d)' /\ evictor'[d].keys = evictor[d].keys
  BY <1>1, <1>5, EvictorTurns DEF MemInv
<1>7. used' \in Int /\ \A K \in SUBSET MemKeys : Charge(mem', K) \in Int
  BY <1>4, ChargeNat DEF Accounts
<1>8. Held'
  BY <1>1, <1>4, <1>6, <1>7, HeldStays
<1>9. History'
  BY <1>1 DEF MemInv, History
<1> QED BY <1>4, <1>6, <1>8, <1>9 DEF MemInv

\* If there is nothing left but what the client protects, and that fits, the limit is kept.
LEMMA GiveUpStep ==
  ASSUME MemInv, NEW c \in MemClients, GiveUp(c)
  PROVE  MemInv'
<1>1. /\ evictor' = [evictor EXCEPT ![c] = NoEvict]
      /\ mem' = mem /\ used' = used /\ overgrown' = overgrown
      /\ gaveUp' = (gaveUp \/ LiveKeys \ evictor[c].keys # {})
  BY DEF GiveUp
<1>2. Accounts' /\ Fitted' /\ History'
  BY <1>1 DEF MemInv, Accounts, History, Fitted
<1>3. Evictors' /\ \A d \in MemClients : d # c => evictor'[d] = evictor[d]
  BY <1>1, EvictorEnds DEF MemInv
<1>4. Held'
  <2>1. CASE used <= MaxMemory \/ gaveUp \/ overgrown # {}
    BY <1>1, <2>1 DEF Held
  <2>2. CASE \E d \in MemClients : ~ Idle(d) /\ Charge(mem, evictor[d].keys) <= MaxMemory
    <3>1. PICK d \in MemClients : ~ Idle(d) /\ Charge(mem, evictor[d].keys) <= MaxMemory
      BY <2>2
    <3>2. CASE d # c
      BY <1>1, <1>3, <3>1, <3>2 DEF Held, Idle
    <3>3. CASE LiveKeys \ evictor[c].keys # {}
      BY <1>1, <3>3 DEF Held
    <3>4. CASE d = c /\ LiveKeys \ evictor[c].keys = {}
      <4>1. PICK K \in SUBSET MemKeys : K = evictor[c].keys
        BY DEF MemInv, Evictors
      <4>2. PICK R \in SUBSET MemKeys : R = MemKeys \ K
        OBVIOUS
      <4>3. \A k \in R : mem[k].typ = "none"
        BY <3>4, <4>1, <4>2 DEF LiveKeys
      <4>4. Charge(mem, R) = 0
        <5> DEFINE f == [k \in MemKeys |-> Cost(mem[k])]
        <5>1. \A k \in R : f[k] = 0
          BY <4>3 DEF Cost
        <5>2. IsFiniteSet(R)
          BY BasesNat, FS_Subset
        <5>3. SumOf(f, R) = Cardinality(R) * 0
          <6> HIDE DEF f
          <6> QED BY <5>1, <5>2, SumEqual
        <5>4. Cardinality(R) * 0 = 0
          BY <5>2, FS_CardinalityType
        <5> QED BY <5>3, <5>4 DEF Charge
      <4>5. \A k \in MemKeys : MemItem(mem[k])
        BY DEF MemInv, Accounts
      <4>6. Charge(mem, MemKeys) = Charge(mem, K) + Charge(mem, R)
        BY <4>2, <4>5, ChargeSplit
      <4>7. Charge(mem, K) \in Nat /\ used = Charge(mem, MemKeys)
        BY <4>5, ChargeNat DEF MemInv, Accounts
      <4>8. Charge(mem, K) <= MaxMemory
        BY <3>1, <3>4, <4>1
      <4>9. used <= MaxMemory
        BY <4>4, <4>6, <4>7, <4>8
      <4> QED BY <1>1, <4>9 DEF Held
    <3> QED BY <3>2, <3>3, <3>4
  <2> QED BY <2>1, <2>2 DEF MemInv, Held
<1> QED BY <1>2, <1>3, <1>4 DEF MemInv

-----------------------------------------------------------------------------
(* All behaviours.                                                          *)

LEMMA MemInitial == MemInit => MemInv
<1> SUFFICES ASSUME MemInit PROVE MemInv
  OBVIOUS
<1>1. /\ mem = [k \in MemKeys |-> NoItem] /\ used = 0
      /\ evictor = [c \in MemClients |-> NoEvict] /\ gaveUp = FALSE /\ overgrown = {}
  BY DEF MemInit
<1>2. Charge(mem, MemKeys) = 0
  <2> DEFINE f == [k \in MemKeys |-> Cost(mem[k])]
  <2>1. \A k \in MemKeys : f[k] = 0
    BY <1>1, NoItemIs
  <2>2. SumOf(f, MemKeys) = Cardinality(MemKeys) * 0
    <3> HIDE DEF f
    <3> QED BY <2>1, BasesNat, SumEqual
  <2>3. Cardinality(MemKeys) * 0 = 0
    BY BasesNat, FS_CardinalityType
  <2> QED BY <2>2, <2>3 DEF Charge
<1>3. Accounts
  BY <1>1, <1>2, NoItemIs DEF Accounts
<1>4. Evictors
  <2>1. NoEvict \in [keys : SUBSET MemKeys, over : BOOLEAN]
    BY DEF NoEvict
  <2> QED BY <1>1, <2>1 DEF Evictors, Idle
<1>5. History /\ Held
  <2>1. History
    BY <1>1 DEF History
  <2>2. used <= MaxMemory
    BY <1>1, BasesNat
  <2> QED BY <2>1, <2>2 DEF Held
<1>6. Fitted
  BY <1>1, NoItemIs, BasesNat DEF Fitted
<1> QED BY <1>3, <1>4, <1>5, <1>6 DEF MemInv

LEMMA MemStep ==
  ASSUME MemInv, [MemNext]_memVars
  PROVE  MemInv'
<1>1. CASE UNCHANGED memVars
  BY <1>1 DEF memVars, MemInv, Accounts, Evictors, History, Fitted, Held, Idle
<1>2. CASE \E c \in MemClients : CheckLimit(c) \/ EvictOne(c) \/ GiveUp(c)
  BY <1>2, CheckLimitStep, EvictOneStep, GiveUpStep
<1>3. CASE \E c \in MemClients, K \in (SUBSET MemKeys) \ {{}}, n \in Lengths : Mset(c, K, n)
  BY <1>3, MsetStep
<1>4. ASSUME NEW c \in MemClients, NEW k \in MemKeys,
             \/ \E n \in Lengths : SetStr(c, k, n) \/ Extend(c, k, n)
             \/ \E n \in 1..MaxMemory : IncrBy(c, k, n)
      PROVE  MemInv'
  BY <1>4, SetStrStep, ExtendStep, IncrByStep
<1>5. ASSUME NEW c \in MemClients, NEW k \in MemKeys,
             \/ \E vs \in UNION {[1..n -> Lengths] : n \in 1..2}, front \in BOOLEAN : PushList(c, k, vs, front)
             \/ \E n \in 1..MaxList, front \in BOOLEAN : PopList(c, k, n, front)
      PROVE  MemInv'
  BY <1>5, PushListStep, PopListStep
<1>6. ASSUME NEW c \in MemClients, NEW k \in MemKeys,
             \/ \E F \in (SUBSET Fields) \ {{}} : Hdel(c, k, F) \/ \E n \in Lengths : Hset(c, k, F, n)
             \/ \E f \in Fields, n \in Lengths : Hincrby(c, k, f, n)
      PROVE  MemInv'
  BY <1>6, HdelStep, HsetStep, HincrbyStep
<1>7. CASE \E k \in MemKeys : Drop(k)
  BY <1>7, DropStep
<1> QED BY <1>1, <1>2, <1>3, <1>4, <1>5, <1>6, <1>7 DEF MemNext

LEMMA MemIndInv == MemSpec => []MemInv
BY MemInitial, MemStep, PTL DEF MemSpec

\* The property in terms of the invariant.
LEMMA MemImplies == MemInv => MemorySound
<1> SUFFICES ASSUME MemInv PROVE MemorySound
  OBVIOUS
<1>1. /\ \A k \in MemKeys : MemItem(mem[k]) /\ Cost(mem[k]) \in Nat /\ ValueCost(mem[k]) = Cost(mem[k])
      /\ used = Charge(mem, MemKeys)
  BY ItemCosts DEF MemInv, Accounts
<1>2. used \in Nat
  BY <1>1, ChargeNat
<1>3. MemTypeOK
  <2>1. \A k \in MemKeys :
          /\ mem[k].typ \in {"none", "str", "list", "hash"}
          /\ mem[k].typ = "list" => mem[k].list # <<>>
          /\ mem[k].typ = "hash" => DOMAIN mem[k].hash # {}
    BY <1>1 DEF MemItem
  <2>2. gaveUp \in BOOLEAN /\ overgrown \subseteq MemKeys
    BY DEF MemInv, History
  <2>3. \A c \in MemClients : evictor[c].keys \subseteq MemKeys /\ evictor[c].over \in BOOLEAN
    BY DEF MemInv, Evictors
  <2> QED BY <1>2, <2>1, <2>2, <2>3 DEF MemTypeOK
<1>4. UsedIsSum
  <2> DEFINE f == [k \in MemKeys |-> Cost(mem[k])]
             g == [k \in MemKeys |-> ValueCost(mem[k])]
  <2>1. f = g
    BY <1>1
  <2>2. SumFunction(g) = SumOf(g, MemKeys)
    BY DEF SumFunction, SumOf
  <2>3. used = SumOf(f, MemKeys)
    BY <1>1 DEF Charge
  <2> QED BY <2>1, <2>2, <2>3 DEF UsedIsSum
<1>5. KeyFits
  BY <1>1 DEF KeyFits, MemInv, Fitted
<1>6. LimitKept
  BY DEF LimitKept, MemInv, Held
<1> QED BY <1>3, <1>4, <1>5, <1>6 DEF MemorySound

\* The account of the memory (addUsed, store.go:177; evict, store.go:456) is exact, and
\* bounded when nobody is evicting, unless evictOne gave up or INCR outgrew the limit.
THEOREM MemorySafe == MemSpec => []MemorySound
BY MemIndInv, MemImplies, PTL
=============================================================================
