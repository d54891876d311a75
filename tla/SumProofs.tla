----------------------------- MODULE SumProofs -----------------------------
(***************************************************************************)
(* What the proofs about other modules need of numbers and sums: every set *)
(* of naturals has a least element, and the sum over a finite set that     *)
(* MapThenSumSet computes recursively is the sum, in whatever order the    *)
(* elements are taken.                                                     *)
(***************************************************************************)
EXTENDS Integers, FiniteSetsExt, FiniteSetTheorems, WellFoundedInduction, TLAPS

-----------------------------------------------------------------------------
(* Naturals.                                                               *)

LEMMA LeastNatural ==
    ASSUME NEW S \in SUBSET Nat, S # {}
    PROVE  \E m \in S : \A n \in S : m <= n
  <1> DEFINE R == {ss \in Nat \X Nat : ss[1] < ss[2]}
  <1>1. IsWellFoundedOn(R, Nat)
    BY NatLessThanWellFounded DEF OpToRel
  <1>2. \A y, x \in Nat : y < x => <<y, x>> \in R
    OBVIOUS
  <1> HIDE DEF R
  <1>3. PICK x \in S : \A y \in S : ~ (<<y, x>> \in R)
    BY <1>1, WFMin
  <1>4. ASSUME NEW n \in S
        PROVE  x <= n
    <2>1. n \in Nat /\ x \in Nat /\ ~ (n < x)
      BY <1>2, <1>3
    <2> QED  BY <2>1
  <1> QED  BY <1>4

\* and a greatest one if there is a bound.
LEMMA GreatestNatural ==
    ASSUME NEW S \in SUBSET Nat, S # {}, NEW n \in Nat, \A s \in S : s <= n
    PROVE  Max(S) \in S /\ \A s \in S : s <= Max(S)
  <1> DEFINE D == {n - s : s \in S}
  <1>0. \A s \in S : s \in Nat /\ n - s \in Nat
    OBVIOUS
  <1>1. D \in SUBSET Nat /\ D # {}
    BY <1>0
  <1>2. PICK d \in D : \A e \in D : d <= e
    BY <1>1, LeastNatural
  <1>3. PICK m \in S : d = n - m
    OBVIOUS
  <1>4. \A s \in S : m >= s
    <2> SUFFICES ASSUME NEW s \in S PROVE m >= s
      OBVIOUS
    <2>1. n - s \in D
      OBVIOUS
    <2>2. n - m <= n - s
      BY <1>2, <1>3, <2>1
    <2> QED  BY <1>0, <2>2
  <1>5. Max(S) \in S /\ \A s \in S : Max(S) >= s
    BY <1>4 DEF Max
  <1> HIDE DEF D
  <1> QED  BY <1>0, <1>5

\* Induction, with a set in the place of a predicate.
LEMMA NaturalsBySteps ==
    ASSUME NEW S \in SUBSET Nat, 0 \in S, \A n \in S : n + 1 \in S
    PROVE  S = Nat
  <1> SUFFICES ASSUME S # Nat PROVE FALSE
    OBVIOUS
  <1>1. Nat \ S # {} /\ Nat \ S \in SUBSET Nat
    OBVIOUS
  <1>2. PICK m \in Nat \ S : \A n \in Nat \ S : m <= n
    BY <1>1, LeastNatural
  <1>3. m - 1 \in Nat /\ m - 1 \in S
    BY <1>2
  <1> QED  BY <1>2, <1>3

-----------------------------------------------------------------------------
(* Sums.                                                                   *)

Some(s) == CHOOSE x \in s : TRUE

\* The recursion behind MapThenSumSet, for the values f has on the subsets in D.
Adds(g, f, D) ==
    g = [s \in D |-> IF s = {} THEN 0 ELSE f[Some(s)] + g[s \ {Some(s)}]]

UpTo(S, n) == {s \in SUBSET S : Cardinality(s) <= n}

SumOf(f, S) == MapThenSumSet(LAMBDA x : f[x], S)

LEMMA SomeIn == ASSUME NEW s, s # {} PROVE Some(s) \in s
  BY DEF Some

LEMMA SmallerBelow ==
    ASSUME NEW S, IsFiniteSet(S), NEW n \in Nat, NEW s \in UpTo(S, n + 1), s # {}
    PROVE  s \ {Some(s)} \in UpTo(S, n) /\ Some(s) \in S
  <1>1. s \in SUBSET S /\ Cardinality(s) <= n + 1 /\ Some(s) \in s
    BY SomeIn DEF UpTo
  <1>2. IsFiniteSet(s) /\ Cardinality(s) \in Nat
    BY <1>1, FS_Subset, FS_CardinalityType
  <1>3. Cardinality(s \ {Some(s)}) = Cardinality(s) - 1
    BY <1>1, <1>2, FS_RemoveElement
  <1> QED  BY <1>1, <1>2, <1>3 DEF UpTo

\* Sums of sets up to some size exist.
LEMMA SumsExist ==
    ASSUME NEW S, IsFiniteSet(S), NEW f, \A x \in S : f[x] \in Int
    PROVE  \A n \in Nat : \E g \in [UpTo(S, n) -> Int] : Adds(g, f, UpTo(S, n))
  <1> DEFINE N == {n \in Nat : \E g \in [UpTo(S, n) -> Int] : Adds(g, f, UpTo(S, n))}
  <1>1. 0 \in N
    <2> DEFINE g == [s \in UpTo(S, 0) |-> 0]
    <2>1. \A s \in UpTo(S, 0) : s = {}
      <3> SUFFICES ASSUME NEW s \in UpTo(S, 0) PROVE s = {}
        OBVIOUS
      <3>1. s \in SUBSET S /\ Cardinality(s) <= 0
        BY DEF UpTo
      <3>2. IsFiniteSet(s) /\ Cardinality(s) \in Nat
        BY <3>1, FS_Subset, FS_CardinalityType
      <3> QED  BY <3>1, <3>2, FS_EmptySet
    <2>2. Adds(g, f, UpTo(S, 0))
      BY <2>1 DEF Adds
    <2>3. g \in [UpTo(S, 0) -> Int]
      OBVIOUS
    <2> QED  BY <2>2, <2>3
  <1>2. ASSUME NEW n \in N
        PROVE  n + 1 \in N
    <2>0. n \in Nat /\ UpTo(S, n) \subseteq UpTo(S, n + 1)
      <3>1. \A s \in SUBSET S : Cardinality(s) \in Nat
        BY FS_Subset, FS_CardinalityType
      <3> QED  BY <3>1 DEF UpTo
    <2>1. PICK g \in [UpTo(S, n) -> Int] : Adds(g, f, UpTo(S, n))
      OBVIOUS
    <2> DEFINE h == [s \in UpTo(S, n + 1) |->
                        IF s = {} THEN 0 ELSE f[Some(s)] + g[s \ {Some(s)}]]
    <2>2. \A s \in UpTo(S, n) : h[s] = g[s]
      BY <2>0, <2>1 DEF Adds
    <2>3. \A s \in UpTo(S, n + 1) : s # {} =>
              /\ s \ {Some(s)} \in UpTo(S, n) /\ Some(s) \in S
      BY <2>0, SmallerBelow
    <2>4. h \in [UpTo(S, n + 1) -> Int]
      BY <2>3
    <2>5. h = [s \in UpTo(S, n + 1) |-> IF s = {} THEN 0 ELSE f[Some(s)] + h[s \ {Some(s)}]]
      BY <2>2, <2>3
    <2> HIDE DEF h
    <2>6. Adds(h, f, UpTo(S, n + 1))
      BY <2>5 DEF Adds
    <2> QED  BY <2>0, <2>4, <2>6
  <1> HIDE DEF N
  <1>3. N \in SUBSET Nat
    BY DEF N
  <1>4. N = Nat
    BY <1>1, <1>2, <1>3, NaturalsBySteps
  <1> QED  BY <1>4 DEF N

\* and are the same whatever else there is to sum.
LEMMA SumsAgree ==
    ASSUME NEW S, IsFiniteSet(S), NEW f, NEW g, Adds(g, f, SUBSET S)
    PROVE  \A T \in SUBSET S : \A h : Adds(h, f, SUBSET T) => \A s \in SUBSET T : g[s] = h[s]
  <1> SUFFICES ASSUME NEW T \in SUBSET S, NEW h, Adds(h, f, SUBSET T), NEW s \in SUBSET T
               PROVE  g[s] = h[s]
    OBVIOUS
  <1> DEFINE N == {n \in Nat : \A t \in UpTo(T, n) : g[t] = h[t]}
  <1>0. IsFiniteSet(T)
    BY FS_Subset
  <1>1. 0 \in N
    <2> SUFFICES ASSUME NEW t \in UpTo(T, 0) PROVE g[t] = h[t]
      OBVIOUS
    <2>1. t \in SUBSET T /\ Cardinality(t) <= 0
      BY DEF UpTo
    <2>2. t = {}
      BY <1>0, <2>1, FS_Subset, FS_CardinalityType, FS_EmptySet
    <2> QED  BY <2>1, <2>2 DEF Adds
  <1>2. ASSUME NEW n \in N
        PROVE  n + 1 \in N
    <2> SUFFICES ASSUME NEW t \in UpTo(T, n + 1) PROVE g[t] = h[t]
      OBVIOUS
    <2>1. t \in SUBSET T /\ t \in SUBSET S
      BY DEF UpTo
    <2>2. CASE t = {}
      BY <2>1, <2>2 DEF Adds
    <2>3. CASE t # {}
      <3>1. t \ {Some(t)} \in UpTo(T, n)
        BY <1>0, <2>3, SmallerBelow
      <3>2. g[t \ {Some(t)}] = h[t \ {Some(t)}]
        BY <3>1
      <3>3. g[t] = f[Some(t)] + g[t \ {Some(t)}]
        BY <2>1, <2>3 DEF Adds
      <3>4. h[t] = f[Some(t)] + h[t \ {Some(t)}]
        BY <2>1, <2>3 DEF Adds
      <3> QED  BY <3>2, <3>3, <3>4
    <2> QED  BY <2>2, <2>3
  <1> HIDE DEF N
  <1>3. N = Nat
    <2>1. N \in SUBSET Nat
      BY DEF N
    <2> QED  BY <1>1, <1>2, <2>1, NaturalsBySteps
  <1>4. Cardinality(T) \in Nat /\ SUBSET T = UpTo(T, Cardinality(T))
    BY <1>0, FS_CardinalityType, FS_Subset DEF UpTo
  <1> QED  BY <1>3, <1>4 DEF N

\* So the recursion over all subsets has a solution, and MapThenSumSet takes one.
LEMMA SumRecursion ==
    ASSUME NEW S, IsFiniteSet(S), NEW f, \A x \in S : f[x] \in Int
    PROVE  \E g \in [SUBSET S -> Int] : Adds(g, f, SUBSET S) /\ SumOf(f, S) = g[S]
  <1> DEFINE it == CHOOSE g : g = [s \in SUBSET S |->
                                     IF s = {} THEN 0 ELSE f[Some(s)] + g[s \ {Some(s)}]]
  <1>1. Cardinality(S) \in Nat /\ UpTo(S, Cardinality(S)) = SUBSET S
    BY FS_CardinalityType, FS_Subset DEF UpTo
  <1>2. PICK g \in [SUBSET S -> Int] : Adds(g, f, SUBSET S)
    <2>1. \E g \in [UpTo(S, Cardinality(S)) -> Int] : Adds(g, f, UpTo(S, Cardinality(S)))
      BY <1>1, SumsExist
    <2> QED  BY <1>1, <2>1
  <1>3. it = [s \in SUBSET S |-> IF s = {} THEN 0 ELSE f[Some(s)] + it[s \ {Some(s)}]]
    BY <1>2 DEF Adds
  <1>4. SumOf(f, S) = it[S]
    BY DEF SumOf, MapThenSumSet, MapThenFoldSet, Some
  <1> HIDE DEF it
  <1>5. Adds(it, f, SUBSET S)
    BY <1>3 DEF Adds
  <1>6. it[S] = g[S]
    BY <1>2, <1>5, SumsAgree
  <1> QED  BY <1>2, <1>4, <1>6

LEMMA SumEmpty == ASSUME NEW f PROVE SumOf(f, {}) = 0
  <1>1. [x \in {} |-> 0] \in [{} -> Int]
    OBVIOUS
  <1> DEFINE it == CHOOSE g : g = [s \in SUBSET {} |->
                                     IF s = {} THEN 0 ELSE f[Some(s)] + g[s \ {Some(s)}]]
  <1>2. it = [s \in SUBSET {} |-> IF s = {} THEN 0 ELSE f[Some(s)] + it[s \ {Some(s)}]]
    <2>1. [s \in SUBSET {} |-> 0]
             = [s \in SUBSET {} |-> IF s = {} THEN 0
                                    ELSE f[Some(s)] + [t \in SUBSET {} |-> 0][s \ {Some(s)}]]
      OBVIOUS
    <2> QED  BY <2>1
  <1>3. SumOf(f, {}) = it[{}]
    BY DEF SumOf, MapThenSumSet, MapThenFoldSet, Some
  <1> HIDE DEF it
  <1> QED  BY <1>2, <1>3

\* The sum of a part is found in the recursion over the whole.
LEMMA SumOfPart ==
    ASSUME NEW S, IsFiniteSet(S), NEW f, \A x \in S : f[x] \in Int, NEW g,
           Adds(g, f, SUBSET S)
    PROVE  \A T \in SUBSET S : SumOf(f, T) = g[T]
  <1>1. \A T \in SUBSET S : \A h : Adds(h, f, SUBSET T) => \A s \in SUBSET T : g[s] = h[s]
    BY SumsAgree
  <1> SUFFICES ASSUME NEW T \in SUBSET S PROVE SumOf(f, T) = g[T]
    OBVIOUS
  <1>2. IsFiniteSet(T) /\ \A x \in T : f[x] \in Int
    BY FS_Subset
  <1>3. PICK h \in [SUBSET T -> Int] : Adds(h, f, SUBSET T) /\ SumOf(f, T) = h[T]
    BY <1>2, SumRecursion
  <1>4. T \in SUBSET T
    OBVIOUS
  <1> QED  BY <1>1, <1>3, <1>4

LEMMA SumType ==
    ASSUME NEW S, IsFiniteSet(S), NEW f, \A x \in S : f[x] \in Int
    PROVE  SumOf(f, S) \in Int
  <1>1. PICK g \in [SUBSET S -> Int] : Adds(g, f, SUBSET S) /\ SumOf(f, S) = g[S]
    BY SumRecursion
  <1> QED  BY <1>1

\* The element that is taken first does not matter.
LEMMA SumTake ==
    ASSUME NEW S, IsFiniteSet(S), NEW f, \A x \in S : f[x] \in Int
    PROVE  \A y \in S : SumOf(f, S) = f[y] + SumOf(f, S \ {y})
  <1> PICK g \in [SUBSET S -> Int] : Adds(g, f, SUBSET S) /\ SumOf(f, S) = g[S]
    BY SumRecursion
  <1> DEFINE N == {n \in Nat : \A s \in UpTo(S, n) : \A y \in s : g[s] = f[y] + g[s \ {y}]}
  <1>0. \A s \in SUBSET S : IsFiniteSet(s) /\ Cardinality(s) \in Nat
    BY FS_Subset, FS_CardinalityType
  <1>1. 0 \in N
    <2>1. \A s \in UpTo(S, 0) : s = {}
      BY <1>0, FS_EmptySet DEF UpTo
    <2> QED  BY <2>1
  <1>2. ASSUME NEW n \in N
        PROVE  n + 1 \in N
    <2> SUFFICES ASSUME NEW s \in UpTo(S, n + 1), NEW y \in s
                 PROVE  g[s] = f[y] + g[s \ {y}]
      OBVIOUS
    <2> DEFINE z == Some(s)
    <2>1. s \in SUBSET S /\ s # {} /\ z \in s /\ s \ {z} \in UpTo(S, n)
      BY SmallerBelow, SomeIn DEF UpTo
    <2>2. g[s] = f[z] + g[s \ {z}]
      BY <2>1 DEF Adds
    <2>3. CASE y = z
      BY <2>2, <2>3
    <2>4. CASE y # z
      <3>1. y \in s \ {z} /\ s \ {z} \in SUBSET S
        BY <2>1, <2>4
      <3>2. g[s \ {z}] = f[y] + g[(s \ {z}) \ {y}]
        BY <2>1, <3>1
      <3>3. s \ {y} \in UpTo(S, n) /\ z \in s \ {y}
        <4>1. Cardinality(s \ {y}) = Cardinality(s) - 1
          BY <1>0, <2>1, FS_RemoveElement
        <4>2. Cardinality(s) <= n + 1 /\ Cardinality(s) \in Nat /\ n \in Nat
          BY <1>0, <2>1 DEF UpTo
        <4> QED  BY <2>1, <2>4, <4>1, <4>2 DEF UpTo
      <3>4. g[s \ {y}] = f[z] + g[(s \ {y}) \ {z}]
        BY <3>3
      <3>5. (s \ {y}) \ {z} = (s \ {z}) \ {y}
        OBVIOUS
      <3> DEFINE rest == g[(s \ {z}) \ {y}]
      <3>6. f[y] \in Int /\ f[z] \in Int /\ rest \in Int
        BY <2>1
      <3>7. g[s] = f[z] + (f[y] + rest) /\ g[s \ {y}] = f[z] + rest
        BY <2>2, <3>2, <3>4, <3>5
      <3> HIDE DEF rest
      <3> QED  BY <3>6, <3>7
    <2> QED  BY <2>3, <2>4
  <1> HIDE DEF N
  <1>3. N = Nat
    <2>1. N \in SUBSET Nat
      BY DEF N
    <2> QED  BY <1>1, <1>2, <2>1, NaturalsBySteps
  <1>4. S \in UpTo(S, Cardinality(S)) /\ Cardinality(S) \in Nat
    BY <1>0 DEF UpTo
  <1>5. \A y \in S : g[S] = f[y] + g[S \ {y}]
    BY <1>3, <1>4 DEF N
  <1>6. \A y \in S : SumOf(f, S \ {y}) = g[S \ {y}]
    BY SumOfPart
  <1> QED  BY <1>5, <1>6

LEMMA SumAdd ==
    ASSUME NEW S, IsFiniteSet(S), NEW f, NEW y, y \notin S, \A x \in S \cup {y} : f[x] \in Int
    PROVE  SumOf(f, S \cup {y}) = f[y] + SumOf(f, S)
  <1>1. IsFiniteSet(S \cup {y}) /\ y \in S \cup {y} /\ (S \cup {y}) \ {y} = S
    BY FS_AddElement
  <1>2. SumOf(f, S \cup {y}) = f[y] + SumOf(f, (S \cup {y}) \ {y})
    BY <1>1, SumTake
  <1> QED  BY <1>1, <1>2

\* Sums of larger summands are larger, and of the same summands the same.
LEMMA SumMonotone ==
    ASSUME NEW S, IsFiniteSet(S), NEW f, NEW h,
           \A x \in S : f[x] \in Int /\ h[x] \in Int /\ f[x] <= h[x]
    PROVE  SumOf(f, S) <= SumOf(h, S)
  <1> DEFINE N == {n \in Nat : \A s \in UpTo(S, n) : SumOf(f, s) <= SumOf(h, s)}
  <1>0. \A s \in SUBSET S : IsFiniteSet(s) /\ Cardinality(s) \in Nat
    BY FS_Subset, FS_CardinalityType
  <1>1. 0 \in N
    <2>1. \A s \in UpTo(S, 0) : s = {}
      BY <1>0, FS_EmptySet DEF UpTo
    <2> QED  BY <2>1, SumEmpty
  <1>2. ASSUME NEW n \in N
        PROVE  n + 1 \in N
    <2> SUFFICES ASSUME NEW s \in UpTo(S, n + 1)
                 PROVE  SumOf(f, s) <= SumOf(h, s)
      OBVIOUS
    <2>1. s \in SUBSET S /\ IsFiniteSet(s)
      BY <1>0 DEF UpTo
    <2>2. CASE s = {}
      BY <2>2, SumEmpty
    <2>3. CASE s # {}
      <3> DEFINE z == Some(s)
      <3>1. z \in s /\ s \ {z} \in UpTo(S, n) /\ s \ {z} \in SUBSET S
        BY <2>1, <2>3, SmallerBelow, SomeIn
      <3>2. SumOf(f, s) = f[z] + SumOf(f, s \ {z}) /\ SumOf(h, s) = h[z] + SumOf(h, s \ {z})
        BY <2>1, <3>1, SumTake
      <3>3. SumOf(f, s \ {z}) <= SumOf(h, s \ {z})
        BY <3>1
      <3>4. SumOf(f, s \ {z}) \in Int /\ SumOf(h, s \ {z}) \in Int
        BY <1>0, <3>1, SumType
      <3>5. f[z] \in Int /\ h[z] \in Int /\ f[z] <= h[z]
        BY <2>1, <3>1
      <3> QED  BY <3>2, <3>3, <3>4, <3>5
    <2> QED  BY <2>2, <2>3
  <1> HIDE DEF N
  <1>3. N = Nat
    <2>1. N \in SUBSET Nat
      BY DEF N
    <2> QED  BY <1>1, <1>2, <2>1, NaturalsBySteps
  <1> QED  BY <1>0, <1>3 DEF N, UpTo

LEMMA SumSame ==
    ASSUME NEW S, IsFiniteSet(S), NEW f, NEW h, \A x \in S : f[x] \in Int /\ f[x] = h[x]
    PROVE  SumOf(f, S) = SumOf(h, S)
  <1>1. SumOf(f, S) <= SumOf(h, S) /\ SumOf(h, S) <= SumOf(f, S)
    BY SumMonotone
  <1>2. SumOf(f, S) \in Int /\ SumOf(h, S) \in Int
    BY SumType
  <1> QED  BY <1>1, <1>2

LEMMA SumPositive ==
    ASSUME NEW S, IsFiniteSet(S), NEW f, \A x \in S : f[x] \in Nat
    PROVE  SumOf(f, S) \in Nat /\ \A y \in S : f[y] <= SumOf(f, S)
  <1> DEFINE N == {n \in Nat : \A s \in UpTo(S, n) : SumOf(f, s) >= 0}
  <1>0. \A s \in SUBSET S : IsFiniteSet(s) /\ Cardinality(s) \in Nat /\ SumOf(f, s) \in Int
    <2>1. \A s \in SUBSET S : IsFiniteSet(s) /\ Cardinality(s) \in Nat
      BY FS_Subset, FS_CardinalityType
    <2> QED  BY <2>1, SumType
  <1>1. 0 \in N
    <2>1. \A s \in UpTo(S, 0) : s = {}
      BY <1>0, FS_EmptySet DEF UpTo
    <2>2. SumOf(f, {}) = 0
      BY SumEmpty
    <2> QED  BY <2>1, <2>2
  <1>2. ASSUME NEW n \in N
        PROVE  n + 1 \in N
    <2> SUFFICES ASSUME NEW s \in UpTo(S, n + 1)
                 PROVE  SumOf(f, s) >= 0
      OBVIOUS
    <2>1. s \in SUBSET S /\ IsFiniteSet(s)
      BY <1>0 DEF UpTo
    <2>2. CASE s = {}
      BY <2>2, SumEmpty
    <2>3. CASE s # {}
      <3> DEFINE z == Some(s)
      <3>1. z \in s /\ s \ {z} \in UpTo(S, n) /\ s \ {z} \in SUBSET S
        BY <2>1, <2>3, SmallerBelow, SomeIn
      <3>2. SumOf(f, s) = f[z] + SumOf(f, s \ {z})
        BY <2>1, <3>1, SumTake
      <3>3. SumOf(f, s \ {z}) >= 0 /\ SumOf(f, s \ {z}) \in Int /\ f[z] \in Nat
        BY <1>0, <2>1, <3>1
      <3> QED  BY <3>2, <3>3
    <2> QED  BY <2>2, <2>3
  <1> HIDE DEF N
  <1>3. N = Nat
    <2>1. N \in SUBSET Nat
      BY DEF N
    <2> QED  BY <1>1, <1>2, <2>1, NaturalsBySteps
  <1>4. \A T \in SUBSET S : SumOf(f, T) \in Nat
    BY <1>0, <1>3 DEF N, UpTo
  <1>5. ASSUME NEW y \in S
        PROVE  f[y] <= SumOf(f, S)
    <2>1. SumOf(f, S) = f[y] + SumOf(f, S \ {y})
      BY SumTake
    <2>2. SumOf(f, S \ {y}) \in Nat /\ f[y] \in Nat
      BY <1>4
    <2> QED  BY <2>1, <2>2
  <1> QED  BY <1>4, <1>5

\* A part of a sum of naturals is no larger than the whole.
LEMMA SumOfSubset ==
    ASSUME NEW S, IsFiniteSet(S), NEW f, \A x \in S : f[x] \in Nat
    PROVE  \A T \in SUBSET S : SumOf(f, T) <= SumOf(f, S)
  <1> SUFFICES ASSUME NEW T \in SUBSET S PROVE SumOf(f, T) <= SumOf(f, S)
    OBVIOUS
  <1> DEFINE N == {n \in Nat : \A R \in UpTo(S, n) :
                                  R \cap T = {} => SumOf(f, T) <= SumOf(f, T \cup R)}
  <1>0. \A s \in SUBSET S : IsFiniteSet(s) /\ Cardinality(s) \in Nat /\ SumOf(f, s) \in Int
    <2>1. \A s \in SUBSET S : IsFiniteSet(s) /\ Cardinality(s) \in Nat
      BY FS_Subset, FS_CardinalityType
    <2>2. \A x \in S : f[x] \in Int
      OBVIOUS
    <2> SUFFICES ASSUME NEW s \in SUBSET S PROVE SumOf(f, s) \in Int
      BY <2>1
    <2>3. IsFiniteSet(s) /\ \A x \in s : f[x] \in Int
      BY <2>1, <2>2
    <2> QED  BY <2>3, SumType
  <1>1. 0 \in N
    <2>1. \A R \in UpTo(S, 0) : R = {}
      BY <1>0, FS_EmptySet DEF UpTo
    <2>2. T \cup {} = T /\ SumOf(f, T) <= SumOf(f, T)
      BY <1>0
    <2> QED  BY <2>1, <2>2
  <1>2. ASSUME NEW n \in N
        PROVE  n + 1 \in N
    <2>0. n \in Nat
      OBVIOUS
    <2> SUFFICES ASSUME NEW R \in UpTo(S, n + 1), R \cap T = {}
                 PROVE  SumOf(f, T) <= SumOf(f, T \cup R)
      BY <2>0
    <2>1. CASE R = {}
      BY <1>0, <2>1
    <2>2. CASE R # {}
      <3> DEFINE y == Some(R)
                 U == T \cup (R \ {y})
      <3>1. y \in R /\ y \in S /\ R \ {y} \in UpTo(S, n) /\ R \in SUBSET S
        BY <2>0, <2>2, SomeIn, SmallerBelow DEF UpTo
      <3>2. SumOf(f, T) <= SumOf(f, U)
        BY <3>1
      <3>3. T \cup R = U \cup {y} /\ y \notin U /\ U \in SUBSET S
        BY <3>1
      <3> HIDE DEF U, y
      <3>4. SumOf(f, U \cup {y}) = f[y] + SumOf(f, U)
        <4>1. IsFiniteSet(U) /\ \A x \in U \cup {y} : f[x] \in Int
          BY <1>0, <3>1, <3>3
        <4> QED  BY <3>3, <4>1, SumAdd
      <3>5. f[y] \in Nat /\ SumOf(f, U) \in Int /\ SumOf(f, T) \in Int
        BY <1>0, <3>1, <3>3
      <3>6. SumOf(f, T \cup R) = SumOf(f, U \cup {y})
        BY <3>3
      <3> QED  BY <3>2, <3>4, <3>5, <3>6
    <2> QED  BY <2>1, <2>2
  <1> HIDE DEF N
  <1>3. N = Nat
    <2>1. N \in SUBSET Nat
      BY DEF N
    <2> QED  BY <1>1, <1>2, <2>1, NaturalsBySteps
  <1>4. S \ T \in SUBSET S /\ (S \ T) \cap T = {} /\ T \cup (S \ T) = S
    OBVIOUS
  <1>5. S \ T \in UpTo(S, Cardinality(S \ T)) /\ Cardinality(S \ T) \in N
    BY <1>0, <1>3, <1>4 DEF UpTo
  <1>6. SumOf(f, T) <= SumOf(f, T \cup (S \ T))
    BY <1>4, <1>5 DEF N
  <1> QED  BY <1>4, <1>6

-----------------------------------------------------------------------------
(* Folds.                                                                  *)

\* The recursion behind a fold, over the sets in D.
Folds(g, base, next, pick, D) ==
    g = [s \in D |-> IF s = {} THEN base ELSE next[<<pick[s], g[s \ {pick[s]}]>>]]

\* It has a solution.
LEMMA FoldsExist ==
    ASSUME NEW S, IsFiniteSet(S), NEW V, NEW base \in V, NEW next \in [S \X V -> V], NEW pick,
           \A s \in SUBSET S : s # {} => pick[s] \in s
    PROVE  \E g \in [SUBSET S -> V] : Folds(g, base, next, pick, SUBSET S)
  <1> DEFINE D(n) == UpTo(S, n)
             N == {n \in Nat : \E g \in [D(n) -> V] : Folds(g, base, next, pick, D(n))}
  <1>0. \A s \in SUBSET S : IsFiniteSet(s) /\ Cardinality(s) \in Nat
    BY FS_Subset, FS_CardinalityType
  <1>1. 0 \in N
    <2> DEFINE g == [s \in D(0) |-> base]
    <2>1. \A s \in D(0) : s = {}
      BY <1>0, FS_EmptySet DEF UpTo
    <2>2. Folds(g, base, next, pick, D(0))
      BY <2>1 DEF Folds
    <2>3. g \in [D(0) -> V]
      OBVIOUS
    <2> QED  BY <2>2, <2>3
  <1>2. ASSUME NEW n \in N
        PROVE  n + 1 \in N
    <2>0. n \in Nat /\ D(n) \subseteq D(n + 1)
      BY <1>0 DEF UpTo
    <2>1. PICK g \in [D(n) -> V] : Folds(g, base, next, pick, D(n))
      OBVIOUS
    <2> DEFINE h == [s \in D(n + 1) |->
                        IF s = {} THEN base ELSE next[<<pick[s], g[s \ {pick[s]}]>>]]
    <2>2. \A s \in D(n) : h[s] = g[s]
      BY <2>0, <2>1 DEF Folds
    <2>3. ASSUME NEW s \in D(n + 1), s # {}
          PROVE  s \ {pick[s]} \in D(n) /\ pick[s] \in S
      <3>1. s \in SUBSET S /\ Cardinality(s) <= n + 1 /\ pick[s] \in s
        BY <2>3 DEF UpTo
      <3>2. Cardinality(s \ {pick[s]}) = Cardinality(s) - 1 /\ Cardinality(s) \in Nat
        BY <1>0, <3>1, FS_RemoveElement
      <3> QED  BY <2>0, <3>1, <3>2 DEF UpTo
    <2>4. h \in [D(n + 1) -> V]
      <3>1. \A s \in D(n + 1) : s # {} => next[<<pick[s], g[s \ {pick[s]}]>>] \in V
        BY <2>1, <2>3
      <3> QED  BY <3>1
    <2>5. h = [s \in D(n + 1) |-> IF s = {} THEN base ELSE next[<<pick[s], h[s \ {pick[s]}]>>]]
      BY <2>2, <2>3
    <2> HIDE DEF h
    <2>6. Folds(h, base, next, pick, D(n + 1))
      BY <2>5 DEF Folds
    <2> QED  BY <2>0, <2>4, <2>6
  <1> HIDE DEF N
  <1>3. N = Nat
    <2>1. N \in SUBSET Nat
      BY DEF N
    <2> QED  BY <1>1, <1>2, <2>1, NaturalsBySteps
  <1>4. Cardinality(S) \in Nat /\ UpTo(S, Cardinality(S)) = SUBSET S
    BY <1>0, FS_CardinalityType, FS_Subset DEF UpTo
  <1>5. Cardinality(S) \in N
    BY <1>3, <1>4
  <1>6. \E g \in [UpTo(S, Cardinality(S)) -> V] : Folds(g, base, next, pick, UpTo(S, Cardinality(S)))
    BY <1>5 DEF N
  <1> QED  BY <1>4, <1>6
=============================================================================
