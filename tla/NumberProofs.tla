---------------------------- MODULE NumberProofs ----------------------------
(***************************************************************************)
(* Numbers: what division and multiplication give, for sizes that are not  *)
(* known; what sums over finite sets and over sequences are, which holds   *)
(* by induction; and functions that are defined by recursion.              *)
(***************************************************************************)
EXTENDS Integers, Sequences, FiniteSets, Functions, FiniteSetTheorems, TLAPS

\* Integer division with remainder.
LEMMA DivMod ==
  ASSUME NEW h \in Nat, NEW n \in Nat, n > 0
  PROVE  h \div n \in Nat /\ h % n \in 0 .. n - 1 /\ h = (n * (h \div n)) + (h % n)
OBVIOUS

\* A window of an odd number of rows has as many on each side of its centre.
LEMMA HalfFacts ==
  ASSUME NEW w \in Nat, w % 2 = 1, w > 1
  PROVE  w \div 2 \in Nat /\ w \div 2 > 0 /\ w = 2 * (w \div 2) + 1
OBVIOUS

\* Multiplying by a successor.
LEMMA StepProduct ==
  ASSUME NEW k \in Nat, NEW q \in Nat
  PROVE  (k + 1) * q = k * q + q /\ k * q \in Nat
OBVIOUS

\* Products are monotone.
LEMMA ProductMonotone ==
  ASSUME NEW k \in Nat, NEW l \in Nat, NEW q \in Nat, k <= l
  PROVE  k * q <= l * q
OBVIOUS

\* What is put together from a quotient and a remainder comes apart again.
LEMMA DivModUnique ==
  ASSUME NEW a \in Int, NEW c \in Nat, c > 0, NEW r \in 0 .. c - 1
  PROVE  (c * a + r) \div c = a /\ (c * a + r) % c = r
OBVIOUS

\* A product of a number below n with one more than it.
LEMMA ProductBelow ==
  ASSUME NEW p \in Nat, NEW n \in Nat, NEW c \in Nat, p < n
  PROVE  p * c \in Nat /\ (p + 1) * c = p * c + c /\ p * c + c <= n * c
OBVIOUS

\* A window of high rows in the order its loops fill it, across samples a row:
\* where position k lies.
LEMMA PositionFacts ==
  ASSUME NEW high \in Nat, NEW across \in Nat, across > 0, NEW k \in 0 .. (high * across) - 1
  PROVE  /\ k \div across \in 0 .. high - 1
         /\ k % across \in 0 .. across - 1
         /\ k = across * (k \div across) + (k % across)
<1> DEFINE q == k \div across
<1>1. high * across \in Nat
  OBVIOUS
<1>2. k \in Nat /\ k < high * across
  BY <1>1
<1>3. q \in Nat /\ k % across \in 0 .. across - 1 /\ k = (across * q) + (k % across)
  BY <1>2, DivMod
<1> HIDE DEF q
<1>4. across * q <= k
  BY <1>2, <1>3
<1>5. q < high
  <2> SUFFICES ASSUME q >= high PROVE FALSE
    BY <1>3
  <2>1. high * across <= q * across
    BY <1>3, ProductMonotone
  <2>. QED
    BY <1>1, <1>2, <1>3, <1>4, <2>1
<1>. QED
  BY <1>3, <1>5 DEF q

\* Each row and each place in it have their position.
LEMMA PositionExists ==
  ASSUME NEW high \in Nat, NEW across \in Nat, across > 0, NEW a \in 0 .. high - 1, NEW b \in 0 .. across - 1
  PROVE  /\ across * a + b \in 0 .. (high * across) - 1
         /\ (across * a + b) \div across = a /\ (across * a + b) % across = b
<1>1. a \in Nat /\ a < high
  OBVIOUS
<1>2. a * across \in Nat /\ a * across + across <= high * across /\ across * a = a * across
  BY <1>1, ProductBelow
<1>3. high * across \in Nat
  OBVIOUS
<1>. QED
  BY <1>1, <1>2, <1>3, DivModUnique

(***************************************************************************)
(* Sums over finite sets, by induction: a set that were the smallest one   *)
(* without the property would have a smaller one.                          *)
(***************************************************************************)

\* What the empty set has, and a set with one element more than a set that has it,
\* every finite set has.
LEMMA SetInduction ==
  ASSUME NEW S, IsFiniteSet(S), NEW Good,
         {} \in Good,
         \A T \in SUBSET S : \A x \in S \ T : T \in Good => T \union {x} \in Good
  PROVE  S \in Good
<1> DEFINE Bad == {T \in SUBSET S : T \notin Good}
<1>1. \A T \in SUBSET S : IsFiniteSet(T)
  BY FS_Subset
<1>2. Bad \subseteq FiniteSubsetsOf(S)
  BY <1>1 DEF FiniteSubsetsOf
<1>3. ASSUME Bad # {} PROVE FALSE
  <2>1. PICK T \in Bad : \A U \in Bad : ~ (<<U, T>> \in StrictSubsetOrdering(S))
    BY <1>2, <1>3, FS_StrictSubsetOrderingWellFounded, WFMin
  <2>2. PICK x : x \in T
    BY <2>1
  <2> DEFINE U == T \ {x}
  <2>3. U \in SUBSET S /\ U # T /\ U \subseteq T /\ x \in S \ U /\ U \union {x} = T
    BY <2>2
  <2>4. <<U, T>> \in StrictSubsetOrdering(S)
    BY <2>3 DEF StrictSubsetOrdering
  <2> QED
    BY <2>1, <2>3, <2>4
<1> QED
  BY <1>3

\* Induction over the numbers, from that over finite sets.
LEMMA NumberInduction ==
  ASSUME NEW Good, 0 \in Good, \A n \in Nat : n \in Good => n + 1 \in Good, NEW n \in Nat
  PROVE  n \in Good
<1> DEFINE S == 1 .. n
           Sets == {T \in SUBSET S : Cardinality(T) \in Good}
<1>1. IsFiniteSet(S) /\ Cardinality(S) = n
  BY FS_Interval
<1>2. {} \in Sets
  BY FS_EmptySet
<1>3. ASSUME NEW T \in SUBSET S, NEW x \in S \ T, T \in Sets
      PROVE  T \union {x} \in Sets
  <2>1. IsFiniteSet(T)
    BY <1>1, FS_Subset
  <2>2. Cardinality(T) \in Nat /\ Cardinality(T \union {x}) = Cardinality(T) + 1
    BY <2>1, FS_CardinalityType, FS_AddElement
  <2> QED
    BY <1>3, <2>2
<1>4. S \in Sets
  <2> HIDE DEF Sets, S
  <2> QED
    BY <1>1, <1>2, <1>3, SetInduction
<1> QED
  BY <1>1, <1>4

Some(s) == CHOOSE x \in s : TRUE
\* The function by which SumFunctionOnSet is defined.
IsIteration(g, f, S) == g = [s \in SUBSET S |-> IF s = {} THEN 0 ELSE f[Some(s)] + g[s \ {Some(s)}]]
Iteration(f, S) == CHOOSE g : IsIteration(g, f, S)

\* The sum over a set is what the iteration gives for all of it.
LEMMA SumIsIteration == ASSUME NEW f, NEW S PROVE SumFunctionOnSet(f, S) = Iteration(f, S)[S]
  BY DEF SumFunctionOnSet, FoldFunctionOnSet, MapThenFoldSet, Iteration, IsIteration, Some

\* There is a function that takes the elements off one by one: by induction, one that
\* does so for all subsets of at most n elements.
LEMMA IterationExists ==
  ASSUME NEW S, IsFiniteSet(S), NEW f
  PROVE  IsIteration(Iteration(f, S), f, S)
<1> DEFINE Value(g, s) == IF s = {} THEN 0 ELSE f[Some(s)] + g[s \ {Some(s)}]
           UpTo(g, n) == \A s \in SUBSET S : Cardinality(s) <= n => g[s] = Value(g, s)
           Exists(n) == \E g : g = [s \in SUBSET S |-> g[s]] /\ UpTo(g, n)
           Good == {n \in Nat : Exists(n)}
<1>1. \A s \in SUBSET S : /\ IsFiniteSet(s) /\ Cardinality(s) \in Nat /\ (Cardinality(s) = 0 <=> s = {})
                          /\ s # {} => Some(s) \in s /\ Cardinality(s \ {Some(s)}) = Cardinality(s) - 1
  <2> TAKE s \in SUBSET S
  <2>1. IsFiniteSet(s)
    BY FS_Subset
  <2>2. Cardinality(s) \in Nat /\ (Cardinality(s) = 0 <=> s = {})
    BY <2>1, FS_CardinalityType, FS_EmptySet
  <2>3. s # {} => Some(s) \in s
    BY DEF Some
  <2> QED
    BY <2>1, <2>2, <2>3, FS_RemoveElement
<1>2. 0 \in Good
  <2> DEFINE g == [s \in SUBSET S |-> 0]
  <2>1. ASSUME NEW s \in SUBSET S, Cardinality(s) <= 0 PROVE g[s] = Value(g, s)
    <3>1. Cardinality(s) \in Nat /\ (Cardinality(s) = 0 <=> s = {})
      BY <1>1
    <3>2. s = {}
      BY <2>1, <3>1
    <3> QED
      BY <3>2
  <2>2. UpTo(g, 0) /\ g = [s \in SUBSET S |-> g[s]]
    BY <2>1
  <2> HIDE DEF g
  <2>3. Exists(0)
    BY <2>2
  <2> HIDE DEF Exists
  <2> QED
    BY <2>3
<1>3. ASSUME NEW n \in Nat, n \in Good PROVE n + 1 \in Good
  <2>1. PICK g : UpTo(g, n)
    BY <1>3
  <2> DEFINE h == [s \in SUBSET S |-> IF Cardinality(s) <= n THEN g[s] ELSE Value(g, s)]
  <2>2. UpTo(h, n + 1)
    <3> SUFFICES ASSUME NEW s \in SUBSET S, Cardinality(s) <= n + 1 PROVE h[s] = Value(h, s)
      OBVIOUS
    <3>1. h[s] = Value(g, s)
      BY <2>1
    <3>2. s # {} => h[s \ {Some(s)}] = g[s \ {Some(s)}]
      <4> SUFFICES ASSUME s # {} PROVE h[s \ {Some(s)}] = g[s \ {Some(s)}]
        OBVIOUS
      <4>1. Cardinality(s \ {Some(s)}) = Cardinality(s) - 1 /\ Cardinality(s) \in Nat
        BY <1>1
      <4>2. Cardinality(s \ {Some(s)}) <= n /\ s \ {Some(s)} \in SUBSET S
        BY <4>1
      <4> QED
        BY <4>2
    <3> HIDE DEF h
    <3> QED
      BY <3>1, <3>2
  <2>3. h = [s \in SUBSET S |-> h[s]]
    OBVIOUS
  <2> HIDE DEF h
  <2>4. Exists(n + 1)
    BY <2>2, <2>3
  <2> HIDE DEF Exists
  <2> QED
    BY <2>4
<1>4. Cardinality(S) \in Good
  <2> HIDE DEF Good
  <2> QED
    BY <1>1, <1>2, <1>3, NumberInduction
<1>5. PICK g : g = [s \in SUBSET S |-> g[s]] /\ UpTo(g, Cardinality(S))
  BY <1>4
<1>6. \A s \in SUBSET S : Cardinality(s) <= Cardinality(S)
  BY FS_Subset
<1>7. g = [s \in SUBSET S |-> Value(g, s)]
  BY <1>5, <1>6
<1>8. IsIteration(g, f, S)
  BY <1>7 DEF IsIteration
<1> QED
  BY <1>8 DEF Iteration


\* The sum over a subset does not depend on the set it is taken from.
LEMMA IterationOfSubset ==
  ASSUME NEW S, IsFiniteSet(S), NEW f, NEW T \in SUBSET S
  PROVE  Iteration(f, S)[T] = SumFunctionOnSet(f, T)
<1> DEFINE g == Iteration(f, S)
           h == Iteration(f, T)
           Bad == {U \in SUBSET T : g[U] # h[U]}
<1>1. IsFiniteSet(T) /\ \A U \in SUBSET T : IsFiniteSet(U)
  BY FS_Subset
<1>2. IsIteration(g, f, S) /\ IsIteration(h, f, T)
  BY <1>1, IterationExists
<1> HIDE DEF g, h
<1>3. ASSUME Bad # {} PROVE FALSE
  <2>1. Bad \subseteq FiniteSubsetsOf(T)
    BY <1>1 DEF FiniteSubsetsOf
  <2>2. PICK U \in Bad : \A V \in Bad : ~ (<<V, U>> \in StrictSubsetOrdering(T))
    BY <2>1, <1>3, FS_StrictSubsetOrderingWellFounded, WFMin
  <2> DEFINE V == U \ {Some(U)}
  <2>3. U \in SUBSET S /\ U \in SUBSET T
    OBVIOUS
  <2>4. /\ g[U] = IF U = {} THEN 0 ELSE f[Some(U)] + g[V]
        /\ h[U] = IF U = {} THEN 0 ELSE f[Some(U)] + h[V]
    BY <1>2, <2>3 DEF IsIteration
  <2>5. CASE U = {}
    BY <2>4, <2>5, <2>2
  <2>6. CASE U # {}
    <3>1. Some(U) \in U
      BY <2>6 DEF Some
    <3>2. V \subseteq U /\ V # U /\ V \in SUBSET T
      BY <3>1
    <3>3. <<V, U>> \in StrictSubsetOrdering(T)
      BY <3>2 DEF StrictSubsetOrdering
    <3>4. g[V] = h[V]
      BY <3>2, <3>3, <2>2
    <3> QED
      BY <3>4, <2>4, <2>6, <2>2
  <2> QED
    BY <2>5, <2>6
<1>4. g[T] = h[T]
  BY <1>3
<1> QED
  BY <1>4, SumIsIteration DEF g, h

\* A sum is the value at some element and the sum over the others.
LEMMA SumUnfolds ==
  ASSUME NEW S, IsFiniteSet(S), NEW f
  PROVE  SumFunctionOnSet(f, S) =
           IF S = {} THEN 0 ELSE f[Some(S)] + SumFunctionOnSet(f, S \ {Some(S)})
<1>1. IsIteration(Iteration(f, S), f, S)
  BY IterationExists
<1>2. Iteration(f, S)[S] = IF S = {} THEN 0 ELSE f[Some(S)] + Iteration(f, S)[S \ {Some(S)}]
  BY <1>1 DEF IsIteration
<1>3. S \ {Some(S)} \in SUBSET S
  OBVIOUS
<1>4. Iteration(f, S)[S \ {Some(S)}] = SumFunctionOnSet(f, S \ {Some(S)})
  BY <1>3, IterationOfSubset
<1> QED
  BY <1>2, <1>4, SumIsIteration

Ints(f, S) == \A x \in S : f[x] \in Int

\* The element that is taken out first may be any.
LEMMA SumRemove ==
  ASSUME NEW S, IsFiniteSet(S), NEW f, Ints(f, S)
  PROVE  /\ SumFunctionOnSet(f, S) \in Int
         /\ \A x \in S : SumFunctionOnSet(f, S) = f[x] + SumFunctionOnSet(f, S \ {x})
<1> DEFINE Good(T) == /\ SumFunctionOnSet(f, T) \in Int
                      /\ \A x \in T : SumFunctionOnSet(f, T) = f[x] + SumFunctionOnSet(f, T \ {x})
           Bad == {T \in SUBSET S : ~ Good(T)}
<1>1. \A T \in SUBSET S : IsFiniteSet(T)
  BY FS_Subset
<1>2. ASSUME Bad # {} PROVE FALSE
  <2>1. Bad \subseteq FiniteSubsetsOf(S)
    BY <1>1 DEF FiniteSubsetsOf
  <2> HIDE DEF Good
  <2>2. PICK T \in Bad : \A U \in Bad : ~ (<<U, T>> \in StrictSubsetOrdering(S))
    BY <2>1, <1>2, FS_StrictSubsetOrderingWellFounded, WFMin
  <2>3. \A x \in T : Good(T \ {x})
    <3> TAKE x \in T
    <3>1. <<T \ {x}, T>> \in StrictSubsetOrdering(S) /\ T \ {x} \in SUBSET S
      BY DEF StrictSubsetOrdering
    <3> QED
      BY <3>1, <2>2
  <2>4. SumFunctionOnSet(f, T) = IF T = {} THEN 0 ELSE f[Some(T)] + SumFunctionOnSet(f, T \ {Some(T)})
    BY <1>1, SumUnfolds
  <2>5. CASE T = {}
    <3>1. Good(T)
      BY <2>4, <2>5 DEF Good
    <3> QED
      BY <3>1
  <2>6. CASE T # {}
    <3> DEFINE c == Some(T)
               Rest(x) == SumFunctionOnSet(f, T \ {x})
    <3>1. c \in T
      BY <2>6 DEF Some
    <3> HIDE DEF c
    <3>2. SumFunctionOnSet(f, T) = f[c] + Rest(c)
      BY <2>4, <2>6 DEF c
    <3>3. \A x \in T : f[x] \in Int /\ Rest(x) \in Int
      BY <2>3 DEF Good, Ints
    <3>4. ASSUME NEW x \in T, x # c
          PROVE  f[c] + Rest(c) = f[x] + Rest(x)
      <4> DEFINE both == SumFunctionOnSet(f, (T \ {x}) \ {c})
      <4>1. (T \ {x}) \ {c} = (T \ {c}) \ {x} /\ c \in T \ {x} /\ x \in T \ {c}
        BY <3>1, <3>4
      <4>2. Rest(x) = f[c] + both
        BY <2>3, <4>1 DEF Good
      <4>3. Rest(c) = f[x] + SumFunctionOnSet(f, (T \ {c}) \ {x})
        BY <2>3, <4>1, <3>1 DEF Good
      <4>4. Rest(c) = f[x] + both
        BY <4>1, <4>3
      <4>5. both \in Int
        <5>1. Good((T \ {x}) \ {c})
          <6>1. (T \ {x}) \ {c} \in SUBSET S /\ <<(T \ {x}) \ {c}, T>> \in StrictSubsetOrdering(S)
            BY <3>1 DEF StrictSubsetOrdering
          <6> QED
            BY <6>1, <2>2
        <5> QED
          BY <5>1 DEF Good
      <4> HIDE DEF both, Rest
      <4> QED
        BY <4>2, <4>4, <4>5, <3>1, <3>3
    <3>5. Good(T)
      <4>1. SumFunctionOnSet(f, T) \in Int
        <5> HIDE DEF Rest
        <5> QED
          BY <3>1, <3>2, <3>3
      <4>2. \A x \in T : SumFunctionOnSet(f, T) = f[x] + Rest(x)
        <5> HIDE DEF Rest
        <5> QED
          BY <3>2, <3>4
      <4> QED
        BY <4>1, <4>2 DEF Good
    <3> QED
      BY <3>5
  <2> QED
    BY <2>5, <2>6
<1> QED
  BY <1>2


\* The sum over no elements.
LEMMA SumEmpty == ASSUME NEW f PROVE SumFunctionOnSet(f, {}) = 0
  BY SumUnfolds, FS_EmptySet

\* An element that is added adds its value.
LEMMA SumAdd ==
  ASSUME NEW S, IsFiniteSet(S), NEW x, x \notin S, NEW f, Ints(f, S \union {x})
  PROVE  /\ SumFunctionOnSet(f, S) \in Int
         /\ SumFunctionOnSet(f, S \union {x}) = f[x] + SumFunctionOnSet(f, S)
<1>1. IsFiniteSet(S \union {x}) /\ (S \union {x}) \ {x} = S
  BY FS_AddElement
<1>2. Ints(f, S)
  BY DEF Ints
<1> QED
  BY <1>1, <1>2, SumRemove

\* What holds of the sums of two functions because it holds of their values: that they
\* are the same, and that one is at most a multiple of the other.
LEMMA SumSame ==
  ASSUME NEW S, IsFiniteSet(S), NEW f, NEW g, Ints(f, S), \A x \in S : g[x] = f[x]
  PROVE  SumFunctionOnSet(g, S) = SumFunctionOnSet(f, S)
<1> DEFINE Good == {T \in SUBSET S : SumFunctionOnSet(g, T) = SumFunctionOnSet(f, T)}
<1>1. {} \in Good
  BY SumEmpty
<1>2. ASSUME NEW T \in SUBSET S, NEW x \in S \ T, T \in Good
      PROVE  T \union {x} \in Good
  <2>1. IsFiniteSet(T) /\ Ints(f, T \union {x}) /\ Ints(g, T \union {x})
    BY FS_Subset DEF Ints
  <2>2. /\ SumFunctionOnSet(f, T \union {x}) = f[x] + SumFunctionOnSet(f, T)
        /\ SumFunctionOnSet(g, T \union {x}) = g[x] + SumFunctionOnSet(g, T)
    BY <2>1, SumAdd
  <2> QED
    BY <1>2, <2>2
<1>3. S \in Good
  <2> HIDE DEF Good
  <2> QED
    BY <1>1, <1>2, SetInduction
<1> QED
  BY <1>3

\* Values that are at most k times others have a sum that is at most k times theirs.
LEMMA SumAtMost ==
  ASSUME NEW S, IsFiniteSet(S), NEW f, NEW g, NEW k \in Int, Ints(f, S), Ints(g, S),
         \A x \in S : g[x] <= k * f[x]
  PROVE  SumFunctionOnSet(g, S) <= k * SumFunctionOnSet(f, S)
<1> DEFINE Good == {T \in SUBSET S : SumFunctionOnSet(g, T) <= k * SumFunctionOnSet(f, T)}
<1>1. {} \in Good
  BY SumEmpty
<1>2. ASSUME NEW T \in SUBSET S, NEW x \in S \ T, T \in Good
      PROVE  T \union {x} \in Good
  <2> DEFINE F == SumFunctionOnSet(f, T)
             G == SumFunctionOnSet(g, T)
  <2>1. IsFiniteSet(T) /\ Ints(f, T \union {x}) /\ Ints(g, T \union {x})
    BY FS_Subset DEF Ints
  <2>2. /\ F \in Int /\ SumFunctionOnSet(f, T \union {x}) = f[x] + F
        /\ G \in Int /\ SumFunctionOnSet(g, T \union {x}) = g[x] + G
    BY <2>1, SumAdd
  <2>3. G <= k * F
    BY <1>2
  <2>4. f[x] \in Int /\ g[x] \in Int /\ g[x] <= k * f[x]
    BY DEF Ints
  <2> HIDE DEF F, G
  <2>5. g[x] + G <= k * (f[x] + F)
    <3> DEFINE a == f[x]
               b == g[x]
    <3>1. a \in Int /\ b \in Int /\ b <= k * a
      BY <2>4
    <3> HIDE DEF a, b
    <3>2. k * (a + F) = k * a + k * F /\ k * a \in Int /\ k * F \in Int
      BY <2>2, <3>1
    <3>3. b + G <= k * (a + F)
      BY <2>2, <2>3, <3>1, <3>2
    <3> QED
      BY <3>3 DEF a, b
  <2> QED
    BY <2>2, <2>5
<1>3. S \in Good
  <2> HIDE DEF Good
  <2> QED
    BY <1>1, <1>2, SetInduction
<1> QED
  BY <1>3

\* The sums over two sets that have nothing in common add up.
LEMMA SumUnion ==
  ASSUME NEW S, IsFiniteSet(S), NEW T, IsFiniteSet(T), S \intersect T = {}, NEW f, Ints(f, S \union T)
  PROVE  SumFunctionOnSet(f, S \union T) = SumFunctionOnSet(f, S) + SumFunctionOnSet(f, T)
<1> DEFINE Good == {U \in SUBSET T : SumFunctionOnSet(f, S \union U) = SumFunctionOnSet(f, S) + SumFunctionOnSet(f, U)}
<1>1. SumFunctionOnSet(f, S) \in Int
  BY SumRemove DEF Ints
<1>2. {} \in Good
  <2>1. S \union {} = S
    OBVIOUS
  <2> QED
    BY <1>1, <2>1, SumEmpty
<1>3. ASSUME NEW U \in SUBSET T, NEW x \in T \ U, U \in Good
      PROVE  U \union {x} \in Good
  <2>1. IsFiniteSet(U) /\ IsFiniteSet(S \union U)
    BY FS_Subset, FS_Union
  <2>2. Ints(f, U \union {x}) /\ Ints(f, (S \union U) \union {x}) /\ x \notin U /\ x \notin S \union U
        /\ S \union (U \union {x}) = (S \union U) \union {x} /\ f[x] \in Int
    BY DEF Ints
  <2>3. /\ SumFunctionOnSet(f, U) \in Int
        /\ SumFunctionOnSet(f, U \union {x}) = f[x] + SumFunctionOnSet(f, U)
        /\ SumFunctionOnSet(f, (S \union U) \union {x}) = f[x] + SumFunctionOnSet(f, S \union U)
    BY <2>1, <2>2, SumAdd
  <2>4. SumFunctionOnSet(f, S \union U) = SumFunctionOnSet(f, S) + SumFunctionOnSet(f, U)
    BY <1>3
  <2>5. SumFunctionOnSet(f, S \union (U \union {x})) = f[x] + (SumFunctionOnSet(f, S) + SumFunctionOnSet(f, U))
    BY <2>2, <2>3, <2>4
  <2>6. SumFunctionOnSet(f, S \union (U \union {x})) = SumFunctionOnSet(f, S) + SumFunctionOnSet(f, U \union {x})
    <3> DEFINE a == SumFunctionOnSet(f, S)
               b == SumFunctionOnSet(f, U)
               c == f[x]
    <3>1. a \in Int /\ b \in Int /\ c \in Int
      BY <1>1, <2>2, <2>3
    <3> HIDE DEF a, b, c
    <3>2. c + (a + b) = a + (c + b)
      BY <3>1
    <3> QED
      BY <2>3, <2>5, <3>2 DEF a, b, c
  <2> QED
    BY <2>6
<1>4. T \in Good
  <2> HIDE DEF Good
  <2> QED
    BY <1>2, <1>3, SetInduction
<1> QED
  BY <1>4

\* A stretch of one function that has the values of another.
LEMMA SumShift ==
  ASSUME NEW m \in Nat, NEW n \in Nat, NEW f, NEW g, Ints(g, 1 .. n),
         \A i \in 1 .. n : f[m + i] = g[i]
  PROVE  SumFunctionOnSet(f, m + 1 .. m + n) = SumFunctionOnSet(g, 1 .. n)
<1> DEFINE Same(k) == k <= n => SumFunctionOnSet(f, m + 1 .. m + k) = SumFunctionOnSet(g, 1 .. k)
           Good == {k \in Nat : Same(k)}
<1>1. Same(0)
  <2>1. m + 1 .. m + 0 = {} /\ 1 .. 0 = {}
    OBVIOUS
  <2> QED
    BY <2>1, SumEmpty
<1>2. ASSUME NEW k \in Nat, Same(k) PROVE Same(k + 1)
  <2> SUFFICES ASSUME k + 1 <= n
               PROVE  SumFunctionOnSet(f, m + 1 .. m + (k + 1)) = SumFunctionOnSet(g, 1 .. k + 1)
    OBVIOUS
  <2>1. /\ m + 1 .. m + (k + 1) = (m + 1 .. m + k) \union {m + (k + 1)} /\ m + (k + 1) \notin m + 1 .. m + k
        /\ 1 .. k + 1 = (1 .. k) \union {k + 1} /\ k + 1 \notin 1 .. k
        /\ k + 1 \in 1 .. n /\ k <= n
    OBVIOUS
  <2>2. IsFiniteSet(m + 1 .. m + k) /\ IsFiniteSet(1 .. k)
    BY FS_Interval
  <2>3. Ints(g, (1 .. k) \union {k + 1})
    BY <2>1 DEF Ints
  <2>4. Ints(f, (m + 1 .. m + k) \union {m + (k + 1)})
    <3> SUFFICES ASSUME NEW x \in m + 1 .. m + (k + 1) PROVE f[x] \in Int
      BY <2>1 DEF Ints
    <3>1. x - m \in 1 .. n /\ m + (x - m) = x
      OBVIOUS
    <3> QED
      BY <3>1 DEF Ints
  <2>5. /\ SumFunctionOnSet(g, (1 .. k) \union {k + 1}) = g[k + 1] + SumFunctionOnSet(g, 1 .. k)
        /\ SumFunctionOnSet(f, (m + 1 .. m + k) \union {m + (k + 1)})
             = f[m + (k + 1)] + SumFunctionOnSet(f, m + 1 .. m + k)
    BY <2>1, <2>2, <2>3, <2>4, SumAdd
  <2> QED
    BY <1>2, <2>1, <2>5
<1>3. n \in Good
  <2> HIDE DEF Same
  <2>1. 0 \in Good /\ \A k \in Nat : k \in Good => k + 1 \in Good
    BY <1>1, <1>2
  <2> HIDE DEF Good
  <2> QED
    BY <2>1, NumberInduction
<1> QED
  BY <1>3

(***************************************************************************)
(* Sums of sequences of numbers                                            *)
(***************************************************************************)

\* A sequence of integers is summed over its positions.
LEMMA SumOfSequence ==
  ASSUME NEW s \in Seq(Int)
  PROVE  /\ IsFiniteSet(DOMAIN s) /\ DOMAIN s = 1 .. Len(s) /\ Len(s) \in Nat /\ Ints(s, DOMAIN s)
         /\ SumFunction(s) = SumFunctionOnSet(s, 1 .. Len(s))
         /\ SumFunction(s) \in Int
<1>1. DOMAIN s = 1 .. Len(s) /\ Len(s) \in Nat /\ Ints(s, DOMAIN s)
  BY DEF Ints
<1>2. IsFiniteSet(DOMAIN s)
  BY <1>1, FS_Interval
<1> QED
  BY <1>1, <1>2, SumRemove DEF SumFunction

\* The sum of the empty sequence.
LEMMA SumOfNone == SumFunction(<<>>) = 0
  <1>1. DOMAIN <<>> = {}
    OBVIOUS
  <1> QED
    BY <1>1, SumEmpty DEF SumFunction

\* What a concatenation has at each position.
LEMMA ConcatFacts ==
  ASSUME NEW s \in Seq(Int), NEW t \in Seq(Int)
  PROVE  /\ s \o t \in Seq(Int) /\ Len(s) \in Nat /\ Len(t) \in Nat
         /\ Len(s \o t) = Len(s) + Len(t) /\ DOMAIN (s \o t) = 1 .. Len(s) + Len(t)
         /\ \A i \in 1 .. Len(s) : (s \o t)[i] = s[i]
         /\ \A i \in 1 .. Len(t) : (s \o t)[Len(s) + i] = t[i]
OBVIOUS

\* The sum of a concatenation.
LEMMA SumOfBoth ==
  ASSUME NEW s \in Seq(Int), NEW t \in Seq(Int)
  PROVE  SumFunction(s \o t) = SumFunction(s) + SumFunction(t)
<1> DEFINE both == s \o t
           m == Len(s)
           n == Len(t)
<1>1. /\ both \in Seq(Int) /\ m \in Nat /\ n \in Nat /\ Len(both) = m + n
      /\ \A i \in 1 .. m : both[i] = s[i]
      /\ \A i \in 1 .. n : both[m + i] = t[i]
  OBVIOUS
<1>2. /\ SumFunction(both) = SumFunctionOnSet(both, 1 .. m + n) /\ Ints(both, 1 .. m + n)
      /\ SumFunction(s) = SumFunctionOnSet(s, 1 .. m) /\ Ints(s, 1 .. m)
      /\ SumFunction(t) = SumFunctionOnSet(t, 1 .. n) /\ Ints(t, 1 .. n)
  <2>1. DOMAIN both = 1 .. m + n /\ DOMAIN s = 1 .. m /\ DOMAIN t = 1 .. n
    BY <1>1, SumOfSequence
  <2> HIDE DEF both, m, n
  <2> QED
    BY <2>1, <1>1, SumOfSequence DEF m, n
<1> HIDE DEF both, m, n
<1> DEFINE First == 1 .. m
           Second == m + 1 .. m + n
<1>3. 1 .. m + n = First \union Second /\ First \intersect Second = {} /\ m \in Int /\ m + 1 \in Int /\ m + n \in Int
  BY <1>1
<1>7. IsFiniteSet(First) /\ IsFiniteSet(Second)
  BY <1>3, FS_Interval
<1>4. SumFunctionOnSet(both, 1 .. m + n) = SumFunctionOnSet(both, First) + SumFunctionOnSet(both, Second)
  <2> HIDE DEF First, Second
  <2> QED
    BY <1>2, <1>3, <1>7, SumUnion
<1>5. SumFunctionOnSet(both, 1 .. m) = SumFunctionOnSet(s, 1 .. m)
  BY <1>1, <1>2, <1>7, SumSame
<1>6. SumFunctionOnSet(both, m + 1 .. m + n) = SumFunctionOnSet(t, 1 .. n)
  BY <1>1, <1>2, SumShift
<1> QED
  BY <1>2, <1>4, <1>5, <1>6 DEF both

\* The sum of one number.
LEMMA SumOfOne ==
  ASSUME NEW x \in Int
  PROVE  SumFunction(<<x>>) = x
<1>1. <<x>> \in Seq(Int) /\ DOMAIN <<x>> = {} \union {1} /\ <<x>>[1] = x
  OBVIOUS
<1>2. SumFunctionOnSet(<<x>>, {} \union {1}) = <<x>>[1] + SumFunctionOnSet(<<x>>, {})
  <2>1. Ints(<<x>>, {} \union {1})
    BY <1>1 DEF Ints
  <2> QED
    BY <2>1, FS_EmptySet, SumAdd
<1> QED
  BY <1>1, <1>2, SumEmpty DEF SumFunction

\* A sum after one number of the sequence has changed.
LEMMA SumOfChanged ==
  ASSUME NEW s \in Seq(Int), NEW k \in 1 .. Len(s), NEW t \in Seq(Int), Len(t) = Len(s),
         \A i \in 1 .. Len(s) : i # k => t[i] = s[i]
  PROVE  SumFunction(t) = (SumFunction(s) - s[k]) + t[k]
<1> DEFINE Rest == (1 .. Len(s)) \ {k}
<1>1. /\ IsFiniteSet(1 .. Len(s)) /\ Ints(s, 1 .. Len(s)) /\ Ints(t, 1 .. Len(s))
      /\ SumFunction(s) = SumFunctionOnSet(s, 1 .. Len(s))
      /\ SumFunction(t) = SumFunctionOnSet(t, 1 .. Len(s))
  BY SumOfSequence
<1>2. /\ SumFunctionOnSet(s, 1 .. Len(s)) = s[k] + SumFunctionOnSet(s, Rest)
      /\ SumFunctionOnSet(t, 1 .. Len(s)) = t[k] + SumFunctionOnSet(t, Rest)
  BY <1>1, SumRemove
<1>3. IsFiniteSet(Rest) /\ Ints(s, Rest) /\ \A i \in Rest : t[i] = s[i]
  BY <1>1, FS_Subset DEF Ints
<1>4. SumFunctionOnSet(t, Rest) = SumFunctionOnSet(s, Rest) /\ SumFunctionOnSet(s, Rest) \in Int
  BY <1>3, SumSame, SumRemove
<1>5. s[k] \in Int /\ t[k] \in Int
  BY <1>1 DEF Ints
<1> HIDE DEF Rest
<1> QED
  BY <1>1, <1>2, <1>4, <1>5

(***************************************************************************)
(* The least and the greatest of a set, and functions defined by recursion *)
(***************************************************************************)

\* A set of numbers has a least one.
LEMMA LeastExists ==
  ASSUME NEW S \in SUBSET Nat, S # {}
  PROVE  LET least == CHOOSE x \in S : \A y \in S : x <= y
         IN  least \in S /\ \A y \in S : least <= y
<1> DEFINE Good == {k \in Nat : (\E x \in S : x <= k) => \E x \in S : \A y \in S : x <= y}
<1>1. 0 \in Good
  OBVIOUS
<1>2. ASSUME NEW k \in Nat, k \in Good PROVE k + 1 \in Good
  <2> SUFFICES ASSUME NEW x \in S, x <= k + 1 PROVE \E e \in S : \A y \in S : e <= y
    OBVIOUS
  <2>1. CASE \E e \in S : e <= k
    BY <1>2, <2>1
  <2>2. CASE ~ \E e \in S : e <= k
    <3>1. \A y \in S : x <= y
      BY <2>2
    <3> QED
      BY <3>1
  <2> QED
    BY <2>1, <2>2
<1>3. PICK x \in S : TRUE
  OBVIOUS
<1>4. x \in Good
  <2> HIDE DEF Good
  <2> QED
    BY <1>1, <1>2, NumberInduction
<1>5. \E e \in S : \A y \in S : e <= y
  BY <1>3, <1>4
<1> QED
  BY <1>5

\* A finite set of numbers has a greatest one.
LEMMA GreatestExists ==
  ASSUME NEW S \in SUBSET Nat, NEW n \in Nat, \A x \in S : x <= n, S # {}
  PROVE  \E x \in S : \A y \in S : y <= x
<1> DEFINE Good == {k \in Nat : (\E x \in S : x <= k) => \E x \in S : x <= k /\ \A y \in S : y <= k => y <= x}
<1>1. 0 \in Good
  OBVIOUS
<1>2. ASSUME NEW k \in Nat, k \in Good PROVE k + 1 \in Good
  <2>1. CASE k + 1 \in S
    BY <2>1
  <2>2. CASE k + 1 \notin S
    <3>1. \A y \in S : y <= k + 1 => y <= k
      BY <2>2
    <3> QED
      BY <1>2, <3>1
  <2> QED
    BY <2>1, <2>2
<1>3. n \in Good
  <2> HIDE DEF Good
  <2> QED
    BY <1>1, <1>2, NumberInduction
<1> QED
  BY <1>3

\* What is defined from each value to the next exists, as far as the values stay in a set.
LEMMA Recursion ==
  ASSUME NEW S, NEW base \in S, NEW N \in Nat, NEW step \in [1 .. N -> [S -> S]]
  PROVE  \E f \in [0 .. N -> S] : f[0] = base /\ \A n \in 1 .. N : f[n] = step[n][f[n - 1]]
<1> DEFINE Upto(m) == {f \in [0 .. m -> S] : f[0] = base /\ \A n \in 1 .. m : f[n] = step[n][f[n - 1]]}
           Good == {m \in Nat : m <= N => Upto(m) # {}}
<1>1. 0 \in Good
  <2>1. [n \in 0 .. 0 |-> base] \in Upto(0)
    OBVIOUS
  <2> QED
    BY <2>1
<1>2. ASSUME NEW m \in Nat, m \in Good PROVE m + 1 \in Good
  <2> SUFFICES ASSUME m + 1 <= N PROVE Upto(m + 1) # {}
    OBVIOUS
  <2>1. PICK f \in Upto(m) : TRUE
    BY <1>2
  <2> DEFINE g == [n \in 0 .. m + 1 |-> IF n = m + 1 THEN step[m + 1][f[m]] ELSE f[n]]
  <2>2. f \in [0 .. m -> S] /\ f[0] = base /\ \A n \in 1 .. m : f[n] = step[n][f[n - 1]]
    BY <2>1
  <2>3. step[m + 1] \in [S -> S] /\ f[m] \in S
    BY <2>2
  <2>4. \A n \in 0 .. m + 1 : g[n] \in S
    BY <2>2, <2>3
  <2>5. g \in [0 .. m + 1 -> S] /\ g[0] = base
    BY <2>2, <2>4
  <2>6. ASSUME NEW n \in 1 .. m + 1 PROVE g[n] = step[n][g[n - 1]]
    <3>1. CASE n = m + 1
      BY <3>1
    <3>2. CASE n # m + 1
      <4>1. n \in 1 .. m /\ n - 1 \in 0 .. m /\ n - 1 # m + 1
        BY <3>2
      <4> QED
        BY <2>2, <3>2, <4>1
    <3> QED
      BY <3>1, <3>2
  <2>7. g \in Upto(m + 1)
    BY <2>5, <2>6
  <2> QED
    BY <2>7
<1>3. N \in Good
  <2> HIDE DEF Good
  <2> QED
    BY <1>1, <1>2, NumberInduction
<1> QED
  BY <1>3

\* G[n] looks at what it is given below n only.
FromBelow(S, N, G) ==
  /\ G \in [0 .. N -> [[0 .. N -> S] -> S]]
  /\ \A n \in 0 .. N : \A g, h \in [0 .. N -> S] :
       (\A m \in 0 .. n - 1 : g[m] = h[m]) => G[n][g] = G[n][h]

\* Such a function exists, as far as its values stay in a set.
LEMMA StrongRecursion ==
  ASSUME NEW S, NEW base \in S, NEW N \in Nat, NEW G, FromBelow(S, N, G)
  PROVE  \E f \in [0 .. N -> S] : \A n \in 0 .. N : f[n] = G[n][f]
<1> USE DEF FromBelow
<1> DEFINE Right(f, m) == \A n \in 0 .. N : n <= m => f[n] = G[n][f]
           Good == {m \in Nat : m <= N => \E f \in [0 .. N -> S] : Right(f, m)}
<1>1. ASSUME NEW m \in 0 .. N, NEW f \in [0 .. N -> S], \A n \in 0 .. m - 1 : f[n] = G[n][f]
      PROVE  \E h \in [0 .. N -> S] : Right(h, m)
  <2> DEFINE h == [f EXCEPT ![m] = G[m][f]]
  <2>1. h \in [0 .. N -> S]
    OBVIOUS
  <2>2. ASSUME NEW n \in 0 .. N, n <= m PROVE h[n] = G[n][h]
    <3>1. \A k \in 0 .. n - 1 : f[k] = h[k]
      BY <2>2
    <3>2. G[n][f] = G[n][h]
      <4> HIDE DEF h
      <4> QED
        BY <2>1, <3>1
    <3>3. h[n] = G[n][f]
      BY <1>1, <2>2
    <3> QED
      BY <3>2, <3>3
  <2> HIDE DEF h
  <2> QED
    BY <2>1, <2>2
<1>2. 0 \in Good
  <2> DEFINE f == [n \in 0 .. N |-> base]
  <2>1. f \in [0 .. N -> S] /\ \A n \in 0 .. 0 - 1 : f[n] = G[n][f]
    OBVIOUS
  <2> HIDE DEF f, Right
  <2>2. \E h \in [0 .. N -> S] : Right(h, 0)
    BY <1>1, <2>1
  <2> QED
    BY <2>2
<1>3. ASSUME NEW m \in Nat, m \in Good PROVE m + 1 \in Good
  <2> SUFFICES ASSUME m + 1 <= N PROVE \E h \in [0 .. N -> S] : Right(h, m + 1)
    OBVIOUS
  <2>1. PICK f \in [0 .. N -> S] : Right(f, m)
    BY <1>3
  <2>2. m + 1 \in 0 .. N /\ \A n \in 0 .. (m + 1) - 1 : f[n] = G[n][f]
    BY <2>1
  <2> HIDE DEF Right
  <2> QED
    BY <1>1, <2>2
<1>4. N \in Good
  <2> HIDE DEF Good
  <2> QED
    BY <1>2, <1>3, NumberInduction
<1> QED
  BY <1>4

\* step, n times from base.
Repeated(base, step, n) == CHOOSE f : f = [k \in 0 .. n |-> IF k = 0 THEN base ELSE step[f[k - 1]]]

\* What each step keeps, all of them keep.
LEMMA RepeatedKeeps ==
  ASSUME NEW S, NEW P \in SUBSET S, NEW base \in P, NEW N \in Nat, NEW step \in [S -> S],
         \A x \in P : step[x] \in P
  PROVE  Repeated(base, step, N)[N] \in P
<1> DEFINE steps == [k \in 1 .. N |-> step]
           Eq(f) == f = [k \in 0 .. N |-> IF k = 0 THEN base ELSE step[f[k - 1]]]
           r == Repeated(base, step, N)
           Good == {k \in Nat : k <= N => r[k] \in P}
<1>1. steps \in [1 .. N -> [S -> S]] /\ base \in S
  OBVIOUS
<1>2. PICK f \in [0 .. N -> S] : f[0] = base /\ \A k \in 1 .. N : f[k] = steps[k][f[k - 1]]
  <2>1. N \in Nat
    OBVIOUS
  <2> HIDE DEF steps
  <2> QED
    BY ONLY <1>1, <2>1, Recursion
<1>3. \A k \in 0 .. N : f[k] = IF k = 0 THEN base ELSE step[f[k - 1]]
  <2> TAKE k \in 0 .. N
  <2>1. CASE k = 0
    BY <1>2, <2>1
  <2>2. CASE k # 0
    <3>1. k \in 1 .. N
      BY <2>2
    <3> QED
      BY <1>2, <2>2, <3>1
  <2> QED
    BY <2>1, <2>2
<1>4. Eq(f)
  BY <1>2, <1>3
<1>5. Eq(r)
  <2>1. r = CHOOSE x : Eq(x)
    BY DEF Repeated
  <2> HIDE DEF Eq, r
  <2> QED
    BY <1>4, <2>1
<1> HIDE DEF r
<1>6. r[0] = base /\ \A k \in 0 .. N : k + 1 <= N => r[k + 1] = step[r[k]]
  <2>1. 0 \in 0 .. N
    OBVIOUS
  <2>2. r[0] = base
    BY <1>5, <2>1
  <2>3. ASSUME NEW k \in 0 .. N, k + 1 <= N PROVE r[k + 1] = step[r[k]]
    <3>1. k + 1 \in 0 .. N /\ k + 1 # 0 /\ (k + 1) - 1 = k
      BY <2>3
    <3> QED
      BY <1>5, <3>1
  <2> QED
    BY <2>2, <2>3
<1>7. 0 \in Good
  BY <1>6
<1>8. ASSUME NEW k \in Nat, k \in Good PROVE k + 1 \in Good
  <2> SUFFICES ASSUME k + 1 <= N PROVE r[k + 1] \in P
    OBVIOUS
  <2>1. k \in 0 .. N /\ r[k] \in P
    BY <1>8
  <2> QED
    BY <1>6, <2>1
<1>9. N \in Good
  <2> HIDE DEF Good
  <2> QED
    BY <1>7, <1>8, NumberInduction
<1> QED
  BY <1>9 DEF r
=============================================================================
