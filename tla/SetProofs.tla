----------------------------- MODULE SetProofs -----------------------------
(***************************************************************************)
(* Facts about finite sets that the proofs of several parts need: least    *)
(* and greatest elements, numbering the elements of an ordered set, and    *)
(* folding a function over a set.  An induction is over a set of subsets   *)
(* (SubsetsInduct) or of numbers (LeastOfSet): the set of those for which  *)
(* the claim holds takes the place of a predicate.                         *)
(***************************************************************************)
EXTENDS Integers, FiniteSets, FiniteSetsExt, Functions, FiniteSetTheorems, WellFoundedInduction,
        TLAPS

-----------------------------------------------------------------------------
(* Order in sets of numbers, and numberings. *)

\* A set of naturals that is not empty has a least element, which Min returns.
LEMMA LeastOfSet ==
  ASSUME NEW S, S \subseteq Nat, S # {}
  PROVE  Min(S) \in S /\ \A y \in S : Min(S) <= y
  <1>1. \E x \in S : \A y \in S : ~ (<<y, x>> \in OpToRel(<, Nat))
    BY NatLessThanWellFounded, WFMin
  <1>2. \E x \in S : \A y \in S : ~ (<<y, x>> \in Nat \X Nat /\ <<y, x>>[1] < <<y, x>>[2])
    BY <1>1, Zenon DEF OpToRel
  <1>3. PICK x \in S : \A y \in S : ~ (<<y, x>> \in Nat \X Nat /\ <<y, x>>[1] < <<y, x>>[2])
    BY <1>2
  <1>4. ASSUME NEW y \in S PROVE x <= y
    <2>1. <<y, x>> \in Nat \X Nat /\ <<y, x>>[1] = y /\ <<y, x>>[2] = x
      OBVIOUS
    <2>2. ~(y < x)
      BY <1>3, <2>1
    <2> QED BY <2>2
  <1> QED BY <1>4 DEF Min

\* A set of naturals below a bound that is not empty has a greatest element.
LEMMA GreatestOfSet ==
  ASSUME NEW n \in Nat, NEW S, S \subseteq 0..n, S # {}
  PROVE  Max(S) \in S /\ \A y \in S : y <= Max(S)
  <1> DEFINE below == {n - x : x \in S}
  <1>0. \A x \in S : x \in Nat /\ n - x \in Nat
    OBVIOUS
  <1>1. below \subseteq Nat /\ below # {}
    <2>1. below \subseteq Nat
      BY <1>0
    <2>2. PICK x \in S : TRUE
      OBVIOUS
    <2>3. n - x \in below
      BY <2>2
    <2> QED BY <2>1, <2>3
  <1>2. Min(below) \in below /\ \A y \in below : Min(below) <= y
    BY <1>1, LeastOfSet
  <1>3. PICK x \in S : Min(below) = n - x
    BY <1>2
  <1>4. ASSUME NEW y \in S PROVE x >= y
    <2>1. n - y \in below
      OBVIOUS
    <2>2. n - x <= n - y
      BY <1>2, <1>3, <2>1
    <2> QED BY <1>0, <2>2
  <1>5. Max(S) \in S /\ \A y \in S : Max(S) >= y
    BY <1>4 DEF Max
  <1> QED BY <1>5

\* When below maps every element of a finite set to the elements up to it, in a total
\* order, counting them is a numbering: distinct elements have distinct numbers, and
\* every number up to the size of the set is some element's.
LEMMA Numbering ==
  ASSUME NEW S, IsFiniteSet(S), NEW below \in [S -> SUBSET S],
         \A x \in S : x \in below[x],
         \A x, y \in S : x \in below[y] \/ y \in below[x],
         \A x, y \in S : x \in below[y] /\ y \in below[x] => x = y,
         \A x, y \in S : x \in below[y] => below[x] \subseteq below[y]
  PROVE  /\ \A x \in S : Cardinality(below[x]) \in 1..Cardinality(S)
         /\ \A x, y \in S : Cardinality(below[x]) = Cardinality(below[y]) => x = y
         /\ \A i \in 1..Cardinality(S) : \E x \in S : Cardinality(below[x]) = i
  <1> DEFINE n == Cardinality(S)
             f == [x \in S |-> Cardinality(below[x])]
  <1>0. n \in Nat
    BY FS_CardinalityType
  <1>1. ASSUME NEW x \in S
        PROVE  IsFiniteSet(below[x]) /\ Cardinality(below[x]) \in 1..n
    <2>1. below[x] \in SUBSET S
      OBVIOUS
    <2>2. IsFiniteSet(below[x]) /\ Cardinality(below[x]) <= n
      BY <2>1, FS_Subset
    <2>3. Cardinality(below[x]) \in Nat /\ Cardinality(below[x]) # 0
      BY <2>2, FS_CardinalityType, FS_EmptySet
    <2> QED BY <1>0, <2>2, <2>3
  <1>2. ASSUME NEW x \in S, NEW y \in S, Cardinality(below[x]) = Cardinality(below[y]),
               x \in below[y]
        PROVE  x = y
    <2>1. below[x] \in SUBSET below[y]
      BY <1>2
    <2>2. below[y] = below[x]
      BY <1>1, <1>2, <2>1, FS_Subset
    <2> QED BY <1>2, <2>2
  <1>3. \A x, y \in S : Cardinality(below[x]) = Cardinality(below[y]) => x = y
    BY <1>2
  <1>4. f \in Injection(S, 1..n)
    <2>1. f \in [S -> 1..n]
      BY <1>1
    <2>2. \A x, y \in S : f[x] = f[y] => x = y
      BY <1>3
    <2> HIDE DEF f
    <2> QED BY <2>1, <2>2, Zenon DEF Injection, IsInjective
  <1>5. IsFiniteSet(1..n) /\ Cardinality(1..n) = n
    BY <1>0, FS_Interval
  <1>6. f \in Surjection(S, 1..n)
    BY <1>4, <1>5, FS_Injection
  <1>7. \A i \in 1..n : \E x \in S : f[x] = i
    <2> HIDE DEF f
    <2> QED BY <1>6 DEF Surjection
  <1> QED BY <1>1, <1>3, <1>7

\* A finite set of integers that is not empty has a greatest element, which Max returns.
LEMMA GreatestOfFinite ==
  ASSUME NEW S, IsFiniteSet(S), S \subseteq Int, S # {}
  PROVE  Max(S) \in S /\ \A y \in S : y <= Max(S)
  <1> DEFINE below == [x \in S |-> {y \in S : y <= x}]
  <1>0. \A x, y, z \in S : (x <= y \/ y <= x) /\ (x <= y /\ y <= x => x = y) /\ x <= x
                           /\ (x <= y /\ y <= z => x <= z)
    OBVIOUS
  <1>1. below \in [S -> SUBSET S] /\ \A x \in S : below[x] = {y \in S : y <= x}
    OBVIOUS
  <1> HIDE DEF below
  <1>a. \A x \in S : x \in below[x]
    BY <1>0, <1>1
  <1>b. \A x, y \in S : x \in below[y] \/ y \in below[x]
    BY <1>0, <1>1
  <1>c. \A x, y \in S : x \in below[y] /\ y \in below[x] => x = y
    BY <1>0, <1>1
  <1>d. \A x, y \in S : x \in below[y] => below[x] \subseteq below[y]
    BY <1>0, <1>1
  <1>e. below \in [S -> SUBSET S] /\ IsFiniteSet(S)
    BY <1>1
  <1>3. \A i \in 1..Cardinality(S) : \E x \in S : Cardinality(below[x]) = i
    <2> DEFINE T == S
    <2>1. /\ below \in [T -> SUBSET T] /\ IsFiniteSet(T)
          /\ \A x \in T : x \in below[x]
          /\ \A x, y \in T : x \in below[y] \/ y \in below[x]
          /\ \A x, y \in T : x \in below[y] /\ y \in below[x] => x = y
          /\ \A x, y \in T : x \in below[y] => below[x] \subseteq below[y]
      BY <1>a, <1>b, <1>c, <1>d, <1>e
    <2> HIDE DEF T
    <2>2. \A i \in 1..Cardinality(T) : \E x \in T : Cardinality(below[x]) = i
      BY <2>1, Numbering
    <2> QED BY <2>2 DEF T
  <1>4. Cardinality(S) \in 1..Cardinality(S)
    BY FS_CardinalityType, FS_EmptySet
  <1>5. PICK x \in S : Cardinality(below[x]) = Cardinality(S)
    BY <1>3, <1>4
  <1>6. below[x] \in SUBSET S
    BY <1>1
  <1>7. below[x] = S
    BY <1>5, <1>6, FS_Subset
  <1>8. \A y \in S : x >= y
    BY <1>1, <1>7
  <1>9. Max(S) \in S /\ \A y \in S : Max(S) >= y
    BY <1>8 DEF Max
  <1> QED BY <1>9

\* An image of a finite set is finite.
LEMMA ImageFinite ==
  ASSUME NEW S, IsFiniteSet(S), NEW f, DOMAIN f = S
  PROVE  IsFiniteSet({f[x] : x \in S})
  <1> DEFINE T == {f[x] : x \in S}
             g == [x \in S |-> f[x]]
  <1>1. g \in [S -> T] /\ \A y \in T : \E x \in S : g[x] = y
    OBVIOUS
  <1> HIDE DEF T, g
  <1>2. g \in Surjection(S, T)
    BY <1>1, Zenon DEF Surjection
  <1>3. IsFiniteSet(T)
    BY <1>2, FS_Surjection
  <1> QED BY <1>3 DEF T

\* A finite set has two elements, or more, exactly when its size says so.
LEMMA TwoElements ==
  ASSUME NEW S, IsFiniteSet(S)
  PROVE  Cardinality(S) >= 2 <=> \E x, y \in S : x # y
  <1>0. Cardinality(S) \in Nat
    BY FS_CardinalityType
  <1>1. ASSUME NEW x \in S, NEW y \in S, x # y PROVE Cardinality(S) >= 2
    <2>1. IsFiniteSet(S \ {x}) /\ Cardinality(S \ {x}) = Cardinality(S) - 1
      BY FS_RemoveElement
    <2>2. S \ {x} # {}
      BY <1>1
    <2>3. Cardinality(S \ {x}) # 0 /\ Cardinality(S \ {x}) \in Nat
      BY <2>1, <2>2, FS_EmptySet, FS_CardinalityType
    <2> QED BY <1>0, <2>1, <2>3
  <1>2. ASSUME Cardinality(S) >= 2 PROVE \E x, y \in S : x # y
    <2>1. S # {}
      BY <1>2, FS_EmptySet
    <2>2. PICK x \in S : TRUE
      BY <2>1
    <2>3. IsFiniteSet(S \ {x}) /\ Cardinality(S \ {x}) = Cardinality(S) - 1
      BY FS_RemoveElement
    <2>4. S \ {x} # {}
      BY <1>0, <1>2, <2>3, FS_EmptySet
    <2>5. PICK y \in S \ {x} : TRUE
      BY <2>4
    <2> QED BY <2>5
  <1> QED BY <1>1, <1>2

\* The greatest elements of two sets agree when the one is part of the other and holds
\* something as great for each of its elements.
LEMMA MaxOfPart ==
  ASSUME NEW m \in Nat, NEW A, NEW B, A \subseteq B, B \subseteq 0..m, A # {},
         \A x \in B : \E y \in A : x <= y
  PROVE  Max(A) = Max(B)
  <1>1. Max(A) \in A /\ \A y \in A : y <= Max(A)
    BY GreatestOfSet
  <1>2. Max(B) \in B /\ \A y \in B : y <= Max(B)
    BY GreatestOfSet
  <1>3. PICK y \in A : Max(B) <= y
    BY <1>2
  <1>4. Max(A) <= Max(B) /\ y <= Max(A)
    BY <1>1, <1>2
  <1> DEFINE a == Max(A)
             b == Max(B)
  <1>5. a \in A /\ b \in B /\ y <= a /\ a <= b /\ b <= y
    BY <1>1, <1>2, <1>3, <1>4
  <1> HIDE DEF a, b
  <1>6. a \in 0..m /\ b \in 0..m /\ y \in 0..m
    BY <1>5
  <1>7. a = b
    BY <1>5, <1>6
  <1> QED BY <1>7 DEF a, b

-----------------------------------------------------------------------------
(* Folds over finite sets. *)

\* Some element of a set.
Some(s) == CHOOSE x \in s : TRUE

\* What is taken from a finite set leaves one element less.
LEMMA SomeLess ==
  ASSUME NEW S, IsFiniteSet(S), NEW s \in SUBSET S, s # {}
  PROVE  /\ Some(s) \in s /\ s \ {Some(s)} \in SUBSET S
         /\ Cardinality(s) \in Nat /\ Cardinality(s \ {Some(s)}) \in Nat
         /\ Cardinality(s \ {Some(s)}) = Cardinality(s) - 1
  <1>1. IsFiniteSet(s)
    BY FS_Subset
  <1>2. Some(s) \in s
    BY DEF Some
  <1>3. Cardinality(s \ {Some(s)}) = Cardinality(s) - 1
    BY <1>1, <1>2, FS_RemoveElement
  <1>4. IsFiniteSet(s \ {Some(s)})
    BY <1>1, FS_RemoveElement, <1>2
  <1> QED BY <1>1, <1>2, <1>3, <1>4, FS_CardinalityType

\* What holds of the empty set, and of a set when of the set without one element,
\* holds of every finite set.
LEMMA SubsetsInduct ==
  ASSUME NEW S, IsFiniteSet(S), NEW P, {} \in P,
         \A s \in SUBSET S : s # {} /\ s \ {Some(s)} \in P => s \in P
  PROVE  SUBSET S \subseteq P
  <1> DEFINE bad == {s \in SUBSET S : s \notin P}
             sizes == {Cardinality(s) : s \in bad}
  <1>1. SUFFICES ASSUME bad # {} PROVE FALSE
    OBVIOUS
  <1>2. sizes \subseteq Nat /\ sizes # {}
    BY <1>1, FS_Subset, FS_CardinalityType
  <1>3. PICK n \in sizes : \A k \in sizes : n <= k
    <2> HIDE DEF sizes
    <2> QED BY <1>2, LeastOfSet
  <1>4. PICK s \in bad : n = Cardinality(s)
    OBVIOUS
  <1>5. s # {}
    BY <1>4
  <1>6. /\ s \ {Some(s)} \in SUBSET S /\ Cardinality(s) \in Nat
        /\ Cardinality(s \ {Some(s)}) = Cardinality(s) - 1
    BY <1>4, <1>5, SomeLess
  <1>7. s \ {Some(s)} \notin bad
    BY <1>3, <1>4, <1>6
  <1> QED BY <1>4, <1>5, <1>6, <1>7

\* g holds what F folds to over the subsets of S, element after element: op is the
\* operation and e the value for the empty set.
Folds(g, F, op, e, S) ==
  g = [s \in SUBSET S |-> IF s = {} THEN e ELSE op[F[Some(s)]][g[s \ {Some(s)}]]]

\* There is such a function: it is built up by the size of the subsets.
LEMMA FoldsExist ==
  ASSUME NEW S, IsFiniteSet(S), NEW V, NEW e \in V, NEW op \in [V -> [V -> V]], NEW F \in [S -> V]
  PROVE  \E g \in [SUBSET S -> V] : Folds(g, F, op, e, S)
  <1> DEFINE Body(g, s) == IF s = {} THEN e ELSE op[F[Some(s)]][g[s \ {Some(s)}]]
             good(n) == \E g \in [SUBSET S -> V] :
                          \A s \in SUBSET S : Cardinality(s) < n => g[s] = Body(g, s)
             bad == {n \in Nat : ~good(n)}
  <1>0. \A s \in SUBSET S : Cardinality(s) \in Nat
    BY FS_Subset, FS_CardinalityType
  <1>1. good(0)
    <2>1. [s \in SUBSET S |-> e] \in [SUBSET S -> V]
      OBVIOUS
    <2>2. \A s \in SUBSET S : ~(Cardinality(s) < 0)
      BY <1>0
    <2> QED BY <2>1, <2>2
  <1>2. ASSUME NEW n \in Nat, good(n) PROVE good(n + 1)
    <2>1. PICK g \in [SUBSET S -> V] : \A s \in SUBSET S : Cardinality(s) < n => g[s] = Body(g, s)
      BY <1>2
    <2> DEFINE h == [s \in SUBSET S |-> Body(g, s)]
    <2>2. ASSUME NEW s \in SUBSET S PROVE Body(g, s) \in V
      <3>1. CASE s = {}
        BY <3>1
      <3>2. CASE s # {}
        <4> DEFINE a == Some(s)
        <4>0. a \in s
          BY <3>2 DEF Some
        <4> HIDE DEF a
        <4>1. F[a] \in V /\ g[s \ {a}] \in V
          <5>1. a \in S /\ s \ {a} \in SUBSET S
            BY <4>0
          <5> QED BY <2>1, <5>1
        <4>2. op[F[a]][g[s \ {a}]] \in V
          BY <4>1
        <4> QED BY <3>2, <4>2 DEF a
      <3> QED BY <3>1, <3>2
    <2>3. h \in [SUBSET S -> V]
      BY <2>2
    <2>4. ASSUME NEW s \in SUBSET S, Cardinality(s) < n + 1 PROVE h[s] = Body(h, s)
      <3>1. CASE s = {}
        BY <3>1
      <3>2. CASE s # {}
        <4>0. /\ s \ {Some(s)} \in SUBSET S /\ Cardinality(s) \in Nat
              /\ Cardinality(s \ {Some(s)}) = Cardinality(s) - 1
          BY <3>2, SomeLess
        <4>1. Cardinality(s \ {Some(s)}) < n
          BY <2>4, <4>0
        <4>2. h[s \ {Some(s)}] = g[s \ {Some(s)}]
          BY <2>1, <4>0, <4>1
        <4> QED BY <3>2, <4>2
      <3> QED BY <3>1, <3>2
    <2> HIDE DEF h
    <2> QED BY <2>3, <2>4
  <1>3. bad = {}
    <2>1. SUFFICES ASSUME bad # {} PROVE FALSE
      OBVIOUS
    <2>2. PICK n \in bad : \A k \in bad : n <= k
      <3>1. bad \subseteq Nat
        OBVIOUS
      <3> HIDE DEF bad
      <3> QED BY <2>1, <3>1, LeastOfSet
    <2>a. n \in Nat /\ ~good(n)
      BY <2>2
    <2> HIDE DEF good
    <2>3. n # 0 /\ n \in Nat /\ ~good(n)
      BY <1>1, <2>a
    <2>4. n - 1 \in Nat /\ n - 1 \notin bad
      BY <2>2, <2>3
    <2>5. good(n - 1)
      BY <2>4
    <2>6. good((n - 1) + 1)
      BY <1>2, <2>4, <2>5
    <2>7. (n - 1) + 1 = n
      BY <2>3
    <2> QED BY <2>3, <2>6, <2>7
  <1>4. Cardinality(S) + 1 \in Nat
    BY <1>0
  <1>5. PICK g \in [SUBSET S -> V] :
          \A s \in SUBSET S : Cardinality(s) < Cardinality(S) + 1 => g[s] = Body(g, s)
    BY <1>3, <1>4
  <1>6. \A s \in SUBSET S : Cardinality(s) < Cardinality(S) + 1
    BY <1>0, FS_Subset
  <1>7. \A s \in SUBSET S : g[s] = Body(g, s)
    BY <1>5, <1>6
  <1> QED BY <1>7 DEF Folds

\* g holds the partial sums of F over the subsets of S.
Adds(g, F, S) ==
  g = [s \in SUBSET S |-> IF s = {} THEN 0 ELSE F[Some(s)] + g[s \ {Some(s)}]]

\* The sum of a function is the sum over its domain of these.
LEMMA SumIs ==
  ASSUME NEW S, IsFiniteSet(S), NEW F \in [S -> Int]
  PROVE  \E g \in [SUBSET S -> Int] : Adds(g, F, S) /\ SumFunction(F) = g[S]
  <1> DEFINE plus == [x \in Int |-> [y \in Int |-> x + y]]
  <1>0. plus \in [Int -> [Int -> Int]] /\ \A x, y \in Int : plus[x][y] = x + y
    OBVIOUS
  <1> HIDE DEF plus
  <1>a. PICK h \in [SUBSET S -> Int] : Folds(h, F, plus, 0, S)
    <2> DEFINE V == Int
    <2>1. 0 \in V /\ plus \in [V -> [V -> V]] /\ F \in [S -> V]
      BY <1>0
    <2> HIDE DEF V
    <2>2. \E h \in [SUBSET S -> V] : Folds(h, F, plus, 0, S)
      BY <2>1, FoldsExist
    <2> QED BY <2>2 DEF V
  <1>1. Adds(h, F, S)
    <2>1. ASSUME NEW s \in SUBSET S, s # {} PROVE h[s] = F[Some(s)] + h[s \ {Some(s)}]
      <3>1. F[Some(s)] \in Int /\ h[s \ {Some(s)}] \in Int
        BY <2>1, SomeLess
      <3>2. h[s] = plus[F[Some(s)]][h[s \ {Some(s)}]]
        BY <1>a, <2>1 DEF Folds
      <3> QED BY <1>0, <3>1, <3>2
    <2>2. h[{}] = 0
      BY <1>a DEF Folds
    <2> QED BY <2>1, <2>2 DEF Adds
  <1> DEFINE c == CHOOSE g : Adds(g, F, S)
  <1>2. Adds(c, F, S)
    BY <1>1
  <1>3. SumFunction(F) = c[S]
    BY DEF SumFunction, SumFunctionOnSet, FoldFunctionOnSet, MapThenFoldSet, Adds, Some
  <1> HIDE DEF c
  <1> DEFINE same == {s \in SUBSET S : c[s] = h[s]}
  <1>4. {} \in same
    BY <1>1, <1>2 DEF Adds
  <1>5. \A s \in SUBSET S : s # {} /\ s \ {Some(s)} \in same => s \in same
    BY <1>1, <1>2 DEF Adds
  <1>6. SUBSET S \subseteq same
    <2> HIDE DEF same
    <2> QED BY <1>4, <1>5, SubsetsInduct
  <1>7. \A s \in SUBSET S : c[s] = h[s]
    BY <1>6
  <1> QED BY <1>1, <1>3, <1>7

\* A sum of integers is one.
LEMMA SumType ==
  ASSUME NEW S, IsFiniteSet(S), NEW F \in [S -> Int]
  PROVE  SumFunction(F) \in Int
  <1>1. PICK g \in [SUBSET S -> Int] : Adds(g, F, S) /\ SumFunction(F) = g[S]
    BY SumIs
  <1> QED BY <1>1

\* A sum of naturals is a natural, and no summand exceeds it.
LEMMA SumOfNaturals ==
  ASSUME NEW S, IsFiniteSet(S), NEW F \in [S -> Nat]
  PROVE  SumFunction(F) \in Nat /\ \A x \in S : F[x] <= SumFunction(F)
  <1>0. F \in [S -> Int]
    OBVIOUS
  <1>1. PICK g \in [SUBSET S -> Int] : Adds(g, F, S) /\ SumFunction(F) = g[S]
    BY <1>0, SumIs
  <1> DEFINE holds == {s \in SUBSET S : g[s] \in Nat /\ \A x \in s : F[x] <= g[s]}
  <1>2. {} \in holds
    BY <1>1 DEF Adds
  <1>3. ASSUME NEW s \in SUBSET S, s # {}, s \ {Some(s)} \in holds PROVE s \in holds
    <2>0. \A t \in SUBSET S : t # {} => g[t] = F[Some(t)] + g[t \ {Some(t)}]
      BY <1>1 DEF Adds
    <2>1. g[s] = F[Some(s)] + g[s \ {Some(s)}] /\ Some(s) \in s
      BY <1>3, <2>0 DEF Some
    <2>2. F[Some(s)] \in Nat /\ g[s \ {Some(s)}] \in Nat
      BY <1>3, <2>1
    <2>3. ASSUME NEW x \in s PROVE F[x] <= g[s]
      <3>1. CASE x = Some(s)
        BY <2>1, <2>2, <3>1
      <3>2. CASE x # Some(s)
        <4>1. F[x] <= g[s \ {Some(s)}] /\ F[x] \in Nat
          BY <1>3, <3>2
        <4> QED BY <2>1, <2>2, <4>1
      <3> QED BY <3>1, <3>2
    <2>4. g[s] \in Nat
      BY <2>1, <2>2
    <2> QED BY <2>3, <2>4
  <1>4. SUBSET S \subseteq holds
    <2> HIDE DEF holds
    <2> QED BY <1>2, <1>3, SubsetsInduct
  <1> QED BY <1>1, <1>4

\* A sum of the sizes of sets without a common element is the size of their union.
LEMMA SumOfSizes ==
  ASSUME NEW S, IsFiniteSet(S), NEW F, NEW C \in [S -> Int],
         \A x \in S : IsFiniteSet(F[x]) /\ C[x] = Cardinality(F[x]),
         \A x, y \in S : x # y => F[x] \cap F[y] = {}
  PROVE  /\ IsFiniteSet(UNION {F[x] : x \in S})
         /\ SumFunction(C) = Cardinality(UNION {F[x] : x \in S})
  <1> DEFINE U(s) == UNION {F[x] : x \in s}
  <1>1. PICK g \in [SUBSET S -> Int] : Adds(g, C, S) /\ SumFunction(C) = g[S]
    BY SumIs
  <1> DEFINE holds == {s \in SUBSET S : IsFiniteSet(U(s)) /\ g[s] = Cardinality(U(s))}
  <1>2. {} \in holds
    <2>1. g[{}] = 0
      BY <1>1 DEF Adds
    <2>2. U({}) = {}
      OBVIOUS
    <2> QED BY <2>1, <2>2, FS_EmptySet
  <1>3. ASSUME NEW s \in SUBSET S, s # {}, s \ {Some(s)} \in holds PROVE s \in holds
    <2> DEFINE a == Some(s)
               r == s \ {a}
    <2>0. \A t \in SUBSET S : t # {} => g[t] = C[Some(t)] + g[t \ {Some(t)}]
      BY <1>1 DEF Adds
    <2>1. a \in s /\ g[s] = C[a] + g[r]
      BY <1>3, <2>0 DEF Some
    <2>2. IsFiniteSet(U(r)) /\ g[r] = Cardinality(U(r))
      BY <1>3
    <2>3. IsFiniteSet(F[a]) /\ C[a] = Cardinality(F[a])
      BY <2>1
    <2>4. U(s) = F[a] \cup U(r)
      BY <2>1
    <2>5. F[a] \cap U(r) = {}
      BY <2>1
    <2> HIDE DEF U, a, r
    <2>6. /\ IsFiniteSet(F[a] \cup U(r))
          /\ Cardinality(F[a] \cup U(r))
             = Cardinality(F[a]) + Cardinality(U(r)) - Cardinality(F[a] \cap U(r))
      BY <2>2, <2>3, FS_Union
    <2>7. Cardinality(F[a]) \in Nat /\ Cardinality(U(r)) \in Nat /\ Cardinality(F[a] \cap U(r)) = 0
      BY <2>2, <2>3, <2>5, FS_CardinalityType, FS_EmptySet
    <2>8. g[s] = Cardinality(F[a]) + Cardinality(U(r))
      BY <2>1, <2>2, <2>3
    <2>9. Cardinality(F[a] \cup U(r)) = Cardinality(F[a]) + Cardinality(U(r))
      BY <2>6, <2>7
    <2>10. IsFiniteSet(U(s)) /\ g[s] = Cardinality(U(s))
      BY <2>4, <2>6, <2>8, <2>9
    <2> QED BY <2>10
  <1>4. SUBSET S \subseteq holds
    <2> HIDE DEF holds
    <2> QED BY <1>2, <1>3, SubsetsInduct
  <1> QED BY <1>1, <1>4

\* A summand that grows makes the sum grow by as much.
LEMMA SumGrows ==
  ASSUME NEW S, IsFiniteSet(S), NEW F \in [S -> Int], NEW G \in [S -> Int],
         NEW b \in S, NEW d \in Int, G[b] = F[b] + d, \A x \in S : x # b => G[x] = F[x]
  PROVE  SumFunction(G) = SumFunction(F) + d
  <1>1. PICK g \in [SUBSET S -> Int] : Adds(g, F, S) /\ SumFunction(F) = g[S]
    BY SumIs
  <1>2. PICK h \in [SUBSET S -> Int] : Adds(h, G, S) /\ SumFunction(G) = h[S]
    BY SumIs
  <1> DEFINE holds == {s \in SUBSET S : h[s] = g[s] + (IF b \in s THEN d ELSE 0)}
  <1>3. {} \in holds
    BY <1>1, <1>2 DEF Adds
  <1>4. ASSUME NEW s \in SUBSET S, s # {}, s \ {Some(s)} \in holds PROVE s \in holds
    <2>0. \A t \in SUBSET S : t # {} => /\ g[t] = F[Some(t)] + g[t \ {Some(t)}]
                                        /\ h[t] = G[Some(t)] + h[t \ {Some(t)}]
      BY <1>1, <1>2 DEF Adds
    <2>1. /\ g[s] = F[Some(s)] + g[s \ {Some(s)}] /\ Some(s) \in s
          /\ h[s] = G[Some(s)] + h[s \ {Some(s)}]
      BY <1>4, <2>0 DEF Some
    <2>2. /\ h[s \ {Some(s)}] = g[s \ {Some(s)}] + (IF b \in s \ {Some(s)} THEN d ELSE 0)
          /\ F[Some(s)] \in Int /\ g[s \ {Some(s)}] \in Int /\ g[s] \in Int /\ h[s \ {Some(s)}] \in Int
      BY <1>4, <2>1
    <2>3. IF Some(s) = b THEN G[Some(s)] = F[Some(s)] + d ELSE G[Some(s)] = F[Some(s)]
      BY <2>1
    <2>4. CASE Some(s) = b
      BY <2>1, <2>2, <2>3, <2>4
    <2>5. CASE Some(s) # b
      BY <2>1, <2>2, <2>3, <2>5
    <2> QED BY <2>4, <2>5
  <1>5. SUBSET S \subseteq holds
    <2> HIDE DEF holds
    <2> QED BY <1>3, <1>4, SubsetsInduct
  <1>6. h[S] = g[S] + d
    BY <1>5
  <1> QED BY <1>1, <1>2, <1>6
\* g holds the partial products of F over the subsets of S.
Multiplies(g, F, S) ==
  g = [s \in SUBSET S |-> IF s = {} THEN 1 ELSE F[Some(s)] * g[s \ {Some(s)}]]

\* A product of positive numbers is positive.
LEMMA ProductPositive ==
  ASSUME NEW S, IsFiniteSet(S), NEW F \in [S -> Nat \ {0}]
  PROVE  FoldFunction(LAMBDA x, y : x * y, 1, F) \in Nat \ {0}
  <1> DEFINE V == Nat \ {0}
             times == [x \in V |-> [y \in V |-> x * y]]
             c == CHOOSE g : Multiplies(g, F, S)
  <1>0. times \in [V -> [V -> V]] /\ \A x, y \in V : times[x][y] = x * y
    <2>1. \A x, y \in V : x * y \in V
      OBVIOUS
    <2> QED BY <2>1
  <1> HIDE DEF times
  <1>1. PICK h \in [SUBSET S -> V] : Folds(h, F, times, 1, S)
    <2>1. 1 \in V /\ times \in [V -> [V -> V]] /\ F \in [S -> V]
      BY <1>0
    <2> HIDE DEF V
    <2>2. \E h \in [SUBSET S -> V] : Folds(h, F, times, 1, S)
      BY <2>1, FoldsExist
    <2> QED BY <2>2
  <1>2. ASSUME NEW s \in SUBSET S, s # {}
        PROVE  h[s] = F[Some(s)] * h[s \ {Some(s)}]
    <2>1. F[Some(s)] \in V /\ h[s \ {Some(s)}] \in V
      BY <1>2, SomeLess
    <2>2. h[s] = times[F[Some(s)]][h[s \ {Some(s)}]]
      BY <1>1, <1>2 DEF Folds
    <2> QED BY <1>0, <2>1, <2>2
  <1>3. h[{}] = 1
    BY <1>1 DEF Folds
  <1>4. Multiplies(h, F, S)
    BY <1>2, <1>3 DEF Multiplies
  <1>5. Multiplies(c, F, S)
    BY <1>4
  <1>6. FoldFunction(LAMBDA x, y : x * y, 1, F) = c[S]
    BY DEF FoldFunction, FoldFunctionOnSet, MapThenFoldSet, Multiplies, Some
  <1> HIDE DEF c
  <1> DEFINE same == {s \in SUBSET S : c[s] = h[s]}
  <1>7. {} \in same
    BY <1>4, <1>5 DEF Multiplies
  <1>8. \A s \in SUBSET S : s # {} /\ s \ {Some(s)} \in same => s \in same
    BY <1>4, <1>5 DEF Multiplies
  <1>9. SUBSET S \subseteq same
    <2> HIDE DEF same
    <2> QED BY <1>7, <1>8, SubsetsInduct
  <1> QED BY <1>1, <1>6, <1>9
=============================================================================
