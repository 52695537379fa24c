-------------------------- MODULE FiniteInduction --------------------------
(***************************************************************************)
(* Induction for the proofs about the models.  The induction theorems of   *)
(* the library take the property as an operator; these take the set of     *)
(* what has the property, which a proof can define and cite.               *)
(***************************************************************************)
EXTENDS Integers, FiniteSets, FiniteSetTheorems, TLAPS

\* A nonempty set of natural numbers has a least member.
LEMMA LeastNatural ==
    ASSUME NEW S \in SUBSET Nat, S # {}
    PROVE  \E m \in S : \A n \in S : m <= n
  <1> DEFINE R == {ss \in Nat \X Nat : ss[1] < ss[2]}
  <1>1. IsWellFoundedOn(R, Nat)
    BY NatLessThanWellFounded DEF OpToRel
  <1>2. \A n, m \in Nat : n < m => <<n, m>> \in R
    OBVIOUS
  <1> HIDE DEF R
  <1>3. PICK m \in S : \A n \in S : <<n, m>> \notin R
    BY <1>1, WFMin
  <1>4. \A n \in S : ~ (n < m)
    <2> TAKE n \in S
    <2>1. n \in Nat /\ m \in Nat
      OBVIOUS
    <2> QED BY <1>2, <1>3, <2>1, Zenon
  <1> QED BY <1>4

\* Induction over the natural numbers, for a set of them.
LEMMA NatSetInduction ==
    ASSUME NEW G, 0 \in G, \A n \in Nat : n \in G => n + 1 \in G
    PROVE  Nat \subseteq G
  <1> SUFFICES ASSUME Nat \ G # {} PROVE FALSE
    OBVIOUS
  <1>1. PICK m \in Nat \ G : \A n \in Nat \ G : m <= n
    BY LeastNatural
  <1>2. m - 1 \in Nat /\ m - 1 \notin Nat \ G
    BY <1>1
  <1> QED BY <1>1, <1>2

\* Induction along a rank: what holds of an element whenever it holds of the
\* elements of lower rank holds of all.
LEMMA RankInduction ==
    ASSUME NEW X, NEW rank \in [X -> Nat], NEW G,
           \A x \in X : (\A y \in X : rank[y] < rank[x] => y \in G) => x \in G
    PROVE  X \subseteq G
  <1> DEFINE Bad == {rank[x] : x \in X \ G}
  <1> SUFFICES ASSUME X \ G # {} PROVE FALSE
    OBVIOUS
  <1>1. Bad \in SUBSET Nat /\ Bad # {}
    OBVIOUS
  <1>2. PICK m \in Bad : \A n \in Bad : m <= n
    BY <1>1, LeastNatural
  <1>3. PICK x \in X \ G : rank[x] = m
    BY <1>2
  <1>4. ASSUME NEW y \in X, rank[y] < rank[x]
        PROVE  y \in G
    BY <1>2, <1>3, <1>4
  <1> QED BY <1>3, <1>4

\* Induction over the subsets of a finite set, one element at a time.
LEMMA FiniteInduction ==
    ASSUME NEW U, IsFiniteSet(U), NEW G, {} \in G,
           \A T \in SUBSET U : \A x \in U \ T : T \in G => T \cup {x} \in G
    PROVE  SUBSET U \subseteq G
  <1>1. IsWellFoundedOn(StrictSubsetOrdering(U), SUBSET U)
    BY FS_StrictSubsetOrderingWellFounded, FS_FiniteSubsetsOfFinite
  <1> DEFINE Bad == {T \in SUBSET U : T \notin G}
  <1> SUFFICES ASSUME Bad # {} PROVE FALSE
    OBVIOUS
  <1>2. PICK T \in Bad : \A V \in Bad : ~ (<<V, T>> \in StrictSubsetOrdering(U))
    BY <1>1, WFMin
  <1>3. PICK x \in T : TRUE
    BY DEF Bad
  <1>4. T \ {x} \notin Bad
    BY <1>2, <1>3 DEF StrictSubsetOrdering
  <1>5. T \ {x} \in G /\ (T \ {x}) \cup {x} = T
    BY <1>3, <1>4 
  <1> QED BY <1>5, <1>3 

\* Every nonempty part of a finite set has an element that is maximal in a
\* strict order: the primary of an action domain, a cluster of highest score.
LEMMA FiniteMaximal ==
    ASSUME NEW U, IsFiniteSet(U), NEW above \in [U -> SUBSET U],
           \A x \in U : x \notin above[x],
           \A x, y, z \in U : y \in above[x] /\ z \in above[y] => z \in above[x],
           NEW S \in SUBSET U, S # {}
    PROVE  \E m \in S : above[m] \cap S = {}
  <1> DEFINE G == {T \in SUBSET U : T # {} => \E m \in T : above[m] \cap T = {}}
  <1>1. {} \in G
    OBVIOUS
  <1>2. ASSUME NEW T \in SUBSET U, NEW x \in U \ T, T \in G
        PROVE  T \cup {x} \in G
    <2>1. CASE T = {}
      BY <2>1
    <2>2. CASE T # {}
      <3>1. PICK m \in T : above[m] \cap T = {}
        BY <1>2, <2>2
      <3>2. CASE x \in above[m]
        <4>1. above[x] \cap (T \cup {x}) = {}
          BY <3>1, <3>2
        <4> QED BY <4>1
      <3>3. CASE x \notin above[m]
        BY <3>1, <3>3
      <3> QED BY <3>2, <3>3
    <2> QED BY <2>1, <2>2
  <1> HIDE DEF G
  <1>3. SUBSET U \subseteq G
    BY <1>1, <1>2, FiniteInduction
  <1> QED BY <1>3 DEF G

\* A nonempty part of a finite set of natural numbers has a greatest member.
LEMMA GreatestNatural ==
    ASSUME NEW U, IsFiniteSet(U), NEW S \in SUBSET U, S # {}
    PROVE  S \subseteq Nat => \E m \in S : \A n \in S : n <= m
  <1> DEFINE above == [x \in U |-> {y \in U : x \in Nat /\ y \in Nat /\ y > x}]
  <1>1. above \in [U -> SUBSET U]
    OBVIOUS
  <1>2. \A x \in U : x \notin above[x]
    OBVIOUS
  <1>3. \A x, y, z \in U : y \in above[x] /\ z \in above[y] => z \in above[x]
    OBVIOUS
  <1>4. \E m \in S : above[m] \cap S = {}
    <2> HIDE DEF above
    <2>1. QED
      BY <1>1, <1>2, <1>3, FiniteMaximal
  <1>5. PICK m \in S : above[m] \cap S = {}
    BY <1>4
  <1>6. \A n \in S : m \in Nat /\ n \in Nat => ~(n > m)
    BY <1>5
  <1>7. QED
    BY <1>6

-----------------------------------------------------------------------------
(***************************************************************************)
(* Definition by recursion                                                 *)
(***************************************************************************)

\* A recursion in which every value depends on one of lower rank.
RecursionOn(X, N, rank, prev, V, first, next) ==
    /\ N \in Nat /\ rank \in [X -> 0..N] /\ prev \in [X -> X]
    /\ \A x \in X : rank[x] # 0 => rank[prev[x]] < rank[x]
    /\ first \in [X -> V] /\ next \in [X -> [V -> V]]

\* Such a recursion, its ranks bounded, has a solution.
LEMMA BoundedRecursion ==
    ASSUME NEW X, NEW N, NEW rank, NEW prev, NEW V, NEW first, NEW next,
           RecursionOn(X, N, rank, prev, V, first, next)
    PROVE  \E g \in [X -> V] : \A x \in X :
              g[x] = IF rank[x] = 0 THEN first[x] ELSE next[x][g[prev[x]]]
  <1>0. /\ N \in Nat /\ rank \in [X -> 0..N] /\ prev \in [X -> X]
        /\ \A x \in X : rank[x] # 0 => rank[prev[x]] < rank[x]
        /\ first \in [X -> V] /\ next \in [X -> [V -> V]]
    BY DEF RecursionOn
  <1> DEFINE Good(g, x) == g[x] = IF rank[x] = 0 THEN first[x] ELSE next[x][g[prev[x]]]
             G == {n \in Nat : \E g \in [X -> V] : \A x \in X : rank[x] <= n => Good(g, x)}
  <1>1. 0 \in G
    <2>1. \A x \in X : rank[x] <= 0 => Good(first, x)
      BY <1>0
    <2> QED BY <1>0, <2>1
  <1>2. ASSUME NEW n \in Nat, n \in G
        PROVE  n + 1 \in G
    <2>1. PICK g \in [X -> V] : \A x \in X : rank[x] <= n => Good(g, x)
      BY <1>2
    <2> DEFINE h == [x \in X |-> IF rank[x] = 0 THEN first[x] ELSE next[x][g[prev[x]]]]
    <2>2. h \in [X -> V]
      BY <1>0
    <2>3. \A x \in X : rank[x] <= n => h[x] = g[x]
      BY <1>0, <2>1
    <2>4. ASSUME NEW x \in X, rank[x] <= n + 1
          PROVE  Good(h, x)
      <3>1. prev[x] \in X /\ (rank[x] # 0 => rank[prev[x]] <= n)
        BY <1>0, <2>4
      <3> QED BY <3>1, <2>3
    <2> HIDE DEF Good, h
    <2>5. n + 1 \in Nat /\ \A x \in X : rank[x] <= n + 1 => Good(h, x)
      BY <2>4
    <2> QED BY <2>2, <2>5
  <1>3. N \in G
    <2> HIDE DEF G
    <2> QED BY <1>0, <1>1, <1>2, NatSetInduction
  <1>4. PICK g \in [X -> V] : \A x \in X : rank[x] <= N => Good(g, x)
    BY <1>3
  <1> QED BY <1>0, <1>4

-----------------------------------------------------------------------------
(***************************************************************************)
(* Sums over a finite set, its elements taken one by one as a fold does    *)
(***************************************************************************)

Picked(s) == CHOOSE x \in s : TRUE

\* g gives the sum of w over each part of S.
SumsOf(g, S, w) ==
    g = [s \in SUBSET S |-> IF s = {} THEN 0 ELSE g[s \ {Picked(s)}] + w[Picked(s)]]

\* The sums exist.
LEMMA SumsExist ==
    ASSUME NEW S, IsFiniteSet(S), NEW w \in [S -> Int]
    PROVE  \E g : SumsOf(g, S, w)
  <1> DEFINE X == SUBSET S
             N == Cardinality(S)
             rank == [s \in X |-> Cardinality(s)]
             prev == [s \in X |-> s \ {Picked(s)}]
             first == [s \in X |-> 0]
             next == [s \in X |-> [v \in Int |-> IF s = {} THEN 0 ELSE v + w[Picked(s)]]]
  <1>1. N \in Nat /\ \A s \in X : IsFiniteSet(s) /\ rank[s] \in 0..N
    BY FS_CardinalityType, FS_Subset
  <1>2. rank \in [X -> 0..N]
    BY <1>1
  <1>3. prev \in [X -> X] /\ first \in [X -> Int]
    OBVIOUS
  <1>4. \A s \in X : rank[s] # 0 => Picked(s) \in s
    BY <1>1, FS_EmptySet DEF Picked
  <1>5. next \in [X -> [Int -> Int]]
    <2>1. \A s \in X : s # {} => Picked(s) \in S
      BY DEF Picked
    <2> QED BY <2>1
  <1>6. \A s \in X : rank[s] # 0 => rank[prev[s]] < rank[s]
    <2> TAKE s \in X
    <2> HAVE rank[s] # 0
    <2>1. Cardinality(s \ {Picked(s)}) = Cardinality(s) - 1
      BY <1>1, <1>4, FS_RemoveElement
    <2>2. prev[s] \in X /\ rank[prev[s]] = Cardinality(s) - 1 /\ rank[s] = Cardinality(s)
      BY <2>1
    <2>3. Cardinality(s) \in Nat
      BY <1>1, FS_CardinalityType
    <2> HIDE DEF rank, prev
    <2> QED BY <2>2, <2>3
  <1>7. \A s \in X : rank[s] = 0 <=> s = {}
    BY <1>1, FS_EmptySet
  <1> HIDE DEF rank, prev, first, next, X, N
  <1>8. PICK g \in [X -> Int] : \A s \in X :
            g[s] = IF rank[s] = 0 THEN first[s] ELSE next[s][g[prev[s]]]
    <2>1. N \in Nat
      BY <1>1
    <2> DEFINE V == Int
    <2>2. RecursionOn(X, N, rank, prev, V, first, next)
      BY <2>1, <1>2, <1>3, <1>5, <1>6 DEF RecursionOn
    <2>3. \E g \in [X -> V] : \A s \in X :
             g[s] = IF rank[s] = 0 THEN first[s] ELSE next[s][g[prev[s]]]
      BY <2>2, BoundedRecursion
    <2> QED BY <2>3 DEF V
  <1>9. ASSUME NEW s \in X
        PROVE  g[s] = IF s = {} THEN 0 ELSE g[s \ {Picked(s)}] + w[Picked(s)]
    <2>1. g[prev[s]] \in Int /\ prev[s] = s \ {Picked(s)}
      BY <1>3 DEF prev
    <2>2. first[s] = 0 /\ \A v \in Int : next[s][v] = IF s = {} THEN 0 ELSE v + w[Picked(s)]
      BY DEF first, next
    <2>3. g[s] = IF rank[s] = 0 THEN first[s] ELSE next[s][g[prev[s]]]
      BY <1>8
    <2> QED BY <1>7, <2>1, <2>2, <2>3
  <1>10. g = [s \in SUBSET S |-> IF s = {} THEN 0 ELSE g[s \ {Picked(s)}] + w[Picked(s)]]
    BY <1>8, <1>9 DEF X
  <1> QED BY <1>10 DEF SumsOf

\* Sums of numbers are numbers.
LEMMA SumsAreNumbers ==
    ASSUME NEW S, IsFiniteSet(S), NEW w \in [S -> Int], NEW g, SumsOf(g, S, w)
    PROVE  \A s \in SUBSET S : g[s] \in Int
  <1> DEFINE rank == [s \in SUBSET S |-> Cardinality(s)]
             G == {s \in SUBSET S : g[s] \in Int}
  <1>1. \A s \in SUBSET S : IsFiniteSet(s) /\ Cardinality(s) \in Nat
    BY FS_CardinalityType, FS_Subset
  <1>2. ASSUME NEW s \in SUBSET S, \A t \in SUBSET S : rank[t] < rank[s] => t \in G
        PROVE  s \in G
    <2>1. CASE s = {}
      BY <2>1 DEF SumsOf
    <2>2. CASE s # {}
      <3> DEFINE x == Picked(s)
                 t == s \ {x}
      <3>1. x \in s
        BY <2>2 DEF Picked
      <3>2. g[s] = g[t] + w[x]
        BY <2>2 DEF SumsOf
      <3>3. t \in SUBSET S /\ Cardinality(t) = Cardinality(s) - 1
        BY <1>1, <3>1, FS_RemoveElement
      <3> HIDE DEF x, t
      <3>4. rank[t] < rank[s]
        BY <1>1, <3>3
      <3>5. g[t] \in Int
        BY <1>2, <3>3, <3>4
      <3> QED BY <3>1, <3>2, <3>5
    <2> QED BY <2>1, <2>2
  <1>3. rank \in [SUBSET S -> Nat]
    BY <1>1
  <1> HIDE DEF G, rank
  <1>4. SUBSET S \subseteq G
    BY <1>2, <1>3, RankInduction
  <1> QED BY <1>4 DEF G

\* A product by a successor, which the prover does not multiply out.
LEMMA Distributes ==
    ASSUME NEW a \in Int, NEW n \in Nat
    PROVE  a * (n + 1) = a * n + a
  OBVIOUS

\* A sum of numbers between two bounds is between as many times the bounds:
\* what keeps a mean of confidences between the smallest and the largest.
LEMMA SumsBounded ==
    ASSUME NEW S, IsFiniteSet(S), NEW lo \in Int, NEW hi \in Int,
           NEW w \in [S -> Int], \A x \in S : lo <= w[x] /\ w[x] <= hi,
           NEW g, SumsOf(g, S, w)
    PROVE  \A s \in SUBSET S : /\ g[s] \in Int
                               /\ lo * Cardinality(s) <= g[s] /\ g[s] <= hi * Cardinality(s)
  <1> DEFINE Good(s) == /\ g[s] \in Int
                        /\ lo * Cardinality(s) <= g[s] /\ g[s] <= hi * Cardinality(s)
             rank == [s \in SUBSET S |-> Cardinality(s)]
             G == {s \in SUBSET S : Good(s)}
  <1>1. \A s \in SUBSET S : IsFiniteSet(s) /\ Cardinality(s) \in Nat
    BY FS_CardinalityType, FS_Subset
  <1>2. ASSUME NEW s \in SUBSET S, \A t \in SUBSET S : rank[t] < rank[s] => t \in G
        PROVE  s \in G
    <2>1. CASE s = {}
      <3>1. g[s] = 0 /\ Cardinality(s) = 0
        BY <2>1, FS_EmptySet DEF SumsOf
      <3> QED BY <3>1
    <2>2. CASE s # {}
      <3> DEFINE x == Picked(s)
                 t == s \ {x}
      <3>1. x \in s
        BY <2>2 DEF Picked
      <3>2. g[s] = g[t] + w[x]
        BY <2>2 DEF SumsOf
      <3>3. t \in SUBSET S /\ Cardinality(t) = Cardinality(s) - 1
        BY <1>1, <3>1, FS_RemoveElement
      <3> HIDE DEF x, t
      <3>4. Good(t)
        <4>1. rank[t] < rank[s]
          BY <1>1, <3>3
        <4>2. t \in G
          BY <1>2, <3>3, <4>1
        <4> QED BY <4>2
      <3>5. w[x] \in Int /\ lo <= w[x] /\ w[x] <= hi
        BY <3>1
      <3> DEFINE n == Cardinality(t)
      <3>6. n \in Nat /\ Cardinality(s) = n + 1
        BY <1>1, <3>3
      <3>7. lo * (n + 1) = lo * n + lo /\ hi * (n + 1) = hi * n + hi
        BY <3>6, Distributes
      <3> QED BY <3>2, <3>4, <3>5, <3>6, <3>7
    <2> QED BY <2>1, <2>2
  <1>3. rank \in [SUBSET S -> Nat]
    BY <1>1
  <1> HIDE DEF G, rank
  <1>4. SUBSET S \subseteq G
    BY <1>2, <1>3, RankInduction
  <1> QED BY <1>4 DEF G
=============================================================================
