------------------------ MODULE Investigation_proofs ------------------------
(***************************************************************************)
(* Proofs about investigations: what their reads answer while the trees    *)
(* are rewritten under them, and what the claims that come out of them     *)
(* rest on, for any trees, limits, models and proposals.                   *)
(***************************************************************************)
EXTENDS Investigation, FiniteInduction, FunctionTheorems

-----------------------------------------------------------------------------
(***************************************************************************)
(* Sorting                                                                 *)
(***************************************************************************)

\* What comes before each element is a strict order of a finite set.
Orders(before) ==
    /\ IsFiniteSet(DOMAIN before)
    /\ before \in [DOMAIN before -> SUBSET DOMAIN before]
    /\ \A n \in DOMAIN before : n \notin before[n]
    /\ \A m, n \in DOMAIN before : m # n => m \in before[n] \/ n \in before[m]
    /\ \A m, n \in DOMAIN before : m \in before[n] => before[m] \subseteq before[n]

\* seq has all of them, in this order.
Lists(seq, k, before) ==
    /\ k \in Nat /\ seq \in [1..k -> DOMAIN before]
    /\ \A i, j \in 1..k : i < j => seq[i] \in before[seq[j]]
    /\ \A n \in DOMAIN before : \E i \in 1..k : seq[i] = n

\* The number of elements before an element is its position.
LEMMA SortedLists ==
    ASSUME NEW before, Orders(before)
    PROVE  Lists(Sorted(before), Cardinality(DOMAIN before), before)
<1> DEFINE S == DOMAIN before
           k == Cardinality(S)
           rank == [n \in S |-> Cardinality(before[n])]
           seq == Sorted(before)
<1>1. k \in Nat /\ IsFiniteSet(S) /\ before \in [S -> SUBSET S]
  BY FS_CardinalityType DEF Orders
<1>2. ASSUME NEW m \in S, NEW n \in S, m \in before[n]
      PROVE  rank[m] < rank[n]
  <2>1. before[m] \subseteq before[n] /\ before[m] # before[n]
    BY <1>2 DEF Orders
  <2>2. IsFiniteSet(before[n]) /\ IsFiniteSet(before[m])
    BY <1>1, FS_Subset
  <2>3. /\ Cardinality(before[m]) <= Cardinality(before[n])
        /\ Cardinality(before[n]) = Cardinality(before[m]) => before[n] = before[m]
    BY <2>1, <2>2, FS_Subset
  <2>4. Cardinality(before[m]) \in Nat /\ Cardinality(before[n]) \in Nat
    BY <2>2, FS_CardinalityType
  <2>5. QED
    BY <2>1, <2>3, <2>4
<1>3. rank \in [S -> 0..(k - 1)]
  <2>1. ASSUME NEW n \in S PROVE Cardinality(before[n]) \in 0..(k - 1)
    <3>1. before[n] \subseteq S /\ before[n] # S
      BY <1>1 DEF Orders
    <3>2. IsFiniteSet(before[n]) /\ Cardinality(before[n]) <= k /\ (k = Cardinality(before[n]) => S = before[n])
      BY <1>1, <3>1, FS_Subset
    <3>3. Cardinality(before[n]) \in Nat
      BY <3>2, FS_CardinalityType
    <3> HIDE DEF k
    <3>4. QED
      BY <1>1, <3>1, <3>2, <3>3
  <2>2. QED
    BY <2>1
<1>4. \A m, n \in S : m # n => rank[m] # rank[n]
  <2> SUFFICES ASSUME NEW m \in S, NEW n \in S, m # n PROVE rank[m] # rank[n]
    OBVIOUS
  <2>1. rank[m] \in Int /\ rank[n] \in Int
    BY <1>3
  <2> HIDE DEF rank
  <2>2. QED
    BY <1>2, <2>1 DEF Orders
<1>5. rank \in Surjection(S, 0..(k - 1))
  <2>1. rank \in Injection(S, 0..(k - 1))
    <3> HIDE DEF rank
    <3>1. QED
      BY <1>3, <1>4 DEF Injection, IsInjective
  <2>2. IsFiniteSet(0..(k - 1)) /\ Cardinality(0..(k - 1)) = k
    <3> HIDE DEF k
    <3>1. 0 \in Int /\ k - 1 \in Int
      BY <1>1
    <3>2. IsFiniteSet(0..(k - 1)) /\ Cardinality(0..(k - 1)) = IF 0 > k - 1 THEN 0 ELSE (k - 1) - 0 + 1
      BY <3>1, FS_Interval
    <3>3. QED
      BY <1>1, <3>2
  <2>3. QED
    BY <2>1, <2>2, FS_Injection
<1>6. ASSUME NEW i \in 1..k
      PROVE  seq[i] \in S /\ rank[seq[i]] = i - 1
  <2>1. i - 1 \in 0..(k - 1)
    <3> HIDE DEF k
    <3>1. QED
      BY <1>1
  <2>2. PICK n \in S : rank[n] = i - 1
    BY <1>5, <2>1 DEF Surjection
  <2>3. seq[i] = CHOOSE m \in S : Cardinality(before[m]) = i - 1
    BY DEF Sorted
  <2>4. QED
    BY <2>2, <2>3
<1>7. seq \in [1..k -> S]
  <2>1. seq = [i \in 1..k |-> seq[i]]
    BY DEF Sorted
  <2> HIDE DEF seq, k
  <2>2. QED
    BY <1>6, <2>1
<1>8. ASSUME NEW i \in 1..k, NEW j \in 1..k, i < j
      PROVE  seq[i] \in before[seq[j]]
  <2>1. rank[seq[i]] < rank[seq[j]] /\ rank[seq[i]] \in Int /\ rank[seq[j]] \in Int
    <3> HIDE DEF k, seq, rank
    <3>1. i \in Int /\ j \in Int
      BY <1>1
    <3>2. QED
      BY <1>6, <1>8, <3>1
  <2>2. seq[i] # seq[j] /\ ~(rank[seq[j]] < rank[seq[i]])
    <3> HIDE DEF seq, rank
    <3>1. QED
      BY <2>1
  <2> HIDE DEF seq, rank, k
  <2>3. QED
    BY <1>2, <1>6, <2>2 DEF Orders
<1>9. ASSUME NEW n \in S PROVE \E i \in 1..k : seq[i] = n
  <2>1. PICK r \in 0..(k - 1) : r = rank[n]
    BY <1>3
  <2>2. r + 1 \in 1..k
    <3> HIDE DEF k
    <3>1. QED
      BY <1>1
  <2>3. rank[seq[r + 1]] = rank[n] /\ seq[r + 1] \in S
    <3>1. rank[seq[r + 1]] = (r + 1) - 1 /\ seq[r + 1] \in S
      BY <1>6, <2>2
    <3> HIDE DEF rank, seq
    <3>2. QED
      BY <2>1, <3>1
  <2> HIDE DEF rank, seq
  <2>4. QED
    BY <1>4, <2>2, <2>3
<1>10. QED
  BY <1>1, <1>7, <1>8, <1>9 DEF Lists

\* There is no other list.
LEMMA ListIsSorted ==
    ASSUME NEW before, Orders(before), NEW seq, NEW k, Lists(seq, k, before)
    PROVE  seq = Sorted(before) /\ k = Cardinality(DOMAIN before)
<1> DEFINE S == DOMAIN before
<1>1. /\ k \in Nat /\ seq \in [1..k -> S]
      /\ \A i, j \in 1..k : i < j => seq[i] \in before[seq[j]]
      /\ \A n \in S : \E i \in 1..k : seq[i] = n
  BY DEF Lists
<1>2. \A i, j \in 1..k : i # j => seq[i] # seq[j]
  <2> SUFFICES ASSUME NEW i \in 1..k, NEW j \in 1..k, i < j PROVE seq[i] # seq[j]
    BY <1>1
  <2>1. QED
    BY <1>1 DEF Orders
<1>3. ASSUME NEW i \in 1..k PROVE Cardinality(before[seq[i]]) = i - 1
  <2> DEFINE head == [j \in 1..(i - 1) |-> seq[j]]
  <2>1. head \in [1..(i - 1) -> before[seq[i]]]
    BY <1>1
  <2>2. \A j, l \in 1..(i - 1) : j # l => head[j] # head[l]
    BY <1>1, <1>2
  <2>3. ASSUME NEW n \in before[seq[i]] PROVE \E j \in 1..(i - 1) : head[j] = n
    <3>1. n \in S /\ seq[i] \in S
      BY <1>1 DEF Orders
    <3>2. PICK j \in 1..k : seq[j] = n
      BY <1>1, <3>1
    <3>3. ~(i < j) /\ i # j
      BY <1>1, <3>1, <3>2, <2>3 DEF Orders
    <3>4. QED
      BY <1>1, <3>2, <3>3
  <2>4. head \in Bijection(1..(i - 1), before[seq[i]])
    <3> HIDE DEF head
    <3>1. QED
      BY <2>1, <2>2, <2>3 DEF Bijection, Injection, Surjection, IsInjective
  <2>5. ExistsBijection(1..(i - 1), before[seq[i]])
    BY <2>4 DEF ExistsBijection
  <2>6. IsFiniteSet(1..(i - 1)) /\ Cardinality(1..(i - 1)) = i - 1
    BY <1>1, FS_Interval
  <2>7. QED
    BY <2>5, <2>6, FS_Bijection
<1>4. k = Cardinality(S)
  <2>1. seq \in Bijection(1..k, S)
    BY <1>1, <1>2 DEF Bijection, Injection, Surjection, IsInjective
  <2>2. IsFiniteSet(1..k) /\ Cardinality(1..k) = k
    BY <1>1, FS_Interval
  <2>3. QED
    BY <2>1, <2>2, FS_Bijection DEF ExistsBijection
<1>5. ASSUME NEW i \in 1..k
      PROVE  (CHOOSE n \in S : Cardinality(before[n]) = i - 1) = seq[i]
  <2> DEFINE P(n) == Cardinality(before[n]) = i - 1
  <2>1. seq[i] \in S /\ P(seq[i])
    BY <1>1, <1>3
  <2>2. ASSUME NEW n \in S, P(n) PROVE n = seq[i]
    <3>1. PICK j \in 1..k : seq[j] = n
      BY <1>1
    <3>2. j - 1 = i - 1
      BY <1>3, <2>2, <3>1
    <3>3. QED
      BY <3>1, <3>2
  <2> HIDE DEF P
  <2>3. (CHOOSE n \in S : P(n)) = seq[i]
    BY <2>1, <2>2
  <2>4. QED
    BY <2>3 DEF P
<1>6. Sorted(before) = [i \in 1..k |-> CHOOSE n \in S : Cardinality(before[n]) = i - 1]
  BY <1>4 DEF Sorted
<1>7. QED
  <2> DEFINE at(i) == CHOOSE n \in S : Cardinality(before[n]) = i - 1
  <2>1. \A i \in 1..k : at(i) = seq[i]
    BY <1>5
  <2>2. Sorted(before) = [i \in 1..k |-> at(i)]
    BY <1>6
  <2> HIDE DEF at
  <2>3. QED
    BY <1>1, <1>4, <2>1, <2>2

-----------------------------------------------------------------------------
(***************************************************************************)
(* Siblings and pages                                                      *)
(***************************************************************************)

AllNodes == UNION Payloads

\* seq has the nodes K, one after the other by position.
Siblings(seq, K) ==
    /\ Len(seq) \in Nat /\ seq \in [1..Len(seq) -> K]
    /\ \A i, j \in 1..Len(seq) : i < j => Before(Position(seq[i]), Position(seq[j]))
    /\ \A n \in K : \E i \in 1..Len(seq) : seq[i] = n

\* A function on 1..k is a sequence of length k.
LEMMA IntervalSequence ==
    ASSUME NEW k \in Nat, NEW S, NEW f \in [1..k -> S]
    PROVE  f \in Seq(S) /\ Len(f) = k
OBVIOUS

LEMMA NodesAreTyped ==
    ASSUME NEW n \in AllNodes
    PROVE  /\ n.key \in Int /\ n.ordinal \in Int /\ n.start \in Int /\ n.end \in Int
           /\ n.key # None /\ Position(n) # None /\ Position(n) = <<n.ordinal, n.key>>
BY PayloadsAssumption DEF AllNodes, Position

\* Positions are ordered.
LEMMA PositionsOrder ==
    ASSUME NEW l \in AllNodes, NEW m \in AllNodes, NEW n \in AllNodes
    PROVE  /\ ~Before(Position(n), Position(n))
           /\ Before(Position(l), Position(m)) /\ Before(Position(m), Position(n))
                 => Before(Position(l), Position(n))
           /\ m.ordinal # n.ordinal => Before(Position(m), Position(n)) \/ Before(Position(n), Position(m))
<1>1. \A x, y \in AllNodes : Before(Position(x), Position(y)) <=>
          x.ordinal < y.ordinal \/ (x.ordinal = y.ordinal /\ x.key < y.key)
  BY DEF Before, Position
<1>2. /\ l.ordinal \in Int /\ m.ordinal \in Int /\ n.ordinal \in Int
      /\ l.key \in Int /\ m.key \in Int /\ n.key \in Int
  BY NodesAreTyped
<1>3. QED
  BY <1>1, <1>2

\* So are the children of a node in a tree the codec lets through.
LEMMA SiblingsOrder ==
    ASSUME NEW t \in Encodable, NEW key, NEW K \in SUBSET ChildrenOf(t, key)
    PROVE  /\ Orders([n \in K |-> {m \in K : Before(Position(m), Position(n))}])
           /\ K \subseteq AllNodes
<1> DEFINE before == [n \in K |-> {m \in K : Before(Position(m), Position(n))}]
<1>1. t \in Payloads /\ IsTree(t) /\ K \subseteq t /\ \A n \in K : n.parent = key
  BY DEF Encodable, ChildrenOf
<1>2. K \subseteq AllNodes
  BY <1>1 DEF AllNodes
<1>3. IsFiniteSet(K)
  BY <1>1, PayloadsAssumption, FS_Subset
<1>4. \A m, n \in K : m # n => m.ordinal # n.ordinal
  BY <1>1 DEF IsTree
<1>5. DOMAIN before = K /\ before \in [K -> SUBSET K]
  OBVIOUS
<1>6. \A n \in K : n \notin before[n]
  BY <1>2, PositionsOrder
<1>7. \A m, n \in K : m # n => m \in before[n] \/ n \in before[m]
  BY <1>2, <1>4, PositionsOrder
<1>8. \A m, n \in K : m \in before[n] => before[m] \subseteq before[n]
  BY <1>2, PositionsOrder
<1> HIDE DEF before
<1>9. Orders(before)
  BY <1>3, <1>5, <1>6, <1>7, <1>8 DEF Orders
<1>10. QED
  BY <1>2, <1>9 DEF before

\* InOrder lists siblings, and nothing else does.
LEMMA InOrderLists ==
    ASSUME NEW t \in Encodable, NEW key, NEW K \in SUBSET ChildrenOf(t, key)
    PROVE  Siblings(InOrder(K), K)
<1> DEFINE before == [n \in K |-> {m \in K : Before(Position(m), Position(n))}]
           seq == InOrder(K)
           k == Cardinality(K)
<1>1. DOMAIN before = K /\ \A m, n \in K : m \in before[n] <=> Before(Position(m), Position(n))
  OBVIOUS
<1>2. seq = Sorted(before)
  BY DEF InOrder
<1> HIDE DEF before, seq
<1>3. Lists(seq, k, before)
  <2>1. Orders(before)
    BY SiblingsOrder DEF before
  <2>2. QED
    BY <1>1, <1>2, <2>1, SortedLists
<1> HIDE DEF k
<1>4. k \in Nat /\ seq \in [1..k -> K]
  BY <1>1, <1>3 DEF Lists
<1>5. Len(seq) = k
  BY <1>4, IntervalSequence
<1>6. QED
  BY <1>1, <1>3, <1>4, <1>5 DEF Lists, Siblings, seq

LEMMA InOrderIs ==
    ASSUME NEW t \in Encodable, NEW key, NEW K \in SUBSET ChildrenOf(t, key),
           NEW seq, Siblings(seq, K)
    PROVE  seq = InOrder(K)
<1> DEFINE before == [n \in K |-> {m \in K : Before(Position(m), Position(n))}]
<1>1. DOMAIN before = K /\ \A m, n \in K : m \in before[n] <=> Before(Position(m), Position(n))
  OBVIOUS
<1>2. InOrder(K) = Sorted(before)
  BY DEF InOrder
<1>3. Orders(before)
  BY SiblingsOrder
<1> HIDE DEF before
<1>4. Lists(seq, Len(seq), before)
  BY <1>1 DEF Siblings, Lists
<1>5. QED
  BY <1>2, <1>3, <1>4, ListIsSorted

\* The first rows up to a limit.
LEMMA FirstOfIs ==
    ASSUME NEW S, NEW rows \in Seq(S), NEW limit \in Nat
    PROVE  LET first == FirstOf(limit, rows)
           IN  /\ first \in Seq(S)
               /\ limit <= Len(rows) => Len(first) = limit
               /\ Len(rows) <= limit => Len(first) = Len(rows)
               /\ \A i \in 1..Len(first) : first[i] = rows[i]
<1> DEFINE m == IF limit <= Len(rows) THEN limit ELSE Len(rows)
           P(x) == \A y \in {limit, Len(rows)} : x <= y
<1>1. m \in {limit, Len(rows)} /\ P(m) /\ \A x \in {limit, Len(rows)} : P(x) => x = m
  OBVIOUS
<1>2. Min({limit, Len(rows)}) = m
  <2> HIDE DEF m
  <2>1. (CHOOSE x \in {limit, Len(rows)} : P(x)) = m
    <3> HIDE DEF P
    <3>1. QED
      BY <1>1
  <2>2. QED
    BY <2>1 DEF Min
<1>3. FirstOf(limit, rows) = SubSeq(rows, 1, m)
  BY <1>2 DEF FirstOf
<1>4. m \in 0..Len(rows)
  OBVIOUS
<1> HIDE DEF m
<1>5. /\ SubSeq(rows, 1, m) \in Seq(S) /\ Len(SubSeq(rows, 1, m)) = m
      /\ \A i \in 1..m : SubSeq(rows, 1, m)[i] = rows[i]
  BY <1>4
<1>6. (limit <= Len(rows) => m = limit) /\ (Len(rows) <= limit => m = Len(rows))
  BY DEF m
<1>7. QED
  BY <1>3, <1>5, <1>6

\* rows are what follows the first n of all.
Follows(rows, all, n) ==
    Len(rows) = Len(all) - n /\ \A i \in 1..Len(rows) : rows[i] = all[n + i]

\* The children a page takes, put behind those before the cursor, are the next
\* ones of the whole list.
LEMMA PageContinues ==
    ASSUME NEW t \in Encodable, NEW key, NEW cursor, NEW n \in Nat,
           n \in 1..Len(Children(t, key)), cursor = Position(Children(t, key)[n])
    PROVE  Follows(After(t, key, cursor), Children(t, key), n)
<1> DEFINE kids == ChildrenOf(t, key)
           all  == Children(t, key)
           K    == {m \in kids : Before(cursor, Position(m))}
           k    == Len(all) - n
           tail == [i \in 1..k |-> all[n + i]]
<1>1. Siblings(all, kids) /\ kids \subseteq AllNodes
  BY InOrderLists, SiblingsOrder DEF Children
<1>2. /\ Len(all) \in Nat /\ all \in [1..Len(all) -> kids] /\ n \in 1..Len(all)
      /\ \A i, j \in 1..Len(all) : i < j => Before(Position(all[i]), Position(all[j]))
      /\ \A m \in kids : \E i \in 1..Len(all) : all[i] = m
  BY <1>1 DEF Siblings
<1>3. After(t, key, cursor) = InOrder(K)
  <2>1. cursor # None
    BY <1>1, <1>2, NodesAreTyped
  <2>2. QED
    BY <2>1 DEF After
<1> HIDE DEF all, kids
<1>4. \A i \in 1..Len(all) : Before(cursor, Position(all[i])) <=> i > n
  <2> SUFFICES ASSUME NEW i \in 1..Len(all) PROVE Before(cursor, Position(all[i])) <=> i > n
    OBVIOUS
  <2>1. all[i] \in AllNodes /\ all[n] \in AllNodes /\ cursor = Position(all[n])
    BY <1>1, <1>2 DEF all
  <2>2. CASE i > n
    BY <1>2, <2>1, <2>2
  <2>3. CASE i = n
    BY <2>1, <2>3, PositionsOrder
  <2>4. CASE i < n
    BY <1>2, <2>1, <2>4, PositionsOrder
  <2>5. QED
    BY <1>2, <2>2, <2>3, <2>4
<1>5. k \in Nat /\ tail \in [1..k -> K]
  <2>1. k \in Nat
    BY <1>2
  <2>2. \A i \in 1..k : n + i \in 1..Len(all) /\ n + i > n
    BY <1>2
  <2>3. QED
    BY <1>2, <1>4, <2>1, <2>2
<1>6. tail \in Seq(K) /\ Len(tail) = k
  <2> HIDE DEF tail, k, K
  <2>1. QED
    BY <1>5, IntervalSequence
<1>7. Siblings(tail, K)
  <2>1. \A i, j \in 1..k : i < j => Before(Position(tail[i]), Position(tail[j]))
    BY <1>2
  <2>2. ASSUME NEW m \in K PROVE \E i \in 1..k : tail[i] = m
    <3>1. PICK i \in 1..Len(all) : all[i] = m
      BY <1>2
    <3>2. i > n
      BY <1>4, <3>1
    <3>3. i - n \in 1..k /\ n + (i - n) = i
      BY <1>2, <3>2
    <3>4. QED
      BY <3>1, <3>3
  <2> HIDE DEF tail, k, K
  <2>3. QED
    BY <1>5, <1>6, <2>1, <2>2 DEF Siblings
<1>8. tail = InOrder(K)
  <2>1. K \in SUBSET ChildrenOf(t, key)
    BY DEF kids
  <2> HIDE DEF tail, K
  <2>2. QED
    BY <1>7, <2>1, InOrderIs
<1>9. QED
  BY <1>3, <1>6, <1>8 DEF all, Follows

\* Sequences that agree on every position are one.
LEMMA SameSequence ==
    ASSUME NEW S, NEW T, NEW a \in Seq(S), NEW b \in Seq(T), Len(a) = Len(b),
           \A i \in 1..Len(a) : a[i] = b[i]
    PROVE  a = b
OBVIOUS

-----------------------------------------------------------------------------
\* What a traversal in pages has got.
PagesInv ==
    pages # None =>
        /\ pages = [doc |-> pages.doc, key |-> pages.key, limit |-> pages.limit,
                    items |-> pages.items, next |-> pages.next, trees |-> pages.trees]
        /\ pages.doc \in Documents /\ pages.limit \in Nat \ {0} /\ pages.trees # {}
        /\ pages.items \in Seq(AllNodes)
        /\ \A i, j \in 1..Len(pages.items) :
              i < j => Before(Position(pages.items[i]), Position(pages.items[j]))
        /\ pages.next # None =>
              Len(pages.items) # 0 /\ pages.next = Position(pages.items[Len(pages.items)])
        /\ \A t : pages.trees = {t} =>
              LET all == Children(t, pages.key)
                  n   == Len(pages.items)
              IN  /\ t \in Encodable /\ pages.key \in Keys(t)
                  /\ n <= Len(all) /\ \A i \in 1..n : pages.items[i] = all[i]
                  /\ pages.next = None => n = Len(all)

StoredOK == stored \in [Documents -> Encodable \cup {None}]

\* A page is the first rows after the cursor, and its cursor its last row.
IsPage(items, next, rows, cursor) ==
    /\ rows \in Seq(AllNodes)
    /\ \A i, j \in 1..Len(rows) : i < j => Before(Position(rows[i]), Position(rows[j]))
    /\ \A i \in 1..Len(rows) : cursor # None => Before(cursor, Position(rows[i]))
    /\ items \in Seq(AllNodes) /\ Len(items) <= Len(rows)
    /\ \A i \in 1..Len(items) : items[i] = rows[i]
    /\ next = None => Len(items) = Len(rows)
    /\ next # None => Len(items) # 0 /\ next = Position(items[Len(items)])

LEMMA PageIs ==
    ASSUME NEW t \in Encodable, NEW key, NEW cursor, NEW limit \in Nat \ {0},
           cursor = None \/ \E c \in AllNodes : cursor = Position(c)
    PROVE  LET rows == After(t, key, cursor)
           IN  IsPage(FirstOf(limit, rows), NextCursor(rows, limit), rows, cursor)
<1> DEFINE K == IF cursor = None THEN ChildrenOf(t, key)
                ELSE {n \in ChildrenOf(t, key) : Before(cursor, Position(n))}
           rows == After(t, key, cursor)
           items == FirstOf(limit, rows)
<1>1. rows = InOrder(K) /\ K \in SUBSET ChildrenOf(t, key)
  BY DEF After, Children
<1>2. \A n \in K : cursor # None => Before(cursor, Position(n))
  OBVIOUS
<1> HIDE DEF K, rows
<1>3. Siblings(rows, K) /\ K \subseteq AllNodes
  BY <1>1, InOrderLists, SiblingsOrder
<1>4. /\ Len(rows) \in Nat /\ rows \in [1..Len(rows) -> K]
      /\ \A i, j \in 1..Len(rows) : i < j => Before(Position(rows[i]), Position(rows[j]))
  BY <1>3 DEF Siblings
<1>5. rows \in Seq(AllNodes)
  <2>1. rows \in [1..Len(rows) -> AllNodes]
    BY <1>3, <1>4
  <2>2. QED
    BY <1>4, <2>1, IntervalSequence
<1>6. /\ items \in Seq(AllNodes)
      /\ limit <= Len(rows) => Len(items) = limit
      /\ Len(rows) <= limit => Len(items) = Len(rows)
      /\ \A i \in 1..Len(items) : items[i] = rows[i]
  BY <1>5, FirstOfIs
<1> HIDE DEF items
<1>7. Len(items) <= Len(rows) /\ Len(items) \in Nat
  BY <1>4, <1>6
<1>8. \A i \in 1..Len(rows) : cursor # None => Before(cursor, Position(rows[i]))
  BY <1>2, <1>4
<1>9. /\ NextCursor(rows, limit) = None => Len(items) = Len(rows)
      /\ NextCursor(rows, limit) # None =>
            Len(items) # 0 /\ NextCursor(rows, limit) = Position(items[Len(items)])
  <2>1. CASE Len(rows) > limit
    <3>1. NextCursor(rows, limit) = Position(rows[limit]) /\ Len(items) = limit /\ items[limit] = rows[limit]
      <4>1. NextCursor(rows, limit) = Position(rows[limit])
        BY <2>1 DEF NextCursor
      <4>2. Len(items) = limit
        BY <1>4, <1>6, <2>1
      <4>3. limit \in 1..Len(items)
        BY <1>7, <4>2
      <4>4. QED
        BY <1>6, <4>1, <4>2, <4>3
    <3>2. rows[limit] \in AllNodes
      BY <1>4, <1>3, <2>1
    <3>3. QED
      BY <3>1, <3>2, NodesAreTyped
  <2>2. CASE ~(Len(rows) > limit)
    <3>1. NextCursor(rows, limit) = None
      BY <2>2 DEF NextCursor
    <3>2. Len(items) = Len(rows)
      BY <1>4, <1>6, <2>2
    <3>3. QED
      BY <3>1, <3>2
  <2>3. QED
    BY <2>1, <2>2
<1>10. QED
  BY <1>4, <1>5, <1>6, <1>7, <1>8, <1>9 DEF rows, items, IsPage

LEMMA Opened ==
    ASSUME StoredOK, NEW d \in Documents, stored[d] # None, NEW key \in Keys(stored[d]),
           NEW limit \in PageSizes, OpenPages(d, key, limit)
    PROVE  PagesInv'
<1> DEFINE t == stored[d]
           page == ChildrenPage(d, key, limit, None)
           rows == After(t, key, None)
<1>1. t \in Encodable /\ limit \in Nat \ {0}
  BY LimitsAssumption DEF StoredOK
<1>2. page = [items |-> FirstOf(limit, rows), next |-> NextCursor(rows, limit)]
  BY DEF ChildrenPage, Resolves
<1>3. pages' = [doc |-> d, key |-> key, limit |-> limit, items |-> page.items,
                next |-> page.next, trees |-> {t}]
  BY DEF OpenPages
<1> DEFINE items == FirstOf(limit, rows)
           next == NextCursor(rows, limit)
<1>4. /\ pages'.doc = d /\ pages'.key = key /\ pages'.limit = limit /\ pages'.trees = {t}
      /\ pages'.items = items /\ pages'.next = next
      /\ pages' = [doc |-> pages'.doc, key |-> pages'.key, limit |-> pages'.limit,
                   items |-> pages'.items, next |-> pages'.next, trees |-> pages'.trees]
  <2> HIDE DEF items, next, t, page
  <2>1. pages' = [doc |-> d, key |-> key, limit |-> limit, items |-> items, next |-> next, trees |-> {t}]
    BY <1>2, <1>3 DEF items, next
  <2>2. QED
    BY <2>1
<1>5. rows = Children(t, key)
  BY DEF After
<1>6. /\ rows \in Seq(AllNodes)
      /\ \A i, j \in 1..Len(rows) : i < j => Before(Position(rows[i]), Position(rows[j]))
      /\ items \in Seq(AllNodes) /\ Len(items) <= Len(rows)
      /\ \A i \in 1..Len(items) : items[i] = rows[i]
      /\ next = None => Len(items) = Len(rows)
      /\ next # None => Len(items) # 0 /\ next = Position(items[Len(items)])
  BY <1>1, PageIs DEF IsPage
<1> HIDE DEF rows, items, next, t
<1>7. Len(items) \in Nat /\ Len(rows) \in Nat
  BY <1>6
<1>8. \A i, j \in 1..Len(items) : i < j => Before(Position(items[i]), Position(items[j]))
  BY <1>6, <1>7
<1>9. key \in Keys(t)
  BY DEF t
<1>10. \A u : {t} = {u} => u = t
  OBVIOUS
<1>11. QED
  BY <1>1, <1>4, <1>5, <1>6, <1>7, <1>8, <1>9, <1>10 DEF PagesInv

LEMMA Continued ==
    ASSUME StoredOK, PagesInv, NextPage
    PROVE  PagesInv'
<1> DEFINE d == pages.doc
           key == pages.key
           limit == pages.limit
           cursor == pages.next
           old == pages.items
           n == Len(old)
           page == ChildrenPage(d, key, limit, cursor)
           items == page.items
<1>1. pages # None /\ cursor # None
  BY DEF NextPage
<1>2. /\ d \in Documents /\ limit \in Nat \ {0} /\ pages.trees # {}
      /\ old \in Seq(AllNodes) /\ n \in Nat /\ n # 0
      /\ \A i, j \in 1..n : i < j => Before(Position(old[i]), Position(old[j]))
      /\ cursor = Position(old[n]) /\ old[n] \in AllNodes
  BY <1>1 DEF PagesInv
<1>3. \A t : pages.trees = {t} =>
          /\ t \in Encodable /\ key \in Keys(t)
          /\ n <= Len(Children(t, key)) /\ \A i \in 1..n : old[i] = Children(t, key)[i]
  BY <1>1 DEF PagesInv
<1> DEFINE new == [pages EXCEPT !.items = old \o items, !.next = page.next,
                               !.trees = @ \cup {stored[d]}]
<1>4. pages' = new
  BY DEF NextPage
<1>5. /\ pages'.doc = d /\ pages'.key = key /\ pages'.limit = limit
      /\ pages'.items = old \o items /\ pages'.next = page.next
      /\ pages'.trees = pages.trees \cup {stored[d]}
      /\ pages' = [doc |-> pages'.doc, key |-> pages'.key, limit |-> pages'.limit,
                   items |-> pages'.items, next |-> pages'.next, trees |-> pages'.trees]
  <2>1. pages = [doc |-> d, key |-> key, limit |-> limit, items |-> old, next |-> cursor,
                 trees |-> pages.trees]
    BY <1>1 DEF PagesInv
  <2> DEFINE trees == pages.trees
  <2>0. pages = [doc |-> d, key |-> key, limit |-> limit, items |-> old, next |-> cursor, trees |-> trees]
    BY <2>1
  <2> DEFINE both == old \o items
             next == page.next
             more == trees \cup {stored[d]}
  <2>a. pages' = [pages EXCEPT !.items = both, !.next = next, !.trees = more]
    BY <1>4
  <2> HIDE DEF d, key, limit, cursor, old, page, items, trees, both, next, more
  <2>2. pages' = [doc |-> d, key |-> key, limit |-> limit, items |-> old \o items, next |-> page.next,
                  trees |-> pages.trees \cup {stored[d]}]
    <3>1. pages' = [doc |-> d, key |-> key, limit |-> limit, items |-> both, next |-> next, trees |-> more]
      BY <2>0, <2>a
    <3>2. QED
      BY <3>1 DEF both, next, more, trees
  <2>3. QED
    BY <2>2
\* The trees are one only if the node still resolves.
<1>6. ASSUME NEW t, pages'.trees = {t}
      PROVE  pages.trees = {t} /\ stored[d] = t /\ t \in Encodable /\ Resolves(d, key)
  <2>1. pages.trees = {t} /\ stored[d] = t
    BY <1>2, <1>5, <1>6
  <2>2. t \in Encodable /\ key \in Keys(t)
    BY <1>3, <2>1
  <2>3. t # None
    BY <2>2, PayloadsAssumption DEF Encodable
  <2>4. QED
    BY <2>1, <2>2, <2>3 DEF Resolves
<1>7. CASE ~Resolves(d, key)
  <2>1. page = EmptyPage
    BY <1>7 DEF ChildrenPage
  <2>2. items = <<>> /\ page.next = None
    BY <2>1 DEF EmptyPage
  <2> HIDE DEF items, page, d, key, limit, old, cursor
  <2>3. old \o items = old
    BY <1>2, <2>2
  <2>4. pages'.items = old /\ pages'.next = None
    BY <1>5, <2>2, <2>3
  <2>5. ~ \E t : pages'.trees = {t}
    BY <1>6, <1>7
  <2>6. QED
    BY <1>2, <1>5, <2>4, <2>5 DEF PagesInv, n
<1>8. CASE Resolves(d, key)
  <2> DEFINE t == stored[d]
             rows == After(t, key, cursor)
             next == NextCursor(rows, limit)
             first == FirstOf(limit, rows)
             m == Len(first)
  <2>1. t \in Encodable
    BY <1>2, <1>8 DEF StoredOK, Resolves
  <2>2. page = [items |-> first, next |-> next]
    BY <1>8 DEF ChildrenPage
  <2>3. items = first /\ page.next = next
    BY <2>2
  <2>4. /\ rows \in Seq(AllNodes)
        /\ \A i, j \in 1..Len(rows) : i < j => Before(Position(rows[i]), Position(rows[j]))
        /\ \A i \in 1..Len(rows) : cursor # None => Before(cursor, Position(rows[i]))
        /\ first \in Seq(AllNodes) /\ m <= Len(rows)
        /\ \A i \in 1..m : first[i] = rows[i]
        /\ next = None => m = Len(rows)
        /\ next # None => m # 0 /\ next = Position(first[m])
    <3>1. \E c \in AllNodes : cursor = Position(c)
      BY <1>2
    <3>2. limit \in Nat \ {0}
      BY <1>2
    <3> HIDE DEF cursor, limit, key, t
    <3>3. IsPage(FirstOf(limit, After(t, key, cursor)), NextCursor(After(t, key, cursor), limit),
                 After(t, key, cursor), cursor)
      BY <2>1, <3>1, <3>2, PageIs
    <3> HIDE DEF rows, next, first
    <3>4. IsPage(first, next, rows, cursor)
      BY <3>3 DEF rows, next, first
    <3>5. QED
      BY <3>4 DEF IsPage
  <2>5. ASSUME n <= Len(Children(t, key)), \A i \in 1..n : old[i] = Children(t, key)[i]
        PROVE  Follows(rows, Children(t, key), n)
    <3>1. n \in 1..Len(Children(t, key)) /\ cursor = Position(Children(t, key)[n])
      <4>1. Len(Children(t, key)) \in Nat
        BY <2>1, InOrderLists DEF Siblings, Children
      <4>2. n \in 1..n
        BY <1>2
      <4>3. QED
        BY <1>2, <2>5, <4>1, <4>2
    <3>2. n \in Nat
      BY <1>2
    <3> HIDE DEF cursor, key, t, n
    <3>3. QED
      BY <2>1, <3>1, <3>2, PageContinues
  <2> HIDE DEF t, rows, next, first, d, key, limit, cursor, old, page, items
  <2>6. m \in Nat /\ Len(rows) \in Nat
    BY <2>4
  <2> DEFINE both == old \o first
  <2>7. /\ both \in Seq(AllNodes) /\ Len(both) = n + m
        /\ \A i \in 1..n : both[i] = old[i]
        /\ \A i \in 1..m : both[n + i] = first[i]
    BY <1>2, <2>4
  <2> HIDE DEF both, m, n
  <2>8. ASSUME NEW i \in 1..(n + m), NEW j \in 1..(n + m), i < j
        PROVE  Before(Position(both[i]), Position(both[j]))
    <3>1. CASE j <= n
      <4>1. i \in 1..n /\ j \in 1..n
        BY <1>2, <2>6, <2>8, <3>1
      <4>2. both[i] = old[i] /\ both[j] = old[j]
        BY <2>7, <4>1
      <4>3. QED
        BY <1>2, <2>8, <4>1, <4>2
    <3>2. CASE i > n
      <4>0. n \in Nat /\ m \in Nat /\ Len(rows) \in Nat /\ m <= Len(rows)
        BY <1>2, <2>4, <2>6
      <4>1. /\ i - n \in 1..m /\ j - n \in 1..m /\ i - n < j - n
            /\ n + (i - n) = i /\ n + (j - n) = j
            /\ i - n \in 1..Len(rows) /\ j - n \in 1..Len(rows)
        BY <2>8, <3>2, <4>0
      <4>2. both[i] = rows[i - n] /\ both[j] = rows[j - n]
        BY <2>4, <2>7, <4>1
      <4>3. QED
        BY <2>4, <4>1, <4>2
    <3>3. CASE i <= n /\ j > n
      <4>1. /\ j - n \in 1..m /\ n + (j - n) = j /\ j - n \in 1..Len(rows) /\ i \in 1..n /\ n \in 1..n
        BY <1>2, <2>4, <2>6, <2>8, <3>3
      <4>2. both[i] = old[i] /\ both[j] = rows[j - n]
        BY <2>4, <2>7, <4>1
      <4>3. Before(Position(old[n]), Position(rows[j - n]))
        BY <1>1, <1>2, <2>4, <4>1
      <4>4. i = n \/ Before(Position(old[i]), Position(old[n]))
        <5>1. n \in Nat /\ (i = n \/ i < n)
          BY <1>2, <4>1
        <5>2. ASSUME i < n PROVE Before(Position(old[i]), Position(old[n]))
          BY <1>2, <4>1, <5>2
        <5>3. QED
          BY <5>1, <5>2
      <4>5. old[i] \in AllNodes /\ rows[j - n] \in AllNodes /\ old[n] \in AllNodes
        BY <1>2, <2>4, <4>1 DEF n
      <4>6. QED
        BY <4>2, <4>3, <4>4, <4>5, PositionsOrder
    <3>4. QED
      BY <1>2, <2>6, <3>1, <3>2, <3>3
  <2>9. next # None => n + m # 0 /\ next = Position(both[n + m])
    <3>1. m # 0 => m \in 1..m
      BY <2>6
    <3>2. QED
      BY <1>2, <2>4, <2>6, <2>7, <3>1
  <2>10. ASSUME NEW u, pages'.trees = {u}
         PROVE  /\ u \in Encodable /\ key \in Keys(u)
                /\ n + m <= Len(Children(u, key))
                /\ \A i \in 1..(n + m) : both[i] = Children(u, key)[i]
                /\ next = None => n + m = Len(Children(u, key))
    <3>1. pages.trees = {u} /\ u = t /\ u \in Encodable /\ key \in Keys(u)
      BY <1>3, <1>6, <2>10 DEF t, key
    <3> DEFINE all == Children(u, key)
    <3>2. n <= Len(all) /\ \A i \in 1..n : old[i] = all[i]
      BY <1>3, <3>1
    <3>3. Len(rows) = Len(all) - n /\ \A i \in 1..Len(rows) : rows[i] = all[n + i]
      BY <2>5, <3>1, <3>2 DEF Follows
    <3>4. Len(all) \in Nat
      BY <3>1, InOrderLists DEF Siblings, Children
    <3> HIDE DEF all
    <3>5. ASSUME NEW i \in 1..(n + m) PROVE both[i] = all[i]
      <4>1. CASE i <= n
        BY <1>2, <2>6, <2>7, <3>2, <4>1
      <4>2. CASE i > n
        <5>1. i - n \in 1..m /\ n + (i - n) = i /\ i - n \in 1..Len(rows)
          BY <1>2, <2>4, <2>6, <4>2
        <5>2. QED
          BY <2>4, <2>7, <3>3, <5>1
      <4>3. QED
        BY <1>2, <2>6, <4>1, <4>2
    <3>6. n + m <= Len(all) /\ (next = None => n + m = Len(all))
      BY <1>2, <2>4, <2>6, <3>3, <3>4
    <3>7. QED
      BY <3>1, <3>5, <3>6 DEF all
  <2>11. pages'.items = both /\ pages'.next = next /\ pages'.key = key /\ Len(both) = n + m
    BY <1>5, <2>3, <2>7 DEF both
  <2>12. pages'.trees # {}
    BY <1>2, <1>5
  <2>13. QED
    BY <1>2, <1>5, <2>7, <2>8, <2>9, <2>10, <2>11, <2>12 DEF PagesInv
<1>9. QED
  BY <1>7, <1>8

\* The trees stored are trees, and a traversal is as it should be, after every
\* step.
LEMMA ReadsInvariant == Spec => [](StoredOK /\ PagesInv)
<1>1. Init => StoredOK /\ PagesInv
  BY DEF Init, StoredOK, PagesInv
<1>2. ASSUME StoredOK, PagesInv, [Next]_vars PROVE StoredOK' /\ PagesInv'
  <2>1. ASSUME Write PROVE StoredOK' /\ PagesInv'
    <3>1. PICK d \in Documents :
              DropDocument(d) \/ CreateDocument(d) \/ \E t \in Payloads : StoreDocument(d, t)
      BY <2>1 DEF Write
    <3>2. pages' = pages
      BY <3>1 DEF DropDocument, CreateDocument, StoreDocument
    <3>3. StoredOK'
      BY <1>2, <3>1 DEF DropDocument, CreateDocument, StoreDocument, StoredOK
    <3>4. QED
      BY <1>2, <3>2, <3>3 DEF PagesInv
  <2>2. ASSUME Read PROVE StoredOK' /\ PagesInv'
    <3>1. stored' = stored
      <4>1. ASSUME NEW n, NEW failed, Call(n, failed) PROVE stored' = stored
        BY <4>1 DEF Call
      <4>2. ASSUME NEW d, NEW key, NEW limit, OpenPages(d, key, limit) PROVE stored' = stored
        BY <4>1, <4>2 DEF OpenPages
      <4>3. ASSUME NEW d, NEW key, NEW depth, NEW limit, ReadSubtree(d, key, depth, limit)
            PROVE  stored' = stored
        BY <4>1, <4>3 DEF ReadSubtree
      <4>4. ASSUME NEW d, NEW offset, ReadContaining(d, offset) PROVE stored' = stored
        BY <4>1, <4>4 DEF ReadContaining
      <4>5. ASSUME NEW lo, NEW hi, NEW limit, ReadSearch(lo, hi, limit) PROVE stored' = stored
        BY <4>1, <4>5 DEF ReadSearch
      <4>6. ASSUME NextPage PROVE stored' = stored
        BY <4>1, <4>6 DEF NextPage
      <4>7. QED
        BY <2>2, <4>2, <4>3, <4>4, <4>5, <4>6 DEF Read
    <3>2. PagesInv'
      <4>1. ASSUME NEW d \in Documents, stored[d] # None, NEW key \in Keys(stored[d]),
                   NEW limit \in PageSizes, OpenPages(d, key, limit)
            PROVE  PagesInv'
        BY <1>2, <4>1, Opened
      <4>2. CASE NextPage
        BY <1>2, <4>2, Continued
      <4>3. CASE pages' = None \/ pages' = pages
        BY <1>2, <4>3 DEF PagesInv
      <4>4. QED
        BY <2>2, <4>1, <4>2, <4>3 DEF Read, ReadSubtree, ReadContaining, ReadSearch
    <3>3. QED
      BY <1>2, <3>1, <3>2 DEF StoredOK
  <2>3. CASE stored' = stored /\ (pages' = None \/ pages' = pages)
    BY <1>2, <2>3 DEF StoredOK, PagesInv
  <2>4. QED
    BY <1>2, <2>1, <2>2, <2>3 DEF Next, vars, Choose, Decide, Propose, Normalize
<1>3. QED
  BY <1>1, <1>2, PTL DEF Spec

\* Whoever follows next_cursor gets no position twice, whatever is stored in
\* between; and the children of a tree that stays, all of them and in order.
THEOREM PagesFitTogether == Spec => []PagesAreWhole
<1>1. ASSUME PagesInv PROVE PagesAreWhole
  <2> SUFFICES ASSUME pages # None PROVE
          /\ \A i \in DOMAIN pages.items, j \in DOMAIN pages.items :
                i < j => Before(Position(pages.items[i]), Position(pages.items[j]))
          /\ \A t \in pages.trees \ {None} : pages.trees = {t} =>
                LET all == Children(t, pages.key)
                IN  /\ pages.items = FirstOf(Len(pages.items), all)
                    /\ pages.next = None => pages.items = all
    BY DEF PagesAreWhole
  <2> DEFINE items == pages.items
             n == Len(items)
  <2>1. /\ items \in Seq(AllNodes)
        /\ \A i, j \in 1..n : i < j => Before(Position(items[i]), Position(items[j]))
    BY <1>1 DEF PagesInv
  <2>2. DOMAIN items = 1..n /\ n \in Nat
    BY <2>1
  <2>3. ASSUME NEW t, pages.trees = {t}
        PROVE  LET all == Children(t, pages.key)
               IN  /\ items = FirstOf(n, all)
                   /\ pages.next = None => items = all
    <3> DEFINE all == Children(t, pages.key)
               first == FirstOf(n, all)
    <3>1. /\ t \in Encodable
          /\ n <= Len(all) /\ \A i \in 1..n : items[i] = all[i]
          /\ pages.next = None => n = Len(all)
      BY <1>1, <2>3 DEF PagesInv
    <3>2. all \in Seq(ChildrenOf(t, pages.key))
      <4>1. Siblings(all, ChildrenOf(t, pages.key))
        BY <3>1, InOrderLists DEF Children
      <4> HIDE DEF all
      <4>2. QED
        BY <4>1, IntervalSequence DEF Siblings
    <3> HIDE DEF items, n, all
    <3>3. /\ first \in Seq(ChildrenOf(t, pages.key))
          /\ n <= Len(all) => Len(first) = n
          /\ \A i \in 1..Len(first) : first[i] = all[i]
      BY <2>2, <3>2, FirstOfIs
    <3> HIDE DEF first
    <3>4. items = first
      <4>1. Len(first) = n /\ \A i \in 1..n : items[i] = first[i]
        BY <3>1, <3>3
      <4>2. QED
        BY <2>1, <3>3, <4>1, SameSequence DEF n
    <3>5. pages.next = None => items = all
      BY <2>1, <3>1, <3>2, SameSequence DEF n
    <3>6. QED
      BY <3>4, <3>5 DEF first, all
  <2>4. QED
    BY <2>1, <2>2, <2>3
<1>2. QED
  BY <1>1, ReadsInvariant, PTL

-----------------------------------------------------------------------------
(***************************************************************************)
(* Levels of a tree                                                        *)
(***************************************************************************)

\* The recursion of WithinDepth, up to level d.
Levels(f, t, key, d) ==
    f = [i \in 0..d |-> IF i = 0 THEN {key} ELSE Grown(t, f[i - 1])]

LEMMA GrownIs ==
    ASSUME NEW t, NEW ks
    PROVE  /\ ks \subseteq Grown(t, ks)
           /\ \A n \in t : n.parent \in ks => n.key \in Grown(t, ks)
           /\ \A k \in Grown(t, ks) : k \in ks \/ \E n \in t : n.parent \in ks /\ n.key = k
BY DEF Grown

LEMMA WithinIs ==
    ASSUME NEW t, NEW key, NEW d \in Nat
    PROVE  \E f : Levels(f, t, key, d) /\ WithinDepth(t, key, d) = f[d]
<1> DEFINE V == SUBSET (Keys(t) \cup {key})
           X == 0..d
           next == [s \in V |-> Grown(t, s)]
           rank == [i \in X |-> i]
           prev == [i \in X |-> IF i = 0 THEN 0 ELSE i - 1]
           first == [i \in X |-> {key}]
           step == [i \in X |-> next]
<1>1. next \in [V -> V] /\ \A s \in V : next[s] = Grown(t, s)
  <2>1. \A s \in V : Grown(t, s) \in V
    BY DEF Grown, Keys
  <2>2. QED
    BY <2>1
<1>2. RecursionOn(X, d, rank, prev, V, first, step)
  <2>1. rank \in [X -> 0..d] /\ prev \in [X -> X] /\ first \in [X -> V]
    OBVIOUS
  <2>2. step \in [X -> [V -> V]]
    BY <1>1
  <2>3. \A x \in X : rank[x] # 0 => rank[prev[x]] < rank[x]
    OBVIOUS
  <2> HIDE DEF rank, prev, first, step, next, X, V
  <2>4. QED
    BY <2>1, <2>2, <2>3 DEF RecursionOn
<1>3. PICK g \in [X -> V] : \A x \in X :
              g[x] = IF rank[x] = 0 THEN first[x] ELSE step[x][g[prev[x]]]
  <2> HIDE DEF rank, prev, first, step, next, X, V
  <2>1. QED
    BY <1>2, BoundedRecursion
<1>4. Levels(g, t, key, d)
  <2> DEFINE val(i) == IF i = 0 THEN {key} ELSE Grown(t, g[i - 1])
  <2>1. \A x \in X : g[x] = val(x)
    <3> HIDE DEF V, next
    <3>1. \A x \in X : x # 0 => g[prev[x]] \in V /\ prev[x] = x - 1 /\ prev[x] \in X
      BY <1>3
    <3> HIDE DEF prev
    <3>2. \A x \in X : rank[x] = x /\ first[x] = {key} /\ step[x] = next
      OBVIOUS
    <3> HIDE DEF rank, first, step, X
    <3>3. QED
      BY <1>1, <1>3, <3>1, <3>2
  <2> HIDE DEF val, V
  <2>2. g = [i \in X |-> val(i)]
    BY <1>3, <2>1
  <2>3. QED
    BY <2>2 DEF Levels, val
<1>5. QED
  <2> DEFINE level == CHOOSE f : f = [i \in 0..d |-> IF i = 0 THEN {key} ELSE Grown(t, f[i - 1])]
  <2>1. WithinDepth(t, key, d) = level[d]
    BY DEF WithinDepth
  <2>2. level = [i \in 0..d |-> IF i = 0 THEN {key} ELSE Grown(t, level[i - 1])]
    BY <1>4 DEF Levels
  <2> HIDE DEF level
  <2>3. Levels(level, t, key, d)
    BY <2>2 DEF Levels
  <2>4. QED
    BY <2>1, <2>3

\* One level from the next.
LEMMA LevelsAre ==
    ASSUME NEW t, NEW key, NEW d \in Nat, NEW f, Levels(f, t, key, d)
    PROVE  /\ f[0] = {key}
           /\ \A i \in 0..(d - 1) : f[i + 1] = Grown(t, f[i]) /\ f[i] \subseteq f[i + 1]
<1>1. f[0] = {key}
  BY DEF Levels
<1>2. ASSUME NEW i \in 0..(d - 1) PROVE f[i + 1] = Grown(t, f[i]) /\ f[i] \subseteq f[i + 1]
  <2>1. i + 1 \in 0..d /\ i + 1 # 0 /\ (i + 1) - 1 = i
    OBVIOUS
  <2>2. f[i + 1] = Grown(t, f[i])
    BY <2>1 DEF Levels
  <2>3. QED
    BY <2>2, GrownIs
<1>3. QED
  BY <1>1, <1>2

LEMMA LevelsGrow ==
    ASSUME NEW t, NEW key, NEW d \in Nat, NEW f, Levels(f, t, key, d)
    PROVE  \A i \in 0..d : f[i] \subseteq f[d] /\ key \in f[i]
<1> DEFINE G == {i \in Nat : i <= d => f[d - i] \subseteq f[d] /\ key \in f[i]}
<1>1. 0 \in G
  BY LevelsAre
<1>2. ASSUME NEW i \in Nat, i \in G PROVE i + 1 \in G
  <2> SUFFICES ASSUME i + 1 <= d PROVE f[d - (i + 1)] \subseteq f[d] /\ key \in f[i + 1]
    OBVIOUS
  <2>1. f[d - i] \subseteq f[d] /\ key \in f[i]
    BY <1>2
  <2>2. f[d - (i + 1)] \subseteq f[d - i] /\ f[i] \subseteq f[i + 1]
    <3>1. d - (i + 1) \in 0..(d - 1) /\ (d - (i + 1)) + 1 = d - i /\ i \in 0..(d - 1)
      OBVIOUS
    <3>2. \A j \in 0..(d - 1) : f[j] \subseteq f[j + 1]
      BY LevelsAre
    <3>3. f[d - (i + 1)] \subseteq f[(d - (i + 1)) + 1] /\ f[i] \subseteq f[i + 1]
      BY <3>1, <3>2
    <3>4. QED
      BY <3>1, <3>3
  <2>3. QED
    BY <2>1, <2>2
<1>3. Nat \subseteq G
  <2> HIDE DEF G
  <2>1. QED
    BY <1>1, <1>2, NatSetInduction
<1>4. ASSUME NEW i \in 0..d PROVE f[i] \subseteq f[d] /\ key \in f[i]
  <2>1. d - i \in G /\ i \in G /\ d - (d - i) = i /\ d - i <= d
    BY <1>3
  <2>2. QED
    BY <2>1
<1>5. QED
  BY <1>4

\* A set of keys no child leads out of.
Closed(t, ks) == \A n \in t : n.parent \in ks => n.key \in ks

\* What is within a number of levels is in every closed set with the node.
LEMMA LevelsStayIn ==
    ASSUME NEW t, NEW key, NEW d \in Nat, NEW f, Levels(f, t, key, d),
           NEW ks, key \in ks, Closed(t, ks)
    PROVE  \A i \in 0..d : f[i] \subseteq ks
<1> DEFINE G == {i \in Nat : i <= d => f[i] \subseteq ks}
<1>0. f[0] = {key} /\ \A i \in 0..(d - 1) : f[i + 1] = Grown(t, f[i])
  <2>1. /\ f[0] = {key}
        /\ \A i \in 0..(d - 1) : f[i + 1] = Grown(t, f[i]) /\ f[i] \subseteq f[i + 1]
    BY LevelsAre
  <2>2. QED
    BY <2>1
<1>1. 0 \in G
  BY <1>0
<1>2. ASSUME NEW i \in Nat, i \in G PROVE i + 1 \in G
  <2> SUFFICES ASSUME i + 1 <= d PROVE f[i + 1] \subseteq ks
    OBVIOUS
  <2>1. f[i + 1] = Grown(t, f[i])
    <3>1. i \in 0..(d - 1)
      OBVIOUS
    <3>2. QED
      BY <1>0, <3>1
  <2>2. QED
    BY <1>2, <2>1, GrownIs DEF Closed
<1>3. Nat \subseteq G
  <2> HIDE DEF G
  <2>1. QED
    BY <1>1, <1>2, NatSetInduction
<1>4. QED
  BY <1>3

\* As many levels as there are nodes reach everything that can be reached.
LEMMA ReachIs ==
    ASSUME NEW t, IsFiniteSet(t), NEW key \in Keys(t)
    PROVE  /\ key \in Reach(t, key) /\ Reach(t, key) \subseteq Keys(t)
           /\ Closed(t, Reach(t, key))
           /\ \A ks : key \in ks /\ Closed(t, ks) => Reach(t, key) \subseteq ks
<1> DEFINE N == Cardinality(t)
           R == Reach(t, key)
<1>1. IsFiniteSet(Keys(t)) /\ Cardinality(Keys(t)) <= N /\ N \in Nat
  <2>1. IsFiniteSet({n.key : n \in t}) /\ Cardinality({n.key : n \in t}) <= N
    <3> DEFINE g == [n \in t |-> n.key]
    <3>1. g \in Surjection(t, Keys(t))
      BY DEF Surjection, Keys
    <3> HIDE DEF g
    <3>2. QED
      BY <3>1, FS_Surjection DEF Keys
  <2>2. QED
    BY <2>1, FS_CardinalityType DEF Keys
<1> HIDE DEF N
<1>2. PICK f : Levels(f, t, key, N) /\ R = f[N]
  BY <1>1, WithinIs DEF Reach, N
<1>3. \A i \in 0..N : f[i] \subseteq R /\ key \in f[i]
  <2>1. N \in Nat /\ Levels(f, t, key, N)
    BY <1>1, <1>2
  <2> HIDE DEF R
  <2>2. \A i \in 0..N : f[i] \subseteq f[N] /\ key \in f[i]
    BY <2>1, LevelsGrow
  <2>3. QED
    BY <1>2, <2>2
<1>4. \A ks : key \in ks /\ Closed(t, ks) => R \subseteq ks
  <2> SUFFICES ASSUME NEW ks, key \in ks, Closed(t, ks) PROVE R \subseteq ks
    OBVIOUS
  <2>1. N \in 0..N
    BY <1>1
  <2>2. QED
    BY <1>1, <1>2, <2>1, LevelsStayIn
<1>5. R \subseteq Keys(t)
  <2>1. Closed(t, Keys(t))
    BY DEF Closed, Keys
  <2>2. QED
    BY <1>4, <2>1
<1>6. Closed(t, R)
  <2> DEFINE G == {i \in Nat : i <= N => Closed(t, f[i]) \/ Cardinality(f[i]) >= i + 1}
  <2>0. \A i \in 0..N : IsFiniteSet(f[i]) /\ Cardinality(f[i]) \in Nat
    BY <1>1, <1>3, <1>5, FS_Subset, FS_CardinalityType
  <2>1. 0 \in G
    <3>1. f[0] = {key}
      BY <1>1, <1>2, LevelsAre
    <3>2. Cardinality({key}) = 1
      BY FS_Singleton
    <3>3. QED
      BY <3>1, <3>2
  <2>2. ASSUME NEW i \in Nat, i \in G PROVE i + 1 \in G
    <3> SUFFICES ASSUME i + 1 <= N, ~Closed(t, f[i + 1])
                 PROVE  Cardinality(f[i + 1]) >= (i + 1) + 1
      OBVIOUS
    <3>0. i \in 0..(N - 1) /\ i \in 0..N /\ i + 1 \in 0..N
      BY <1>1
    <3>1. f[i + 1] = Grown(t, f[i]) /\ f[i] \subseteq f[i + 1]
      BY <1>1, <1>2, <3>0, LevelsAre
    <3>2. f[i] # f[i + 1] /\ ~Closed(t, f[i])
      <4>1. f[i] # f[i + 1]
        <5> SUFFICES ASSUME f[i] = f[i + 1] PROVE FALSE
          OBVIOUS
        <5>1. Grown(t, f[i + 1]) = f[i + 1]
          BY <3>1
        <5>2. QED
          BY <5>1, GrownIs DEF Closed
      <4>2. Closed(t, f[i]) => f[i + 1] = f[i]
        BY <3>1, GrownIs DEF Closed
      <4>3. QED
        BY <4>1, <4>2
    <3>3. Cardinality(f[i]) >= i + 1
      BY <2>2, <3>0, <3>2
    <3>4. IsFiniteSet(f[i + 1]) /\ f[i] \in SUBSET f[i + 1]
      BY <2>0, <3>0, <3>1
    <3>5. Cardinality(f[i]) <= Cardinality(f[i + 1]) /\ Cardinality(f[i]) # Cardinality(f[i + 1])
      BY <3>2, <3>4, FS_Subset
    <3>6. Cardinality(f[i]) \in Nat /\ Cardinality(f[i + 1]) \in Nat
      BY <2>0, <3>0
    <3>7. QED
      BY <3>3, <3>5, <3>6
  <2>3. Nat \subseteq G
    <3> HIDE DEF G
    <3>1. QED
      BY <2>1, <2>2, NatSetInduction
  <2>4. Closed(t, f[N]) \/ Cardinality(f[N]) >= N + 1
    <3>1. N \in G
      BY <1>1, <2>3
    <3>2. QED
      BY <1>1, <3>1
  <2>5. Cardinality(f[N]) <= Cardinality(Keys(t)) /\ Cardinality(Keys(t)) \in Nat
    BY <1>1, <1>2, <1>5, FS_Subset, FS_CardinalityType
  <2>6. N \in 0..N
    BY <1>1
  <2>7. QED
    BY <1>1, <1>2, <2>0, <2>4, <2>5, <2>6
<1>7. key \in R
  <2>1. N \in 0..N
    BY <1>1
  <2>2. QED
    BY <1>2, <1>3, <2>1
<1>8. QED
  BY <1>4, <1>5, <1>6, <1>7

\* What the codec lets through is finite, has no key twice, and the nodes have
\* heights that grow by one from a node to its children.
LEMMA TreesAre ==
    ASSUME NEW t \in Encodable
    PROVE  /\ IsFiniteSet(t) /\ t \subseteq AllNodes
           /\ \A m, n \in t : m.key = n.key => m = n
           /\ \E rank \in [Keys(t) -> Nat] : \A n \in t : n.parent \in Keys(t) =>
                 rank[n.key] = rank[n.parent] + 1
<1>1. IsFiniteSet(t) /\ t \subseteq AllNodes /\ IsTree(t)
  BY PayloadsAssumption DEF Encodable, AllNodes
<1>2. \A m, n \in t : m.key = n.key => m = n
  <2> DEFINE g == [n \in t |-> n.key]
  <2>1. CASE t = {}
    BY <2>1
  <2>2. CASE t # {}
    <3>1. Cardinality(Keys(t)) = Cardinality(t)
      BY <1>1, <2>2 DEF IsTree
    <3>2. g \in Surjection(t, Keys(t))
      BY DEF Surjection, Keys
    <3> HIDE DEF g
    <3>3. g \in Injection(t, Keys(t))
      BY <1>1, <3>1, <3>2, FS_Surjection
    <3>4. \A m, n \in t : g[m] = g[n] => m = n
      BY <3>3 DEF Injection, IsInjective
    <3>5. QED
      BY <3>4 DEF g
  <2>3. QED
    BY <2>1, <2>2
<1>3. \E rank \in [Keys(t) -> Nat] : \A n \in t : n.parent \in Keys(t) =>
                 rank[n.key] = rank[n.parent] + 1
  <2>1. CASE t = {}
    <3>1. Keys(t) = {} /\ [k \in {} |-> 0] \in [Keys(t) -> Nat]
      BY <2>1 DEF Keys
    <3>2. QED
      BY <2>1, <3>1
  <2>2. CASE t # {}
    <3>1. PICK root \in t : /\ {n \in t : n.parent = None} = {root}
                            /\ Reach(t, root.key) = Keys(t)
      BY <1>1, <2>2 DEF IsTree
    <3> DEFINE N == Cardinality(t)
    <3>2. N \in Nat
      BY <1>1, FS_CardinalityType
    <3> HIDE DEF N
    <3>3. PICK f : Levels(f, t, root.key, N) /\ Keys(t) = f[N]
      BY <3>1, <3>2, WithinIs DEF Reach, N
    <3> DEFINE at(k) == {i \in 0..N : k \in f[i]}
               rank == [k \in Keys(t) |-> CHOOSE i \in at(k) : \A j \in at(k) : i <= j]
    <3>4. ASSUME NEW k \in Keys(t)
          PROVE  /\ rank[k] \in Nat /\ rank[k] \in 0..N /\ k \in f[rank[k]]
                 /\ \A j \in 0..N : k \in f[j] => rank[k] <= j
      <4>1. at(k) \in SUBSET Nat /\ at(k) # {}
        <5>1. N \in 0..N
          BY <3>2
        <5>2. QED
          BY <3>3, <5>1
      <4> DEFINE low(i) == \A j \in at(k) : i <= j
      <4>2. \E i \in at(k) : low(i)
        <5> HIDE DEF at
        <5>1. QED
          BY <4>1, LeastNatural
      <4>3. rank[k] = CHOOSE i \in at(k) : low(i)
        OBVIOUS
      <4> HIDE DEF low, at, rank
      <4>4. rank[k] \in at(k) /\ low(rank[k])
        BY <4>2, <4>3
      <4>5. QED
        BY <4>1, <4>4 DEF low, at
    <3> HIDE DEF at
    <3>5. rank \in [Keys(t) -> Nat]
      <4>1. \A k \in Keys(t) : rank[k] \in Nat
        BY <3>4
      <4>2. rank = [k \in Keys(t) |-> rank[k]]
        OBVIOUS
      <4> HIDE DEF rank
      <4>3. QED
        BY <4>1, <4>2
    <3> HIDE DEF rank
    <3>6. ASSUME NEW n \in t, n.parent \in Keys(t)
          PROVE  rank[n.key] = rank[n.parent] + 1
      <4> DEFINE k == n.key
                 p == n.parent
      <4>1. k \in Keys(t) /\ p \in Keys(t)
        BY <3>6 DEF Keys
      <4>2. /\ rank[k] \in 0..N /\ k \in f[rank[k]] /\ rank[p] \in 0..N /\ p \in f[rank[p]]
            /\ \A j \in 0..N : k \in f[j] => rank[k] <= j
            /\ \A j \in 0..N : p \in f[j] => rank[p] <= j
        BY <3>4, <4>1
      <4>3. f[0] = {root.key} /\ \A i \in 0..(N - 1) : f[i + 1] = Grown(t, f[i])
        <5> DEFINE r == root.key
        <5>1. N \in Nat /\ Levels(f, t, r, N)
          BY <3>2, <3>3
        <5> HIDE DEF k, p, r
        <5>2. /\ f[0] = {r}
              /\ \A i \in 0..(N - 1) : f[i + 1] = Grown(t, f[i]) /\ f[i] \subseteq f[i + 1]
          BY <5>1, LevelsAre
        <5>3. QED
          BY <5>2 DEF r
      <4>4. rank[k] # 0
        <5> SUFFICES ASSUME rank[k] = 0 PROVE FALSE
          OBVIOUS
        <5>1. k = root.key
          BY <4>2, <4>3
        <5>2. n = root
          BY <1>2, <5>1
        <5>3. p = None
          BY <3>1, <5>2
        <5>4. PICK m \in t : m.key = p
          BY <4>1 DEF Keys
        <5>5. m.key # None
          BY <1>1, NodesAreTyped
        <5>6. QED
          BY <5>3, <5>4, <5>5
      <4> DEFINE i == rank[k] - 1
      <4>5. i \in 0..(N - 1) /\ i + 1 = rank[k] /\ i \in 0..N
        BY <3>2, <4>2, <4>4
      <4>6. k \in Grown(t, f[i]) /\ k \notin f[i]
        <5> HIDE DEF i, k, p
        <5>1. k \in f[i + 1] /\ f[i + 1] = Grown(t, f[i])
          BY <4>2, <4>3, <4>5
        <5>2. k \in f[i] => i + 1 <= i
          BY <4>2, <4>5
        <5>3. QED
          BY <3>2, <4>5, <5>1, <5>2
      <4>7. PICK m \in t : m.parent \in f[i] /\ m.key = k
        BY <4>6, GrownIs
      <4>8. p \in f[i]
        BY <1>2, <4>7
      <4>9. rank[p] <= i
        BY <4>2, <4>5, <4>8
      <4>10. k \in f[rank[p] + 1]
        <5> HIDE DEF i, k, p
        <5>1. rank[p] \in 0..(N - 1)
          BY <3>2, <4>2, <4>5, <4>9
        <5>2. n.parent \in f[rank[p]]
          BY <4>2 DEF p
        <5>3. n.key \in Grown(t, f[rank[p]])
          BY <5>2, GrownIs
        <5>4. QED
          BY <4>3, <5>1, <5>3 DEF k
      <4>11. rank[k] <= rank[p] + 1
        <5> HIDE DEF k, p
        <5>1. rank[p] + 1 \in 0..N
          BY <3>2, <4>2, <4>5, <4>9
        <5>2. QED
          BY <4>2, <4>10, <5>1
      <4>12. QED
        <5> HIDE DEF k, p
        <5>1. rank[k] = rank[p] + 1
          BY <3>2, <4>2, <4>5, <4>9, <4>11
        <5>2. QED
          BY <5>1 DEF k, p
    <3>7. QED
      BY <3>5, <3>6
  <2>3. QED
    BY <2>1, <2>2
<1>4. QED
  BY <1>1, <1>2, <1>3

-----------------------------------------------------------------------------
(***************************************************************************)
(* Lists put one after the other                                           *)
(***************************************************************************)

\* No element is in the first n lists twice.
Apart(seqs, n) ==
    \A i, j \in 1..n : \A k \in 1..Len(seqs[i]), l \in 1..Len(seqs[j]) :
        i # j \/ k # l => seqs[i][k] # seqs[j][l]

\* flat has what the first n lists have.
Flat(flat, S, seqs, n) ==
    /\ flat \in Seq(S)
    /\ \A p \in 1..Len(flat) : \E j \in 1..n : \E l \in 1..Len(seqs[j]) : flat[p] = seqs[j][l]
    /\ \A j \in 1..n : \A l \in 1..Len(seqs[j]) : \E p \in 1..Len(flat) : flat[p] = seqs[j][l]
    /\ Apart(seqs, n) => \A p, q \in 1..Len(flat) : p # q => flat[p] # flat[q]
    /\ n # 0 => Len(seqs[1]) <= Len(flat) /\ \A p \in 1..Len(seqs[1]) : flat[p] = seqs[1][p]

LEMMA FlatStep ==
    ASSUME NEW S, NEW N \in Nat, NEW seqs \in [1..N -> Seq(S)], NEW n \in Nat \ {0}, n + 1 <= N,
           NEW flat, Flat(flat, S, seqs, n)
    PROVE  Flat(flat \o seqs[n + 1], S, seqs, n + 1)
<1> DEFINE more == seqs[n + 1]
           new == flat \o more
           a == Len(flat)
           b == Len(more)
<1>1. /\ flat \in Seq(S) /\ more \in Seq(S) /\ n + 1 \in 1..N
      /\ \A p \in 1..a : \E j \in 1..n : \E l \in 1..Len(seqs[j]) : flat[p] = seqs[j][l]
      /\ \A j \in 1..n : \A l \in 1..Len(seqs[j]) : \E p \in 1..a : flat[p] = seqs[j][l]
      /\ Apart(seqs, n) => \A p, q \in 1..a : p # q => flat[p] # flat[q]
  <2>1. n + 1 \in 1..N
    OBVIOUS
  <2>2. more \in Seq(S)
    BY <2>1
  <2>3. QED
    BY <2>1, <2>2 DEF Flat
<1> HIDE DEF more
<1>2. /\ a \in Nat /\ b \in Nat /\ new \in Seq(S) /\ Len(new) = a + b
      /\ \A p \in 1..a : new[p] = flat[p]
      /\ \A l \in 1..b : new[a + l] = more[l]
  BY <1>1
<1> HIDE DEF new, a, b
<1>3. /\ \A j \in 1..n : j \in 1..(n + 1)
      /\ n + 1 \in 1..(n + 1)
      /\ \A j \in 1..(n + 1) : j \in 1..n \/ j = n + 1
      /\ \A p \in 1..a : p \in 1..(a + b)
      /\ \A l \in 1..b : a + l \in 1..(a + b)
      /\ \A p \in 1..(a + b) : p \in 1..a \/ (p - a \in 1..b /\ a + (p - a) = p)
  BY <1>2
<1>4. \A p \in 1..(a + b) : \E j \in 1..(n + 1) : \E l \in 1..Len(seqs[j]) : new[p] = seqs[j][l]
  <2> SUFFICES ASSUME NEW p \in 1..(a + b)
               PROVE  \E j \in 1..(n + 1) : \E l \in 1..Len(seqs[j]) : new[p] = seqs[j][l]
    OBVIOUS
  <2>1. CASE p \in 1..a
    <3>1. PICK j \in 1..n : \E l \in 1..Len(seqs[j]) : flat[p] = seqs[j][l]
      BY <1>1, <2>1
    <3>2. new[p] = flat[p] /\ j \in 1..(n + 1)
      BY <1>2, <1>3, <2>1
    <3>3. QED
      BY <3>1, <3>2
  <2>2. CASE p - a \in 1..b /\ a + (p - a) = p
    <3>1. new[p] = more[p - a]
      BY <1>2, <2>2
    <3>2. p - a \in 1..Len(seqs[n + 1]) /\ new[p] = seqs[n + 1][p - a]
      BY <2>2, <3>1 DEF more, b
    <3>3. QED
      BY <1>3, <3>2
  <2>3. QED
    BY <1>3, <2>1, <2>2
<1>5. \A j \in 1..(n + 1) : \A l \in 1..Len(seqs[j]) : \E p \in 1..(a + b) : new[p] = seqs[j][l]
  <2> SUFFICES ASSUME NEW j \in 1..(n + 1), NEW l \in 1..Len(seqs[j])
               PROVE  \E p \in 1..(a + b) : new[p] = seqs[j][l]
    OBVIOUS
  <2>1. CASE j \in 1..n
    <3>1. PICK p \in 1..a : flat[p] = seqs[j][l]
      BY <1>1, <2>1
    <3>2. QED
      BY <1>2, <1>3, <3>1
  <2>2. CASE j = n + 1
    <3>1. l \in 1..b /\ seqs[j][l] = more[l]
      BY <2>2 DEF b, more
    <3>2. QED
      BY <1>2, <1>3, <3>1
  <2>3. QED
    BY <1>3, <2>1, <2>2
<1>6. ASSUME Apart(seqs, n + 1), NEW p \in 1..(a + b), NEW q \in 1..(a + b), p # q
      PROVE  new[p] # new[q]
  <2>1. Apart(seqs, n)
    BY <1>3, <1>6 DEF Apart
  <2>2. CASE p \in 1..a /\ q \in 1..a
    BY <1>1, <1>2, <1>6, <2>1, <2>2
  <2>3. ASSUME NEW x \in 1..a, NEW y \in 1..b PROVE flat[x] # more[y]
    <3>0. PICK j \in 1..n : \E l \in 1..Len(seqs[j]) : flat[x] = seqs[j][l]
      BY <1>1
    <3>1. PICK l \in 1..Len(seqs[j]) : flat[x] = seqs[j][l]
      BY <3>0
    <3>2. j # n + 1 /\ y \in 1..Len(seqs[n + 1]) /\ more[y] = seqs[n + 1][y]
      BY DEF more, b
    <3>3. QED
      BY <1>3, <1>6, <3>1, <3>2 DEF Apart
  <2>4. ASSUME NEW x \in 1..b, NEW y \in 1..b, x # y PROVE more[x] # more[y]
    BY <1>3, <1>6, <2>4 DEF Apart, more, b
  <2>5. ASSUME p - a \in 1..b, a + (p - a) = p, q - a \in 1..b, a + (q - a) = q PROVE new[p] # new[q]
    <3>1. new[p] = more[p - a] /\ new[q] = more[q - a] /\ p - a # q - a
      BY <1>2, <1>6, <2>5
    <3>2. QED
      BY <2>4, <2>5, <3>1
  <2>6. ASSUME p \in 1..a, q - a \in 1..b, a + (q - a) = q PROVE new[p] # new[q]
    <3>1. new[p] = flat[p] /\ new[q] = more[q - a]
      BY <1>2, <2>6
    <3>2. QED
      BY <2>3, <2>6, <3>1
  <2>7. ASSUME q \in 1..a, p - a \in 1..b, a + (p - a) = p PROVE new[p] # new[q]
    <3>1. new[q] = flat[q] /\ new[p] = more[p - a]
      BY <1>2, <2>7
    <3>2. QED
      BY <2>3, <2>7, <3>1
  <2>8. QED
    BY <1>3, <2>2, <2>5, <2>6, <2>7
<1>f. Len(seqs[1]) <= a + b /\ \A p \in 1..Len(seqs[1]) : new[p] = seqs[1][p]
  <2>1. Len(seqs[1]) <= a /\ \A p \in 1..Len(seqs[1]) : flat[p] = seqs[1][p]
    BY DEF Flat, a
  <2>2. seqs[1] \in Seq(S)
    OBVIOUS
  <2>3. Len(seqs[1]) \in Nat
    BY <2>2
  <2>4. \A p \in 1..Len(seqs[1]) : p \in 1..a
    BY <1>2, <2>1, <2>3
  <2>5. QED
    BY <1>2, <2>1, <2>3, <2>4
<1>7. Flat(new, S, seqs, n + 1)
  BY <1>2, <1>4, <1>5, <1>6, <1>f DEF Flat
<1>8. QED
  BY <1>7 DEF new, more

LEMMA FlattenIs ==
    ASSUME NEW S, NEW N \in Nat, NEW seqs \in [1..N -> Seq(S)]
    PROVE  Flat(FlattenSeq(seqs), S, seqs, N)
<1>1. Len(seqs) = N /\ DOMAIN seqs = 1..N
  BY IntervalSequence
<1>2. CASE N = 0
  <2>1. FlattenSeq(seqs) = seqs
    BY <1>1, <1>2 DEF FlattenSeq
  <2>2. seqs \in [1..N -> S]
    BY <1>2
  <2>3. seqs \in Seq(S) /\ Len(seqs) = 0
    BY <1>2, <2>2, IntervalSequence
  <2>4. 1..0 = {}
    OBVIOUS
  <2>5. QED
    BY <1>2, <2>1, <2>3, <2>4 DEF Flat
<1>3. CASE N # 0
  <2> DEFINE V == Seq(S)
             X == 1..N
             rank == [i \in X |-> i - 1]
             prev == [i \in X |-> IF i = 1 THEN 1 ELSE i - 1]
             step == [i \in X |-> [v \in V |-> v \o seqs[i]]]
  <2>1. RecursionOn(X, N, rank, prev, V, seqs, step)
    <3>1. rank \in [X -> 0..N] /\ prev \in [X -> X]
      OBVIOUS
    <3>2. step \in [X -> [V -> V]]
      <4>1. \A i \in X : \A v \in V : v \o seqs[i] \in V
        OBVIOUS
      <4>2. QED
        BY <4>1
    <3>3. \A x \in X : rank[x] # 0 => rank[prev[x]] < rank[x]
      <4> SUFFICES ASSUME NEW x \in X, rank[x] # 0 PROVE rank[prev[x]] < rank[x]
        OBVIOUS
      <4>1. prev[x] = x - 1 /\ prev[x] \in X
        OBVIOUS
      <4>2. QED
        BY <4>1
    <3> HIDE DEF rank, prev, step, X, V
    <3>4. QED
      BY <3>1, <3>2, <3>3 DEF RecursionOn, X, V
  <2>2. PICK g \in [X -> V] : \A x \in X :
              g[x] = IF rank[x] = 0 THEN seqs[x] ELSE step[x][g[prev[x]]]
    <3> HIDE DEF rank, prev, step, X, V
    <3>1. QED
      BY <2>1, BoundedRecursion
  <2> DEFINE Flattens(f) == f = [i \in 1..N |-> IF i = 1 THEN seqs[i] ELSE f[i - 1] \o seqs[i]]
  <2>3. Flattens(g)
    <3> DEFINE val(i) == IF i = 1 THEN seqs[i] ELSE g[i - 1] \o seqs[i]
    <3>1. ASSUME NEW x \in X PROVE g[x] = val(x)
      <4>1. CASE x = 1
        <5>1. rank[x] = 0
          BY <4>1
        <5> HIDE DEF rank, prev, step
        <5>2. g[x] = seqs[x]
          BY <2>2, <5>1
        <5>3. QED
          BY <4>1, <5>2
      <4>2. CASE x # 1
        <5>1. prev[x] = x - 1 /\ rank[x] # 0 /\ x - 1 \in X
          BY <4>2
        <5>2. g[x - 1] \in V
          BY <5>1
        <5>3. step[x][g[x - 1]] = g[x - 1] \o seqs[x]
          BY <5>2
        <5> HIDE DEF step, rank, prev
        <5>4. g[x] = step[x][g[x - 1]]
          BY <2>2, <5>1
        <5>5. QED
          BY <4>2, <5>3, <5>4
      <4>3. QED
        BY <4>1, <4>2
    <3> HIDE DEF val, V
    <3>2. g = [i \in X |-> val(i)]
      BY <3>1
    <3>3. QED
      BY <3>2 DEF val
  <2> DEFINE flatten == CHOOSE f : Flattens(f)
  <2>4. Flattens(flatten)
    <3> HIDE DEF Flattens
    <3>1. QED
      BY <2>3
  <2>5. FlattenSeq(seqs) = flatten[N]
    BY <1>1, <1>3 DEF FlattenSeq
  <2> HIDE DEF flatten
  <2>6. flatten[1] = seqs[1] /\ \A i \in 1..(N - 1) : flatten[i + 1] = flatten[i] \o seqs[i + 1]
    <3>1. 1 \in 1..N
      BY <1>3
    <3>2. ASSUME NEW i \in 1..(N - 1) PROVE flatten[i + 1] = flatten[i] \o seqs[i + 1]
      <4>1. i + 1 \in 1..N /\ i + 1 # 1 /\ (i + 1) - 1 = i
        OBVIOUS
      <4>2. QED
        BY <2>4, <4>1
    <3>3. QED
      BY <2>4, <3>1, <3>2
  <2> HIDE DEF Flattens
  <2> DEFINE G == {i \in Nat : i + 1 <= N => Flat(flatten[i + 1], S, seqs, i + 1)}
  <2>7. 0 \in G
    <3>1. seqs[1] \in Seq(S) /\ 1 \in 1..1 /\ \A j \in 1..1 : j = 1
      BY <1>3
    <3>a. Len(seqs[1]) <= Len(seqs[1])
      BY <3>1
    <3>2. Flat(seqs[1], S, seqs, 1)
      BY <3>1, <3>a DEF Flat, Apart
    <3>3. QED
      BY <2>6, <3>2
  <2>8. ASSUME NEW i \in Nat, i \in G PROVE i + 1 \in G
    <3> SUFFICES ASSUME (i + 1) + 1 <= N PROVE Flat(flatten[(i + 1) + 1], S, seqs, (i + 1) + 1)
      OBVIOUS
    <3> DEFINE n == i + 1
    <3>1. n \in Nat \ {0} /\ n \in 1..(N - 1) /\ n + 1 <= N
      OBVIOUS
    <3>2. Flat(flatten[n], S, seqs, n)
      BY <2>8, <3>1
    <3>3. flatten[n + 1] = flatten[n] \o seqs[n + 1]
      BY <2>6, <3>1
    <3> HIDE DEF n
    <3>4. Flat(flatten[n] \o seqs[n + 1], S, seqs, n + 1)
      BY <3>1, <3>2, FlatStep
    <3>5. QED
      BY <3>3, <3>4 DEF n
  <2>9. Nat \subseteq G
    <3> HIDE DEF G
    <3>1. QED
      BY <2>7, <2>8, NatSetInduction
  <2>10. N - 1 \in G /\ (N - 1) + 1 = N
    <3>1. N - 1 \in Nat /\ (N - 1) + 1 = N
      BY <1>3
    <3> HIDE DEF G
    <3>2. QED
      BY <2>9, <3>1
  <2>11. Flat(flatten[(N - 1) + 1], S, seqs, (N - 1) + 1)
    BY <2>10
  <2>12. QED
    BY <2>5, <2>10, <2>11
<1>4. QED
  BY <1>2, <1>3

-----------------------------------------------------------------------------
(***************************************************************************)
(* Walks                                                                   *)
(***************************************************************************)

Entries(t) == [key : Keys(t), depth : Nat]

WalkStates(t, maxNodes) ==
    {w \in [items : Seq(Entries(t)), frontier : Seq(Keys(t)), depth : Nat, truncated : BOOLEAN] :
        Len(w.items) <= maxNodes}

LEMMA NodeIs ==
    ASSUME NEW t \in Encodable, NEW n \in t
    PROVE  Node(t, n.key) = n /\ n.key \in Keys(t)
BY TreesAre DEF Node, Keys

\* kids are the children of a frontier.
KidsOf(t, fr, kids) ==
    /\ kids \in Seq(t)
    /\ \A p \in 1..Len(kids) : \E j \in 1..Len(fr) : kids[p].parent = fr[j]
    /\ \A n \in t, j \in 1..Len(fr) : n.parent = fr[j] => \E p \in 1..Len(kids) : kids[p] = n
    /\ (\A i, j \in 1..Len(fr) : i # j => fr[i] # fr[j]) =>
          \A p, q \in 1..Len(kids) : p # q => kids[p] # kids[q]

LEMMA KidsAre ==
    ASSUME NEW t \in Encodable, NEW w, w.frontier \in Seq(Keys(t))
    PROVE  KidsOf(t, w.frontier, NextLevel(t, w))
<1> DEFINE fr == w.frontier
           N == Len(fr)
           seqs == [j \in 1..N |-> Children(t, fr[j])]
           kids == NextLevel(t, w)
<1>1. N \in Nat /\ DOMAIN fr = 1..N
  OBVIOUS
<1>2. kids = FlattenSeq(seqs)
  BY <1>1 DEF NextLevel
<1> HIDE DEF fr, N, kids
<1>3. ASSUME NEW j \in 1..N
      PROVE  /\ seqs[j] \in Seq(t)
             /\ \A l \in 1..Len(seqs[j]) : seqs[j][l].parent = fr[j]
             /\ \A n \in t : n.parent = fr[j] => \E l \in 1..Len(seqs[j]) : seqs[j][l] = n
             /\ \A k, l \in 1..Len(seqs[j]) : k # l => seqs[j][k] # seqs[j][l]
  <2> DEFINE K == ChildrenOf(t, fr[j])
             s == seqs[j]
  <2>1. Siblings(s, K) /\ K \subseteq AllNodes
    BY InOrderLists, SiblingsOrder DEF Children
  <2>2. \A n \in K : n \in t /\ n.parent = fr[j]
    BY DEF ChildrenOf
  <2>3. \A n \in t : n.parent = fr[j] => n \in K
    BY DEF ChildrenOf
  <2> HIDE DEF K, s
  <2>4. /\ Len(s) \in Nat /\ s \in [1..Len(s) -> K]
        /\ \A k, l \in 1..Len(s) : k < l => Before(Position(s[k]), Position(s[l]))
        /\ \A n \in K : \E l \in 1..Len(s) : s[l] = n
    BY <2>1 DEF Siblings
  <2>5. s \in Seq(t)
    <3>1. s \in [1..Len(s) -> t]
      BY <2>2, <2>4
    <3>2. QED
      BY <2>4, <3>1, IntervalSequence
  <2>6. \A k, l \in 1..Len(s) : k # l => s[k] # s[l]
    <3> SUFFICES ASSUME NEW k \in 1..Len(s), NEW l \in 1..Len(s), k < l PROVE s[k] # s[l]
      BY <2>4
    <3>1. s[k] \in AllNodes /\ s[l] \in AllNodes
      BY <2>1, <2>4
    <3>2. QED
      BY <2>4, <3>1, PositionsOrder
  <2>7. QED
    BY <2>2, <2>3, <2>4, <2>5, <2>6 DEF s
<1>4. seqs \in [1..N -> Seq(t)]
  BY <1>3
<1>5. Flat(kids, t, seqs, N)
  <2> HIDE DEF seqs
  <2>1. QED
    BY <1>1, <1>2, <1>4, FlattenIs
<1>6. ASSUME \A i, j \in 1..N : i # j => fr[i] # fr[j]
      PROVE  Apart(seqs, N)
  <2> SUFFICES ASSUME NEW i \in 1..N, NEW j \in 1..N, NEW k \in 1..Len(seqs[i]), NEW l \in 1..Len(seqs[j]),
                      i # j \/ k # l
               PROVE  seqs[i][k] # seqs[j][l]
    BY DEF Apart
  <2> HIDE DEF seqs
  <2>1. CASE i # j
    <3>1. seqs[i][k].parent = fr[i] /\ seqs[j][l].parent = fr[j]
      BY <1>3
    <3>2. fr[i] # fr[j]
      BY <1>6, <2>1
    <3>3. QED
      BY <3>1, <3>2
  <2>2. CASE i = j
    BY <1>3, <2>2
  <2>3. QED
    BY <2>1, <2>2
<1> HIDE DEF seqs
<1>7. /\ kids \in Seq(t)
      /\ \A p \in 1..Len(kids) : \E j \in 1..N : \E l \in 1..Len(seqs[j]) : kids[p] = seqs[j][l]
      /\ \A j \in 1..N : \A l \in 1..Len(seqs[j]) : \E p \in 1..Len(kids) : kids[p] = seqs[j][l]
      /\ Apart(seqs, N) => \A p, q \in 1..Len(kids) : p # q => kids[p] # kids[q]
  BY <1>5 DEF Flat
<1>8. ASSUME NEW p \in 1..Len(kids) PROVE \E j \in 1..N : kids[p].parent = fr[j]
  <2>1. PICK j \in 1..N : \E l \in 1..Len(seqs[j]) : kids[p] = seqs[j][l]
    BY <1>7
  <2>2. PICK l \in 1..Len(seqs[j]) : kids[p] = seqs[j][l]
    BY <2>1
  <2>3. QED
    BY <1>3, <2>2
<1>9. ASSUME NEW n \in t, NEW j \in 1..N, n.parent = fr[j] PROVE \E p \in 1..Len(kids) : kids[p] = n
  <2>1. PICK l \in 1..Len(seqs[j]) : seqs[j][l] = n
    BY <1>3, <1>9
  <2>2. QED
    BY <1>7, <2>1
<1>10. KidsOf(t, fr, kids)
  BY <1>6, <1>7, <1>8, <1>9 DEF KidsOf, N
<1>11. QED
  BY <1>10 DEF fr, kids

\* new is w with the first m of the nodes kids.
Deepened(w, new, kids, m, maxNodes) ==
    /\ m \in Nat /\ m <= Len(kids)
    /\ Len(new.items) = Len(w.items) + m
    /\ \A p \in 1..Len(w.items) : new.items[p] = w.items[p]
    /\ \A p \in 1..m : /\ new.items[Len(w.items) + p].key = kids[p].key
                       /\ new.items[Len(w.items) + p].depth = w.depth + 1
    /\ Len(new.frontier) = m /\ \A p \in 1..m : new.frontier[p] = kids[p].key
    /\ new.depth = w.depth + 1
    /\ ~new.truncated => ~w.truncated /\ m = Len(kids)

LEMMA DeeperIs ==
    ASSUME NEW t \in Encodable, NEW maxNodes \in Nat, NEW w \in WalkStates(t, maxNodes)
    PROVE  LET new == Deeper(t, w, maxNodes)
           IN  /\ new \in WalkStates(t, maxNodes)
               /\ w.frontier = <<>> \/ Len(w.items) = maxNodes => new = w
               /\ w.frontier # <<>> /\ Len(w.items) # maxNodes =>
                     \E m \in Nat : Deepened(w, new, NextLevel(t, w), m, maxNodes)
<1> DEFINE items == w.items
           n == Len(items)
           room == maxNodes - n
           kids == NextLevel(t, w)
           taken == FirstOf(room, kids)
           new == Deeper(t, w, maxNodes)
<1>1. /\ items \in Seq(Entries(t)) /\ n \in Nat /\ n <= maxNodes
      /\ w.frontier \in Seq(Keys(t)) /\ w.depth \in Nat /\ w.truncated \in BOOLEAN
  BY DEF WalkStates
<1>2. kids \in Seq(t)
  BY <1>1, KidsAre DEF KidsOf
<1>3. CASE w.frontier = <<>> \/ n = maxNodes
  <2>1. w.frontier = <<>> \/ room = 0
    BY <1>1, <1>3
  <2>2. new = w
    BY <2>1 DEF Deeper
  <2>3. QED
    BY <1>3, <2>2
<1>4. CASE ~(w.frontier = <<>> \/ n = maxNodes)
  <2>1. room \in Nat /\ room # 0 /\ n + room = maxNodes
    BY <1>1, <1>4
  <2> DEFINE m == Len(taken)
             ext == [j \in 1..m |-> [key |-> taken[j].key, depth |-> w.depth + 1]]
             front == [j \in 1..m |-> taken[j].key]
             both == items \o ext
             cut == w.truncated \/ Len(kids) > room
  <2>2. /\ taken \in Seq(t)
        /\ room <= Len(kids) => m = room
        /\ Len(kids) <= room => m = Len(kids)
        /\ \A i \in 1..m : taken[i] = kids[i]
    <3> HIDE DEF room, kids
    <3>1. QED
      BY <1>2, <2>1, FirstOfIs
  <2>3. DOMAIN taken = 1..m /\ m \in Nat /\ Len(kids) \in Nat
    <3> HIDE DEF taken, kids
    <3>1. QED
      BY <1>2, <2>2
  <2>4. new = [items |-> both, frontier |-> front, depth |-> w.depth + 1, truncated |-> cut]
    <3>1. ~(w.frontier = <<>> \/ room = 0)
      BY <1>4, <2>1
    <3> HIDE DEF room
    <3>2. new = [items |-> items \o [j \in DOMAIN taken |-> [key |-> taken[j].key, depth |-> w.depth + 1]],
                 frontier |-> [j \in DOMAIN taken |-> taken[j].key],
                 depth |-> w.depth + 1,
                 truncated |-> w.truncated \/ Len(kids) > room]
      BY <3>1 DEF Deeper, room
    <3> HIDE DEF taken, kids, new
    <3>3. QED
      BY <2>3, <3>2
  <2> HIDE DEF new, taken, kids, room, m
  <2>5. \A i \in 1..m : taken[i] \in t /\ taken[i].key \in Keys(t)
    BY <2>2, <2>3 DEF Keys, m
  <2>6. ext \in Seq(Entries(t)) /\ Len(ext) = m
    <3>1. ext \in [1..m -> Entries(t)]
      BY <1>1, <2>5 DEF Entries
    <3> HIDE DEF ext
    <3>2. QED
      BY <2>3, <3>1, IntervalSequence
  <2>7. front \in Seq(Keys(t)) /\ Len(front) = m
    <3>1. front \in [1..m -> Keys(t)]
      BY <2>5
    <3> HIDE DEF front
    <3>2. QED
      BY <2>3, <3>1, IntervalSequence
  <2>8. /\ \A p \in 1..m : ext[p].key = taken[p].key /\ ext[p].depth = w.depth + 1
        /\ \A p \in 1..m : front[p] = taken[p].key
    OBVIOUS
  <2> HIDE DEF ext, front
  <2>9. /\ both \in Seq(Entries(t)) /\ Len(both) = n + m
        /\ \A p \in 1..n : both[p] = items[p]
        /\ \A p \in 1..m : both[n + p] = ext[p]
    <3> DEFINE E == Entries(t)
    <3>1. items \in Seq(E) /\ ext \in Seq(E) /\ Len(ext) = m
      BY <1>1, <2>6
    <3> HIDE DEF E, items
    <3>2. both \in Seq(E) /\ Len(both) = n + m
      BY <3>1
    <3>3. \A p \in 1..n : both[p] = items[p]
      BY <3>1
    <3>4. \A p \in 1..m : both[n + p] = ext[p]
      BY <3>1
    <3>5. QED
      BY <3>2, <3>3, <3>4 DEF E
  <2>10. m <= room /\ m <= Len(kids) /\ (~cut => ~w.truncated /\ m = Len(kids)) /\ cut \in BOOLEAN
    <3>1. m <= room /\ m <= Len(kids)
      BY <2>1, <2>2, <2>3
    <3>2. Len(kids) > room \/ m = Len(kids)
      BY <2>1, <2>2, <2>3
    <3>3. QED
      BY <1>1, <3>1, <3>2
  <2> HIDE DEF both, cut
  <2>11. new.items = both /\ new.frontier = front /\ new.depth = w.depth + 1 /\ new.truncated = cut
    BY <2>4
  <2>12. new \in WalkStates(t, maxNodes)
    <3>1. Len(both) <= maxNodes
      BY <1>1, <2>1, <2>3, <2>9, <2>10
    <3>2. w.depth + 1 \in Nat
      BY <1>1
    <3>3. QED
      BY <2>4, <2>7, <2>9, <2>10, <2>11, <3>1, <3>2 DEF WalkStates
  <2>13. \A p \in 1..m : taken[p] = kids[p]
    BY <2>2
  <2>14. Deepened(w, new, kids, m, maxNodes)
    <3>1. /\ Len(new.items) = Len(w.items) + m
          /\ \A p \in 1..Len(w.items) : new.items[p] = w.items[p]
      BY <2>9, <2>11
    <3>2. \A p \in 1..m : /\ new.items[Len(w.items) + p].key = kids[p].key
                          /\ new.items[Len(w.items) + p].depth = w.depth + 1
      BY <2>8, <2>9, <2>11, <2>13
    <3>3. Len(new.frontier) = m /\ \A p \in 1..m : new.frontier[p] = kids[p].key
      BY <2>7, <2>8, <2>11, <2>13
    <3>4. QED
      BY <2>3, <2>10, <2>11, <3>1, <3>2, <3>3 DEF Deepened
  <2>15. QED
    BY <1>4, <2>3, <2>12, <2>14 DEF new, kids
<1>5. QED
  BY <1>3, <1>4

\* What holds of a walk below `root` that has looked i levels down.
Walked(t, root, rank, level, maxNodes, i, w) ==
    /\ w \in WalkStates(t, maxNodes) /\ Len(w.items) # 0 /\ w.depth <= i
    /\ w.items[1].key = root
    /\ \A p, q \in 1..Len(w.items) : p # q => w.items[p].key # w.items[q].key
    /\ \A p \in 1..Len(w.items) : p > 1 =>
          \E q \in 1..(p - 1) : /\ w.items[q].key = Node(t, w.items[p].key).parent
                                /\ w.items[q].depth + 1 = w.items[p].depth
    /\ \A p \in 1..Len(w.items) : /\ w.items[p].depth <= w.depth
                                  /\ rank[w.items[p].key] = rank[root] + w.items[p].depth
                                  /\ w.items[p].key \in level[i]
    /\ \A p \in 1..Len(w.frontier) : \E q \in 1..Len(w.items) :
          w.items[q].key = w.frontier[p] /\ w.items[q].depth = w.depth
    /\ \A p, q \in 1..Len(w.frontier) : p # q => w.frontier[p] # w.frontier[q]
    /\ ~w.truncated => \A q \in 1..Len(w.items) : \A n \in t : n.parent = w.items[q].key =>
          \/ \E p \in 1..Len(w.items) : w.items[p].key = n.key
          \/ \E p \in 1..Len(w.frontier) : w.frontier[p] = w.items[q].key
    /\ w.frontier = <<>> \/ Len(w.items) = maxNodes \/ w.depth = i

LEMMA Lower ==
    ASSUME NEW r \in Nat, NEW d \in Nat, NEW e \in Nat, d <= e
    PROVE  r + d # r + (e + 1)
OBVIOUS

LEMMA WalkStep ==
    ASSUME NEW t \in Encodable, NEW root, NEW rank \in [Keys(t) -> Nat], NEW level, NEW maxNodes \in Nat,
           \A n \in t : n.parent \in Keys(t) => rank[n.key] = rank[n.parent] + 1,
           NEW i \in Nat, level[i + 1] = Grown(t, level[i]), root \in Keys(t),
           NEW w, Walked(t, root, rank, level, maxNodes, i, w)
    PROVE  Walked(t, root, rank, level, maxNodes, i + 1, Deeper(t, w, maxNodes))
<1> DEFINE new == Deeper(t, w, maxNodes)
           kids == NextLevel(t, w)
           n == Len(w.items)
           fr == w.frontier
<1>1. /\ w \in WalkStates(t, maxNodes) /\ n # 0 /\ w.depth <= i
      /\ w.items[1].key = root
      /\ fr = <<>> \/ n = maxNodes \/ w.depth = i
  BY DEF Walked
<1>a. \A p, q \in 1..n : p # q => w.items[p].key # w.items[q].key
  BY DEF Walked
<1>b. \A p \in 1..n : p > 1 =>
            \E q \in 1..(p - 1) : /\ w.items[q].key = Node(t, w.items[p].key).parent
                                  /\ w.items[q].depth + 1 = w.items[p].depth
  BY DEF Walked
<1>c. \A p \in 1..n : /\ w.items[p].depth <= w.depth
                       /\ rank[w.items[p].key] = rank[root] + w.items[p].depth
                       /\ w.items[p].key \in level[i]
  BY DEF Walked
<1>d. /\ \A p \in 1..Len(fr) : \E q \in 1..n : w.items[q].key = fr[p] /\ w.items[q].depth = w.depth
      /\ \A p, q \in 1..Len(fr) : p # q => fr[p] # fr[q]
  BY DEF Walked
<1>e. ~w.truncated => \A q \in 1..n : \A x \in t : x.parent = w.items[q].key =>
            \/ \E p \in 1..n : w.items[p].key = x.key
            \/ \E p \in 1..Len(fr) : fr[p] = w.items[q].key
  BY DEF Walked
<1>2. /\ w.items \in Seq(Entries(t)) /\ n \in Nat /\ w.depth \in Nat /\ fr \in Seq(Keys(t))
      /\ Len(fr) \in Nat
      /\ \A p \in 1..n : w.items[p].key \in Keys(t) /\ w.items[p].depth \in Nat
  <2>1. w.items \in Seq(Entries(t)) /\ n \in Nat /\ w.depth \in Nat /\ fr \in Seq(Keys(t)) /\ Len(fr) \in Nat
    BY <1>1 DEF WalkStates
  <2>2. \A p \in 1..n : w.items[p] \in Entries(t)
    BY <2>1
  <2>3. QED
    BY <2>1, <2>2 DEF Entries
<1>3. level[i] \subseteq level[i + 1]
  BY GrownIs
<1>4. /\ new \in WalkStates(t, maxNodes)
      /\ fr = <<>> \/ n = maxNodes => new = w
      /\ fr # <<>> /\ n # maxNodes => \E m \in Nat : Deepened(w, new, kids, m, maxNodes)
  BY <1>1, DeeperIs
<1>z. n = Len(w.items) /\ fr = w.frontier
  OBVIOUS
<1>5. CASE fr = <<>> \/ n = maxNodes
  <2>1. new = w
    BY <1>4, <1>5
  <2>2. w.depth <= i + 1
    BY <1>1, <1>2
  <2>3. \A p \in 1..n : /\ w.items[p].depth <= w.depth
                         /\ rank[w.items[p].key] = rank[root] + w.items[p].depth
                         /\ w.items[p].key \in level[i + 1]
    BY <1>3, <1>c
  <2>4. Walked(t, root, rank, level, maxNodes, i + 1, w)
    BY <1>1, <1>a, <1>b, <1>d, <1>e, <1>5, <2>2, <2>3 DEF Walked
  <2> HIDE DEF new
  <2>5. QED
    BY <2>1, <2>4 DEF new
<1>6. CASE ~(fr = <<>> \/ n = maxNodes)
  <2>1. PICK m \in Nat : Deepened(w, new, kids, m, maxNodes)
    BY <1>4, <1>6
  <2> HIDE DEF new, kids
  <2>2. /\ m <= Len(kids)
        /\ Len(new.items) = n + m
        /\ \A p \in 1..n : new.items[p] = w.items[p]
        /\ \A p \in 1..m : /\ new.items[n + p].key = kids[p].key
                           /\ new.items[n + p].depth = w.depth + 1
        /\ Len(new.frontier) = m /\ \A p \in 1..m : new.frontier[p] = kids[p].key
        /\ new.depth = w.depth + 1
        /\ ~new.truncated => ~w.truncated /\ m = Len(kids)
    BY <2>1 DEF Deepened
  <2>3. w.depth = i
    BY <1>1, <1>6
  <2>4. /\ kids \in Seq(t)
        /\ \A p \in 1..Len(kids) : \E j \in 1..Len(fr) : kids[p].parent = fr[j]
        /\ \A x \in t, j \in 1..Len(fr) : x.parent = fr[j] => \E p \in 1..Len(kids) : kids[p] = x
        /\ \A p, q \in 1..Len(kids) : p # q => kids[p] # kids[q]
    <3>1. KidsOf(t, fr, kids)
      BY <1>2, KidsAre DEF kids
    <3> HIDE DEF fr
    <3>2. QED
      BY <1>d, <3>1 DEF KidsOf
  <2> HIDE DEF n, fr, kids
  <2>5. Len(kids) \in Nat /\ \A p \in 1..m : p \in 1..Len(kids) /\ kids[p] \in t /\ kids[p].key \in Keys(t)
    <3>1. Len(kids) \in Nat
      BY <2>4
    <3>2. \A p \in 1..m : p \in 1..Len(kids)
      BY <2>2, <3>1
    <3>3. QED
      BY <2>4, <3>1, <3>2 DEF Keys
  <2>6. /\ \A p \in 1..(n + m) : p \in 1..n \/ (p - n \in 1..m /\ n + (p - n) = p)
        /\ \A p \in 1..n : p \in 1..(n + m)
        /\ \A p \in 1..m : n + p \in 1..(n + m) /\ n + p > n
    BY <1>2
\* A new node is below one of the frontier.
  <2>7. ASSUME NEW p \in 1..m
        PROVE  \E q \in 1..n : /\ w.items[q].key = kids[p].parent /\ w.items[q].depth = w.depth
                               /\ rank[kids[p].key] = rank[root] + (w.depth + 1)
                               /\ kids[p].key \in level[i + 1]
    <3>1. PICK j \in 1..Len(fr) : kids[p].parent = fr[j]
      BY <2>4, <2>5
    <3>2. PICK q \in 1..n : w.items[q].key = fr[j] /\ w.items[q].depth = w.depth
      BY <1>d
    <3>3. w.items[q].key \in Keys(t) /\ w.items[q].key \in level[i] /\ rank[w.items[q].key] = rank[root] + w.depth
      BY <1>2, <1>c, <3>2
    <3>4. rank[kids[p].key] = rank[kids[p].parent] + 1
      BY <2>5, <3>1, <3>2, <3>3
    <3>5. kids[p].key \in level[i + 1]
      BY <2>5, <3>1, <3>2, <3>3, GrownIs
    <3>6. rank[root] \in Nat
      OBVIOUS
    <3>7. rank[kids[p].key] = rank[root] + (w.depth + 1)
      <4>1. rank[kids[p].key] = (rank[root] + w.depth) + 1
        BY <3>1, <3>2, <3>3, <3>4
      <4>2. QED
        BY <1>2, <3>6, <4>1
    <3>8. QED
      BY <3>1, <3>2, <3>5, <3>7
  <2>8. new.depth <= i + 1 /\ new.depth = i + 1
    BY <1>2, <2>2, <2>3
  <2>9. new.items[1].key = root
    <3>1. 1 \in 1..n
      BY <1>1, <1>2
    <3>2. QED
      BY <1>1, <2>2, <3>1
  <2>10. \A p, q \in 1..(n + m) : p # q => new.items[p].key # new.items[q].key
    <3>1. ASSUME NEW x \in 1..n, NEW y \in 1..m PROVE w.items[x].key # kids[y].key
      <4>1. rank[w.items[x].key] = rank[root] + w.items[x].depth /\ w.items[x].depth <= w.depth
            /\ w.items[x].depth \in Nat
        BY <1>2, <1>c
      <4>2. rank[kids[y].key] = rank[root] + (w.depth + 1)
        BY <2>7
      <4>3. rank[root] \in Nat
        OBVIOUS
      <4>4. QED
        <5>1. rank[w.items[x].key] # rank[kids[y].key]
          BY <1>2, <4>1, <4>2, <4>3, Lower
        <5>2. QED
          BY <5>1
    <3>2. ASSUME NEW x \in 1..m, NEW y \in 1..m, x # y PROVE kids[x].key # kids[y].key
      <4>1. kids[x] # kids[y] /\ kids[x] \in t /\ kids[y] \in t
        BY <2>4, <2>5, <3>2
      <4>2. QED
        BY <4>1, TreesAre
    <3> SUFFICES ASSUME NEW p \in 1..(n + m), NEW q \in 1..(n + m), p # q
                 PROVE  new.items[p].key # new.items[q].key
      OBVIOUS
    <3>3. CASE p \in 1..n /\ q \in 1..n
      <4>1. new.items[p] = w.items[p] /\ new.items[q] = w.items[q]
        BY <2>2, <3>3
      <4>2. w.items[p].key # w.items[q].key
        BY <1>a, <3>3
      <4>3. QED
        BY <4>1, <4>2
    <3>4. ASSUME p \in 1..n, q - n \in 1..m, n + (q - n) = q PROVE new.items[p].key # new.items[q].key
      <4>1. new.items[q].key = kids[q - n].key
        BY <2>2, <3>4
      <4>2. new.items[p] = w.items[p] /\ w.items[p].key # kids[q - n].key
        BY <2>2, <3>1, <3>4
      <4>3. QED
        BY <4>1, <4>2
    <3>5. ASSUME q \in 1..n, p - n \in 1..m, n + (p - n) = p PROVE new.items[p].key # new.items[q].key
      <4>1. new.items[p].key = kids[p - n].key
        BY <2>2, <3>5
      <4>2. new.items[q] = w.items[q] /\ w.items[q].key # kids[p - n].key
        BY <2>2, <3>1, <3>5
      <4>3. QED
        BY <4>1, <4>2
    <3>6. ASSUME p - n \in 1..m, n + (p - n) = p, q - n \in 1..m, n + (q - n) = q
          PROVE  new.items[p].key # new.items[q].key
      <4>1. new.items[p].key = kids[p - n].key /\ new.items[q].key = kids[q - n].key
        BY <2>2, <3>6
      <4>2. p - n # q - n
        BY <3>6
      <4>3. QED
        BY <3>2, <3>6, <4>1, <4>2
    <3>7. QED
      BY <2>6, <3>3, <3>4, <3>5, <3>6
  <2>11. \A p \in 1..(n + m) : p > 1 =>
            \E q \in 1..(p - 1) : /\ new.items[q].key = Node(t, new.items[p].key).parent
                                  /\ new.items[q].depth + 1 = new.items[p].depth
    <3> SUFFICES ASSUME NEW p \in 1..(n + m), p > 1
                 PROVE  \E q \in 1..(p - 1) : /\ new.items[q].key = Node(t, new.items[p].key).parent
                                              /\ new.items[q].depth + 1 = new.items[p].depth
      OBVIOUS
    <3>1. CASE p \in 1..n
      <4>1. PICK q \in 1..(p - 1) : /\ w.items[q].key = Node(t, w.items[p].key).parent
                                    /\ w.items[q].depth + 1 = w.items[p].depth
        BY <1>b, <3>1
      <4>2. q \in 1..n
        BY <1>2, <3>1
      <4>3. QED
        BY <2>2, <3>1, <4>1, <4>2
    <3>2. ASSUME p - n \in 1..m, n + (p - n) = p
          PROVE  \E q \in 1..(p - 1) : /\ new.items[q].key = Node(t, new.items[p].key).parent
                                       /\ new.items[q].depth + 1 = new.items[p].depth
      <4> DEFINE x == kids[p - n]
      <4>1. new.items[p].key = x.key /\ new.items[p].depth = w.depth + 1
        BY <2>2, <3>2
      <4>2. Node(t, x.key) = x
        BY <2>5, <3>2, NodeIs
      <4>3. PICK q \in 1..n : w.items[q].key = x.parent /\ w.items[q].depth = w.depth
        BY <2>7, <3>2
      <4>4. q \in 1..(p - 1) /\ new.items[q] = w.items[q]
        BY <1>2, <2>2, <3>2
      <4>5. QED
        BY <4>1, <4>2, <4>3, <4>4
    <3>3. QED
      BY <2>6, <3>1, <3>2
  <2>12. \A p \in 1..(n + m) : /\ new.items[p].depth <= new.depth
                               /\ rank[new.items[p].key] = rank[root] + new.items[p].depth
                               /\ new.items[p].key \in level[i + 1]
    <3> SUFFICES ASSUME NEW p \in 1..(n + m)
                 PROVE  /\ new.items[p].depth <= new.depth
                        /\ rank[new.items[p].key] = rank[root] + new.items[p].depth
                        /\ new.items[p].key \in level[i + 1]
      OBVIOUS
    <3>1. CASE p \in 1..n
      <4>1. /\ w.items[p].depth <= w.depth /\ w.items[p].depth \in Nat
            /\ rank[w.items[p].key] = rank[root] + w.items[p].depth /\ w.items[p].key \in level[i]
        BY <1>2, <1>c, <3>1
      <4>2. new.items[p] = w.items[p] /\ new.depth = w.depth + 1
        BY <2>2, <3>1
      <4>3. new.items[p].depth <= new.depth
        <5>1. w.depth \in Nat /\ w.items[p].depth <= w.depth + 1
          <6>1. w.depth \in Nat
            BY <1>2
          <6>2. \A a, b \in Nat : a <= b => a <= b + 1
            OBVIOUS
          <6>3. QED
            BY <4>1, <6>1, <6>2
        <5>2. QED
          BY <4>2, <5>1
      <4>4. QED
        BY <1>3, <4>1, <4>2, <4>3
    <3>2. ASSUME p - n \in 1..m, n + (p - n) = p
          PROVE  /\ new.items[p].depth <= new.depth
                 /\ rank[new.items[p].key] = rank[root] + new.items[p].depth
                 /\ new.items[p].key \in level[i + 1]
      <4>1. new.items[p].key = kids[p - n].key /\ new.items[p].depth = w.depth + 1 /\ new.depth = w.depth + 1
        BY <2>2, <3>2
      <4>2. rank[kids[p - n].key] = rank[root] + (w.depth + 1) /\ kids[p - n].key \in level[i + 1]
        BY <2>7, <3>2
      <4>3. new.items[p].depth <= new.depth
        BY <1>2, <4>1
      <4>4. QED
        BY <4>1, <4>2, <4>3
    <3>3. QED
      BY <2>6, <3>1, <3>2
  <2>13. \A p \in 1..m : \E q \in 1..(n + m) :
            new.items[q].key = new.frontier[p] /\ new.items[q].depth = new.depth
    <3> SUFFICES ASSUME NEW p \in 1..m PROVE \E q \in 1..(n + m) :
            new.items[q].key = new.frontier[p] /\ new.items[q].depth = new.depth
      OBVIOUS
    <3>1. new.items[n + p].key = new.frontier[p] /\ new.items[n + p].depth = new.depth
      BY <2>2
    <3>2. QED
      BY <2>6, <3>1
  <2>14. \A p, q \in 1..m : p # q => new.frontier[p] # new.frontier[q]
    <3> SUFFICES ASSUME NEW p \in 1..m, NEW q \in 1..m, p # q PROVE new.frontier[p] # new.frontier[q]
      OBVIOUS
    <3>1. kids[p] # kids[q] /\ kids[p] \in t /\ kids[q] \in t
      BY <2>4, <2>5
    <3>2. kids[p].key # kids[q].key
      BY <3>1, TreesAre
    <3>3. QED
      BY <2>2, <3>2
  <2>15. ASSUME ~new.truncated, NEW q \in 1..(n + m), NEW x \in t, x.parent = new.items[q].key
         PROVE  \/ \E p \in 1..(n + m) : new.items[p].key = x.key
                \/ \E p \in 1..m : new.frontier[p] = new.items[q].key
    <3>1. ~w.truncated /\ m = Len(kids)
      BY <2>2, <2>15
    <3>2. CASE q \in 1..n
      <4>1. new.items[q] = w.items[q]
        BY <2>2, <3>2
      <4>2. CASE \E p \in 1..n : w.items[p].key = x.key
        BY <2>2, <2>6, <4>2
      <4>3. CASE \E p \in 1..Len(fr) : fr[p] = w.items[q].key
        <5>1. PICK p \in 1..Len(kids) : kids[p] = x
          BY <2>4, <2>15, <4>1, <4>3
        <5>2. p \in 1..m
          BY <3>1
        <5>3. new.items[n + p].key = x.key /\ n + p \in 1..(n + m)
          BY <2>2, <2>6, <5>1, <5>2
        <5>4. QED
          BY <5>3
      <4>4. QED
        <5>1. x.parent = w.items[q].key
          BY <2>15, <4>1
        <5>2. \/ \E p \in 1..n : w.items[p].key = x.key
              \/ \E p \in 1..Len(fr) : fr[p] = w.items[q].key
          BY <1>e, <3>1, <3>2, <5>1
        <5>3. QED
          BY <4>2, <4>3, <5>2
    <3>3. ASSUME q - n \in 1..m, n + (q - n) = q
          PROVE  \E p \in 1..m : new.frontier[p] = new.items[q].key
      <4>1. new.items[q].key = kids[q - n].key /\ new.frontier[q - n] = kids[q - n].key
        BY <2>2, <3>3
      <4>2. QED
        BY <3>3, <4>1
    <3>4. QED
      BY <2>6, <3>2, <3>3
  <2>16. Len(new.items) # 0
    BY <1>1, <1>2, <2>2
  <2> DEFINE l == Len(new.items)
             k == Len(new.frontier)
  <2>a. l = n + m /\ k = m
    BY <2>2
  <2> HIDE DEF l, k
  <2>b. /\ \A p, q \in 1..l : p # q => new.items[p].key # new.items[q].key
        /\ \A p \in 1..l : p > 1 =>
            \E q \in 1..(p - 1) : /\ new.items[q].key = Node(t, new.items[p].key).parent
                                  /\ new.items[q].depth + 1 = new.items[p].depth
        /\ \A p \in 1..l : /\ new.items[p].depth <= new.depth
                           /\ rank[new.items[p].key] = rank[root] + new.items[p].depth
                           /\ new.items[p].key \in level[i + 1]
    BY <2>10, <2>11, <2>12, <2>a
  <2>c. /\ \A p \in 1..k : \E q \in 1..l :
              new.items[q].key = new.frontier[p] /\ new.items[q].depth = new.depth
        /\ \A p, q \in 1..k : p # q => new.frontier[p] # new.frontier[q]
    BY <2>13, <2>14, <2>a
  <2>d. ~new.truncated => \A q \in 1..l : \A x \in t : x.parent = new.items[q].key =>
            \/ \E p \in 1..l : new.items[p].key = x.key
            \/ \E p \in 1..k : new.frontier[p] = new.items[q].key
    BY <2>15, <2>a
  <2>17. Walked(t, root, rank, level, maxNodes, i + 1, new)
    BY <1>4, <2>8, <2>9, <2>16, <2>b, <2>c, <2>d DEF Walked, l, k
  <2>18. QED
    BY <2>17 DEF new
<1>7. QED
  BY <1>5, <1>6

LEMMA StartIs ==
    ASSUME NEW t \in Encodable, NEW root \in Keys(t), NEW rank \in [Keys(t) -> Nat], NEW level,
           NEW maxNodes \in Nat \ {0}, level[0] = {root}
    PROVE  Walked(t, root, rank, level, maxNodes, 0, Start(root))
<1> DEFINE w == Start(root)
           items == <<[key |-> root, depth |-> 0]>>
           front == <<root>>
<1>1. w = [items |-> items, frontier |-> front, depth |-> 0, truncated |-> FALSE]
  BY DEF Start
<1>2. /\ items \in Seq(Entries(t)) /\ Len(items) = 1 /\ items[1].key = root /\ items[1].depth = 0
      /\ front \in Seq(Keys(t)) /\ Len(front) = 1 /\ front[1] = root
  BY DEF Entries
<1> HIDE DEF items, front
<1>4. w.items = items /\ w.frontier = front /\ w.depth = 0 /\ w.truncated = FALSE
  BY <1>1
<1>3. w \in WalkStates(t, maxNodes)
  <2>1. w \in [items : Seq(Entries(t)), frontier : Seq(Keys(t)), depth : Nat, truncated : BOOLEAN]
    BY <1>1, <1>2
  <2>2. Len(w.items) <= maxNodes
    <3>1. 1 <= maxNodes
      OBVIOUS
    <3>2. w.items = items
      BY <1>4
    <3> HIDE DEF w
    <3>3. QED
      BY <1>2, <3>1, <3>2
  <2> HIDE DEF w
  <2>3. QED
    BY <2>1, <2>2 DEF WalkStates
<1> HIDE DEF w
<1>5. 1..1 = {1} /\ rank[root] + 0 = rank[root]
  <2>1. rank[root] \in Nat
    OBVIOUS
  <2>2. QED
    BY <2>1
<1> DEFINE n == Len(items)
<1>a. /\ n = 1
      /\ \A p, q \in 1..n : p # q => items[p].key # items[q].key
      /\ \A p \in 1..n : ~(p > 1)
      /\ \A p \in 1..n : /\ items[p].depth <= 0 /\ items[p].key \in level[0]
                         /\ rank[items[p].key] = rank[root] + items[p].depth
  BY <1>2, <1>5
<1>b. /\ \A p \in 1..Len(front) : \E q \in 1..n : items[q].key = front[p] /\ items[q].depth = 0
      /\ \A p, q \in 1..Len(front) : p # q => front[p] # front[q]
  BY <1>2, <1>5
<1>c. \A q \in 1..n : \A x \in t : x.parent = items[q].key =>
          \/ \E p \in 1..n : items[p].key = x.key
          \/ \E p \in 1..Len(front) : front[p] = items[q].key
  BY <1>2, <1>5
<1>d. \A p \in 1..n : p > 1 =>
          \E q \in 1..(p - 1) : /\ items[q].key = Node(t, items[p].key).parent
                                /\ items[q].depth + 1 = items[p].depth
  BY <1>a
<1>e. n # 0 /\ 0 <= 0
  BY <1>a
<1> HIDE DEF n
<1>f. n = Len(w.items) /\ w.items[1].key = root
  BY <1>2, <1>4 DEF n
<1>6. Walked(t, root, rank, level, maxNodes, 0, w)
  <2>1. w \in WalkStates(t, maxNodes) /\ Len(w.items) # 0 /\ w.depth <= 0 /\ w.items[1].key = root /\ w.depth = 0
    BY <1>3, <1>4, <1>e, <1>f
  <2> DEFINE front2 == w.frontier
             items2 == w.items
             depth2 == w.depth
  <2>2. items2 = items /\ front2 = front /\ depth2 = 0 /\ n = Len(items2)
    BY <1>4, <1>f
  <2> HIDE DEF front2, items2, depth2
  <2>3. /\ \A p, q \in 1..Len(items2) : p # q => items2[p].key # items2[q].key
        /\ \A p \in 1..Len(items2) : /\ items2[p].depth <= depth2 /\ items2[p].key \in level[0]
                         /\ rank[items2[p].key] = rank[root] + items2[p].depth
    BY <1>a, <2>2
  <2>4. /\ \A p \in 1..Len(front2) : \E q \in 1..Len(items2) : items2[q].key = front2[p] /\ items2[q].depth = depth2
        /\ \A p, q \in 1..Len(front2) : p # q => front2[p] # front2[q]
    BY <1>b, <2>2
  <2>5. \A q \in 1..Len(items2) : \A x \in t : x.parent = items2[q].key =>
          \/ \E p \in 1..Len(items2) : items2[p].key = x.key
          \/ \E p \in 1..Len(front2) : front2[p] = items2[q].key
    BY <1>c, <2>2
  <2>6. \A p \in 1..Len(items2) : p > 1 =>
          \E q \in 1..(p - 1) : /\ items2[q].key = Node(t, items2[p].key).parent
                                /\ items2[q].depth + 1 = items2[p].depth
    BY <1>d, <2>2
  <2>7. QED
    BY <2>1, <2>3, <2>4, <2>5, <2>6 DEF Walked, items2, front2, depth2
<1>7. QED
  BY <1>6 DEF w

LEMMA WalkIs ==
    ASSUME NEW t \in Encodable, NEW root \in Keys(t), NEW maxDepth \in Nat, NEW maxNodes \in Nat \ {0},
           NEW rank \in [Keys(t) -> Nat],
           \A n \in t : n.parent \in Keys(t) => rank[n.key] = rank[n.parent] + 1,
           NEW level, Levels(level, t, root, maxDepth)
    PROVE  \E w : /\ Walked(t, root, rank, level, maxNodes, maxDepth, w)
                  /\ Walk(t, root, maxDepth, maxNodes)
                        = [items |-> w.items, truncated |-> Cut(w, maxDepth, maxNodes)]
<1>0. level[0] = {root} /\ \A i \in 0..(maxDepth - 1) : level[i + 1] = Grown(t, level[i])
  <2>1. /\ level[0] = {root}
        /\ \A i \in 0..(maxDepth - 1) : level[i + 1] = Grown(t, level[i]) /\ level[i] \subseteq level[i + 1]
    BY LevelsAre
  <2>2. QED
    BY <2>1
<1> DEFINE V == WalkStates(t, maxNodes)
           X == 0..maxDepth
           next == [w \in V |-> Deeper(t, w, maxNodes)]
           rk == [i \in X |-> i]
           prev == [i \in X |-> IF i = 0 THEN 0 ELSE i - 1]
           first == [i \in X |-> Start(root)]
           step == [i \in X |-> next]
<1>1. Walked(t, root, rank, level, maxNodes, 0, Start(root)) /\ Start(root) \in V
  <2>1. Walked(t, root, rank, level, maxNodes, 0, Start(root))
    BY <1>0, StartIs
  <2>2. QED
    BY <2>1 DEF Walked
<1>2. next \in [V -> V] /\ \A w \in V : next[w] = Deeper(t, w, maxNodes)
  <2>1. \A w \in V : Deeper(t, w, maxNodes) \in V
    BY DeeperIs
  <2> HIDE DEF V
  <2>2. QED
    BY <2>1
<1>3. RecursionOn(X, maxDepth, rk, prev, V, first, step)
  <2>1. rk \in [X -> 0..maxDepth] /\ prev \in [X -> X]
    OBVIOUS
  <2>2. first \in [X -> V]
    <3> HIDE DEF V
    <3>1. QED
      BY <1>1
  <2>3. step \in [X -> [V -> V]]
    <3> HIDE DEF V, next
    <3>1. QED
      BY <1>2
  <2>4. \A x \in X : rk[x] # 0 => rk[prev[x]] < rk[x]
    OBVIOUS
  <2> HIDE DEF rk, prev, first, step, next, X, V
  <2>5. QED
    BY <2>1, <2>2, <2>3, <2>4 DEF RecursionOn
<1>4. PICK g \in [X -> V] : \A x \in X :
              g[x] = IF rk[x] = 0 THEN first[x] ELSE step[x][g[prev[x]]]
  <2> HIDE DEF rk, prev, first, step, next, X, V
  <2>1. QED
    BY <1>3, BoundedRecursion
<1> DEFINE Walks(f) == f = [i \in 0..maxDepth |-> IF i = 0 THEN Start(root) ELSE Deeper(t, f[i - 1], maxNodes)]
<1>5. Walks(g)
  <2> DEFINE val(i) == IF i = 0 THEN Start(root) ELSE Deeper(t, g[i - 1], maxNodes)
  <2>1. \A x \in X : g[x] = val(x)
    <3> HIDE DEF V, next
    <3>1. \A x \in X : x # 0 => g[prev[x]] \in V /\ prev[x] = x - 1 /\ prev[x] \in X
      BY <1>4
    <3> HIDE DEF prev
    <3>2. \A x \in X : rk[x] = x /\ first[x] = Start(root) /\ step[x] = next
      OBVIOUS
    <3> HIDE DEF rk, first, step, X
    <3>3. QED
      BY <1>2, <1>4, <3>1, <3>2
  <2> HIDE DEF val, V
  <2>2. g = [i \in X |-> val(i)]
    BY <1>4, <2>1
  <2>3. QED
    BY <2>2 DEF val
<1> DEFINE walk == CHOOSE f : Walks(f)
<1>6. Walks(walk)
  <2> HIDE DEF Walks
  <2>1. QED
    BY <1>5
<1> DEFINE w == walk[maxDepth]
<1>7. Walk(t, root, maxDepth, maxNodes) = [items |-> w.items, truncated |-> Cut(w, maxDepth, maxNodes)]
  BY DEF Walk
<1> HIDE DEF walk
<1>8. walk[0] = Start(root) /\ \A i \in 0..(maxDepth - 1) : walk[i + 1] = Deeper(t, walk[i], maxNodes)
  <2>1. walk[0] = Start(root)
    BY <1>6
  <2>2. ASSUME NEW i \in 0..(maxDepth - 1) PROVE walk[i + 1] = Deeper(t, walk[i], maxNodes)
    <3>1. i + 1 \in 0..maxDepth /\ i + 1 # 0 /\ (i + 1) - 1 = i
      OBVIOUS
    <3>2. QED
      BY <1>6, <3>1
  <2>3. QED
    BY <2>1, <2>2
<1> HIDE DEF Walks
<1> DEFINE G == {i \in Nat : i <= maxDepth => Walked(t, root, rank, level, maxNodes, i, walk[i])}
<1>9. 0 \in G
  BY <1>1, <1>8
<1>10. ASSUME NEW i \in Nat, i \in G PROVE i + 1 \in G
  <2> SUFFICES ASSUME i + 1 <= maxDepth PROVE Walked(t, root, rank, level, maxNodes, i + 1, walk[i + 1])
    OBVIOUS
  <2>1. i \in 0..(maxDepth - 1) /\ i <= maxDepth
    OBVIOUS
  <2>2. Walked(t, root, rank, level, maxNodes, i, walk[i])
    BY <1>10, <2>1
  <2>3. level[i + 1] = Grown(t, level[i]) /\ walk[i + 1] = Deeper(t, walk[i], maxNodes)
    BY <1>0, <1>8, <2>1
  <2>4. Walked(t, root, rank, level, maxNodes, i + 1, Deeper(t, walk[i], maxNodes))
    BY <2>2, <2>3, WalkStep
  <2>5. QED
    BY <2>3, <2>4
<1>11. Nat \subseteq G
  <2> HIDE DEF G
  <2>1. QED
    BY <1>9, <1>10, NatSetInduction
<1>12. Walked(t, root, rank, level, maxNodes, maxDepth, w)
  BY <1>11
<1>13. QED
  BY <1>7, <1>12

\* What a subtree answers.
LEMMA SubtreeAnswers ==
    ASSUME NEW d, stored[d] # None, stored[d] \in Encodable, NEW key \in Keys(stored[d]),
           NEW maxDepth \in Nat, NEW maxNodes \in Nat \ {0}, NEW a,
           a.tree = stored[d], a.key = key, a.depth = maxDepth, a.limit = maxNodes,
           a.items = Subtree(d, key, maxDepth, maxNodes).items,
           a.truncated = Subtree(d, key, maxDepth, maxNodes).truncated
    PROVE  SubtreeIsWhole(a)
<1> DEFINE t == stored[d]
           items == a.items
           n == Len(items)
<1>1. /\ \A x, y \in t : x.key = y.key => x = y
      /\ IsFiniteSet(t)
  BY TreesAre
<1>2. PICK rank \in [Keys(t) -> Nat] :
          \A x \in t : x.parent \in Keys(t) => rank[x.key] = rank[x.parent] + 1
  BY TreesAre
<1>3. PICK level : Levels(level, t, key, maxDepth) /\ WithinDepth(t, key, maxDepth) = level[maxDepth]
  BY WithinIs
<1>4. PICK w : /\ Walked(t, key, rank, level, maxNodes, maxDepth, w)
               /\ Walk(t, key, maxDepth, maxNodes)
                     = [items |-> w.items, truncated |-> Cut(w, maxDepth, maxNodes)]
  <2>1. t \in Encodable /\ key \in Keys(t)
    OBVIOUS
  <2> HIDE DEF t
  <2>2. QED
    BY <1>2, <1>3, <2>1, WalkIs
<1>5. Subtree(d, key, maxDepth, maxNodes) = Walk(t, key, maxDepth, maxNodes)
  BY DEF Subtree, Resolves
<1>6. items = w.items /\ a.truncated = Cut(w, maxDepth, maxNodes)
  BY <1>4, <1>5
<1> HIDE DEF items
<1>a. w \in WalkStates(t, maxNodes) /\ n # 0 /\ items[1].key = key
  BY <1>4, <1>6 DEF Walked
<1>b. \A p, q \in 1..n : p # q => items[p].key # items[q].key
  BY <1>4, <1>6 DEF Walked
<1>c. \A p \in 1..n : p > 1 =>
            \E q \in 1..(p - 1) : /\ items[q].key = Node(t, items[p].key).parent
                                  /\ items[q].depth + 1 = items[p].depth
  BY <1>4, <1>6 DEF Walked
<1>d. \A p \in 1..n : items[p].key \in level[maxDepth]
  BY <1>4, <1>6 DEF Walked
<1>e. ~w.truncated => \A q \in 1..n : \A x \in t : x.parent = items[q].key =>
          \/ \E p \in 1..n : items[p].key = x.key
          \/ \E p \in 1..Len(w.frontier) : w.frontier[p] = items[q].key
  BY <1>4, <1>6 DEF Walked
<1>f. w.frontier = <<>> \/ n = maxNodes \/ w.depth = maxDepth
  BY <1>4, <1>6 DEF Walked
<1>7. items \in Seq(Entries(t)) /\ n \in Nat /\ n <= maxNodes /\ DOMAIN items = 1..n
  BY <1>6, <1>a DEF WalkStates
<1> DEFINE K == {items[p].key : p \in DOMAIN items}
<1>8. key \in K
  BY <1>7, <1>a
<1>9. K \subseteq WithinDepth(t, key, maxDepth)
  BY <1>3, <1>7, <1>d
<1>10. K \subseteq Reach(t, key)
  <2>1. key \in Reach(t, key) /\ Closed(t, Reach(t, key))
    BY <1>1, ReachIs
  <2>2. \A i \in 0..maxDepth : level[i] \subseteq Reach(t, key)
    <3> DEFINE R == Reach(t, key)
    <3> HIDE DEF R, t
    <3>1. QED
      BY <1>3, <2>1, LevelsStayIn DEF R
  <2>3. maxDepth \in 0..maxDepth
    OBVIOUS
  <2>4. QED
    BY <1>3, <1>9, <2>2, <2>3
<1>11. ASSUME ~a.truncated PROVE Reach(t, key) \subseteq K
  <2>1. ~w.truncated /\ ~(w.frontier # <<>> /\ (w.depth = maxDepth \/ n = maxNodes))
    BY <1>6, <1>11 DEF Cut
  <2>2. w.frontier = <<>>
    BY <1>f, <2>1
  <2>3. ~ \E p \in 1..Len(w.frontier) : TRUE
    BY <2>2
  <2>4. Closed(t, K)
    <3> SUFFICES ASSUME NEW x \in t, x.parent \in K PROVE x.key \in K
      BY DEF Closed
    <3>1. PICK q \in 1..n : items[q].key = x.parent
      BY <1>7
    <3>2. PICK p \in 1..n : items[p].key = x.key
      BY <1>e, <2>1, <2>3, <3>1
    <3>3. QED
      BY <1>7, <3>2
  <2> HIDE DEF K
  <2>5. QED
    BY <1>1, <1>8, <2>4, ReachIs
<1> HIDE DEF t, n
<1>12. /\ \A i, j \in DOMAIN items : i # j => items[i].key # items[j].key
       /\ \A i \in DOMAIN items : i > 1 =>
             \E j \in 1 .. (i - 1) : /\ items[j].key = Node(t, items[i].key).parent
                                     /\ items[j].depth + 1 = items[i].depth
  BY <1>7, <1>b, <1>c
<1>13. K = Reach(t, key) \/ a.truncated
  BY <1>10, <1>11
<1>14. QED
  BY <1>7, <1>9, <1>12, <1>13 DEF SubtreeIsWhole, items, t, n

-----------------------------------------------------------------------------
(***************************************************************************)
(* Offsets and searches                                                    *)
(***************************************************************************)

LEMMA ContainingAnswers ==
    ASSUME NEW d, stored[d] # None, stored[d] \in Encodable, NEW offset \in Int, NEW a,
           a.tree = stored[d], a.offset = offset, a.items = Containing(d, offset)
    PROVE  ContainingIsInnermost(a)
<1> DEFINE t == stored[d]
           hits == {n \in t : n.start <= offset /\ offset < n.end}
           Tighter(m, n) == \/ m.end - m.start < n.end - n.start
                            \/ /\ m.end - m.start = n.end - n.start
                               /\ m.start > n.start \/ (m.start = n.start /\ m.key < n.key)
           Best(n) == \A m \in hits \ {n} : Tighter(n, m)
<1>1. a.items = IF hits = {} THEN <<>> ELSE <<CHOOSE n \in hits : Best(n)>>
  BY DEF Containing
<1>2. CASE hits = {}
  BY <1>1, <1>2 DEF ContainingIsInnermost
<1>3. CASE hits # {}
  <2>1. /\ IsFiniteSet(hits) /\ hits \subseteq AllNodes /\ \A m, n \in hits : m.key = n.key => m = n
    <3>1. IsFiniteSet(t) /\ t \subseteq AllNodes /\ \A m, n \in t : m.key = n.key => m = n
      BY TreesAre
    <3>2. QED
      BY <3>1, FS_Subset
  <2>2. \A n \in hits : n.key \in Int /\ n.start \in Int /\ n.end \in Int
    BY <2>1, NodesAreTyped
  <2> DEFINE above == [x \in hits |-> {y \in hits : Tighter(y, x)}]
  <2>3. above \in [hits -> SUBSET hits] /\ \A x, y \in hits : y \in above[x] <=> Tighter(y, x)
    <3> HIDE DEF Tighter
    <3>1. QED
      OBVIOUS
  <2> HIDE DEF hits, above
  <2>4. \A x \in hits : x \notin above[x]
    BY <2>2, <2>3
  <2>5. \A x, y, z \in hits : Tighter(y, x) /\ Tighter(z, y) => Tighter(z, x)
    BY <2>2
  <2>6. \A x, y \in hits : x # y => Tighter(x, y) \/ Tighter(y, x)
    <3> SUFFICES ASSUME NEW x \in hits, NEW y \in hits, x # y PROVE Tighter(x, y) \/ Tighter(y, x)
      OBVIOUS
    <3>1. x.key # y.key
      BY <2>1
    <3>2. QED
      BY <2>2, <3>1
  <2> HIDE DEF Tighter
  <2>7. \A x, y, z \in hits : y \in above[x] /\ z \in above[y] => z \in above[x]
    BY <2>3, <2>5
  <2>8. PICK m \in hits : above[m] \cap hits = {}
    <3>1. hits \in SUBSET hits
      OBVIOUS
    <3>2. QED
      BY <1>3, <2>1, <2>3, <2>4, <2>7, <3>1, FiniteMaximal
  <2>9. Best(m)
    BY <2>3, <2>6, <2>8
  <2> DEFINE b == CHOOSE n \in hits : Best(n)
  <2>10. b \in hits /\ Best(b)
    <3> HIDE DEF Best
    <3>1. QED
      BY <2>9
  <2>11. a.items = <<b>>
    BY <1>1, <1>3
  <2> HIDE DEF b
  <2>12. a.items # <<>> /\ a.items[1] = b
    BY <2>11
  <2>13. \A n \in hits : ~(b.start <= n.start /\ n.end < b.end)
    <3> SUFFICES ASSUME NEW n \in hits, b.start <= n.start, n.end < b.end PROVE FALSE
      OBVIOUS
    <3>1. n # b
      BY <2>2, <2>10
    <3>2. Tighter(b, n)
      BY <2>10, <3>1
    <3>3. b.end - b.start <= n.end - n.start
      BY <2>2, <2>10, <3>2 DEF Tighter
    <3>4. QED
      BY <2>2, <2>10, <3>3
  <2>14. QED
    BY <2>10, <2>12, <2>13 DEF ContainingIsInnermost, hits
<1>4. QED
  BY <1>2, <1>3

\* The matches of one document, all of them.
FindsAll(d, lo, hi) ==
    stored[d] # None => \A n \in Overlaps(stored[d], lo, hi) :
        \E i \in 1..Len(Found(d, lo, hi)) : Found(d, lo, hi)[i] = <<d, n>>

LEMMA FoundIs ==
    ASSUME NEW d, stored[d] # None => stored[d] \in Encodable, NEW lo, NEW hi
    PROVE  /\ Found(d, lo, hi) \in Seq({d} \X AllNodes)
           /\ FindsAll(d, lo, hi)
<1> DEFINE hits == IF stored[d] = None THEN <<>> ELSE Overlapping(stored[d], lo, hi)
<1>1. Found(d, lo, hi) = [i \in DOMAIN hits |-> <<d, hits[i]>>]
  BY DEF Found
<1>2. /\ Len(hits) \in Nat /\ hits \in [1..Len(hits) -> AllNodes]
      /\ stored[d] # None => \A n \in Overlaps(stored[d], lo, hi) : \E i \in 1..Len(hits) : hits[i] = n
  <2>1. CASE stored[d] = None
    BY <2>1
  <2>2. CASE stored[d] # None
    <3> DEFINE t == stored[d]
               O == Overlaps(t, lo, hi)
               Earlier(m, n) == \/ m.start < n.start
                                \/ /\ m.start = n.start
                                   /\ m.end < n.end \/ (m.end = n.end /\ m.key < n.key)
               before == [n \in O |-> {m \in O : Earlier(m, n)}]
    <3>1. hits = Sorted(before)
      BY <2>2 DEF Overlapping
    <3>2. IsFiniteSet(O) /\ O \subseteq AllNodes /\ \A m, n \in O : m.key = n.key => m = n
      <4>1. IsFiniteSet(t) /\ t \subseteq AllNodes /\ \A m, n \in t : m.key = n.key => m = n
        BY <2>2, TreesAre
      <4>2. O \subseteq t
        BY DEF Overlaps
      <4>3. QED
        BY <4>1, <4>2, FS_Subset
    <3>3. \A n \in O : n.key \in Int /\ n.start \in Int /\ n.end \in Int
      BY <3>2, NodesAreTyped
    <3>4. DOMAIN before = O /\ before \in [O -> SUBSET O] /\ \A m, n \in O : m \in before[n] <=> Earlier(m, n)
      <4> HIDE DEF Earlier, O
      <4>1. QED
        OBVIOUS
    <3> HIDE DEF O, before, t, hits
    <3>5. \A n \in O : ~Earlier(n, n)
      BY <3>3
    <3>6. \A m, n \in O : m # n => Earlier(m, n) \/ Earlier(n, m)
      <4> SUFFICES ASSUME NEW m \in O, NEW n \in O, m # n PROVE Earlier(m, n) \/ Earlier(n, m)
        OBVIOUS
      <4>1. m.key # n.key
        BY <3>2
      <4>2. QED
        BY <3>3, <4>1
    <3>7. \A l, m, n \in O : Earlier(l, m) /\ Earlier(m, n) => Earlier(l, n)
      BY <3>3
    <3> HIDE DEF Earlier
    <3>8. Orders(before)
      <4>1. \A m, n \in O : m \in before[n] => before[m] \subseteq before[n]
        BY <3>4, <3>7
      <4>2. QED
        BY <3>2, <3>4, <3>5, <3>6, <4>1 DEF Orders
    <3> DEFINE k == Cardinality(DOMAIN before)
    <3> HIDE DEF k
    <3>9. Lists(hits, k, before)
      BY <3>1, <3>8, SortedLists DEF k
    <3>10. k \in Nat /\ hits \in [1..k -> O] /\ \A n \in O : \E i \in 1..k : hits[i] = n
      BY <3>4, <3>9 DEF Lists
    <3>11. Len(hits) = k /\ hits \in [1..k -> AllNodes]
      BY <3>2, <3>10, IntervalSequence
    <3>12. QED
      BY <3>10, <3>11 DEF O, t
  <2>3. QED
    BY <2>1, <2>2
<1> DEFINE pairs == Found(d, lo, hi)
           k == Len(hits)
<1> HIDE DEF hits, pairs
<1>3. k \in Nat /\ DOMAIN hits = 1..k
  BY <1>2
<1>4. pairs = [i \in 1..k |-> <<d, hits[i]>>]
  BY <1>1, <1>3 DEF pairs
<1> HIDE DEF k
<1>5. pairs \in [1..k -> {d} \X AllNodes]
  BY <1>2, <1>4 DEF k
<1>6. pairs \in Seq({d} \X AllNodes) /\ Len(pairs) = k
  BY <1>3, <1>5, IntervalSequence
<1>7. ASSUME stored[d] # None, NEW n \in Overlaps(stored[d], lo, hi)
      PROVE  \E i \in 1..Len(pairs) : pairs[i] = <<d, n>>
  <2>1. PICK i \in 1..k : hits[i] = n
    BY <1>2, <1>7 DEF k
  <2>2. QED
    BY <1>4, <1>6, <2>1
<1>8. QED
  BY <1>6, <1>7 DEF pairs, FindsAll

LEMMA SearchAnswers ==
    ASSUME StoredOK, NEW lo, NEW hi, NEW limit \in Nat, NEW a,
           a.trees = stored, a.lo = lo, a.hi = hi, a.limit = limit,
           a.items = Search(DocumentOrder, lo, hi, limit)
    PROVE  SearchIsWhole(a)
<1> DEFINE N == Len(DocumentOrder)
           S == Documents \X AllNodes
           seqs == [i \in 1..N |-> Found(DocumentOrder[i], lo, hi)]
           all == FlattenSeq(seqs)
<1>1. /\ N \in Nat /\ DOMAIN DocumentOrder = 1..N
      /\ \A i \in 1..N : DocumentOrder[i] \in Documents
      /\ \A d \in Documents : \E i \in 1..N : DocumentOrder[i] = d
  <2>1. DocumentOrder \in Seq(Range(DocumentOrder))
    BY LimitsAssumption
  <2>2. N \in Nat /\ DOMAIN DocumentOrder = 1..N
    BY <2>1
  <2> HIDE DEF N
  <2>3. QED
    BY <2>2 DEF Documents, Range
<1>2. a.items = FirstOf(limit, all)
  BY <1>1 DEF Search
<1>3. \A d \in Documents : stored[d] # None => stored[d] \in Encodable
  BY DEF StoredOK
<1> HIDE DEF all, N
<1>4. seqs \in [1..N -> Seq(S)]
  <2>1. ASSUME NEW i \in 1..N PROVE Found(DocumentOrder[i], lo, hi) \in Seq(S)
    <3> DEFINE d == DocumentOrder[i]
               T == {d} \X AllNodes
               s == Found(d, lo, hi)
    <3>1. s \in Seq(T)
      BY <1>1, <1>3, FoundIs
    <3>2. T \subseteq S
      BY <1>1
    <3> HIDE DEF d, T, s, S
    <3>3. s \in Seq(S)
      BY <3>1, <3>2
    <3>4. QED
      BY <3>3 DEF s, d
  <2> HIDE DEF S
  <2>2. QED
    BY <2>1
<1>5. Flat(all, S, seqs, N)
  <2> HIDE DEF seqs, S
  <2>1. QED
    BY <1>1, <1>4, FlattenIs DEF all
<1>6. /\ all \in Seq(S)
      /\ \A j \in 1..N : \A l \in 1..Len(seqs[j]) : \E p \in 1..Len(all) : all[p] = seqs[j][l]
  <2> HIDE DEF seqs, S
  <2>1. QED
    BY <1>5 DEF Flat
<1> HIDE DEF S
<1> SUFFICES ASSUME Len(a.items) < limit, NEW d \in Documents, stored[d] # None,
                    NEW n \in stored[d], n.start < hi, n.end > lo
             PROVE  <<d, n>> \in Range(a.items)
  BY DEF SearchIsWhole
<1> DEFINE items == a.items
<1>7. /\ items \in Seq(S) /\ Len(items) \in Nat
      /\ limit <= Len(all) => Len(items) = limit
      /\ Len(all) <= limit => Len(items) = Len(all)
      /\ \A i \in 1..Len(items) : items[i] = all[i]
  <2>1. /\ items \in Seq(S)
        /\ limit <= Len(all) => Len(items) = limit
        /\ Len(all) <= limit => Len(items) = Len(all)
        /\ \A i \in 1..Len(items) : items[i] = all[i]
    BY <1>2, <1>6, FirstOfIs
  <2> HIDE DEF items
  <2>2. QED
    BY <2>1
<1>8. Len(items) = Len(all)
  <2>1. Len(all) \in Nat /\ Len(items) < limit
    BY <1>6
  <2> HIDE DEF items
  <2>2. QED
    BY <1>7, <2>1
<1>9. PICK j \in 1..N : DocumentOrder[j] = d
  BY <1>1
<1>10. n \in Overlaps(stored[d], lo, hi)
  BY DEF Overlaps
<1>11. PICK l \in 1..Len(seqs[j]) : seqs[j][l] = <<d, n>>
  <2>1. seqs[j] = Found(d, lo, hi)
    BY <1>9
  <2>2. \E i \in 1..Len(Found(d, lo, hi)) : Found(d, lo, hi)[i] = <<d, n>>
    <3>1. stored[d] # None => stored[d] \in Encodable
      BY <1>3
    <3>2. FindsAll(d, lo, hi)
      BY <3>1, FoundIs
    <3>3. QED
      BY <1>10, <3>2 DEF FindsAll
  <2> HIDE DEF seqs
  <2>3. QED
    BY <2>1, <2>2
<1> HIDE DEF seqs, items
<1>12. PICK p \in 1..Len(all) : all[p] = <<d, n>>
  BY <1>6, <1>11
<1>13. p \in DOMAIN items /\ items[p] = <<d, n>>
  BY <1>7, <1>8, <1>12
<1>14. QED
  BY <1>13 DEF Range, items

\* Subtrees, the node at an offset, and searches are what they claim to be of
\* the trees they were answered from, whatever happens to the trees later.
THEOREM AnswersAreHonest == Spec => []AnswersAreWhole
<1>1. Init => AnswersAreWhole
  BY DEF Init, AnswersAreWhole
<1>2. ASSUME StoredOK, AnswersAreWhole, [Next]_vars PROVE AnswersAreWhole'
  <2>1. CASE answer' = None
    BY <2>1 DEF AnswersAreWhole
  <2>2. CASE answer' = answer
    <3> DEFINE whole(x) == /\ x.kind = "subtree" => SubtreeIsWhole(x)
                           /\ x.kind = "containing" => ContainingIsInnermost(x)
                           /\ x.kind = "search" => SearchIsWhole(x)
    <3>1. answer # None => whole(answer)
      BY <1>2 DEF AnswersAreWhole
    <3>2. answer' # None => whole(answer)
      BY <2>2, <3>1
    <3>3. answer' # None => whole(answer)'
      BY <2>2, <3>2 DEF SubtreeIsWhole, ContainingIsInnermost, SearchIsWhole
    <3>4. QED
      BY <3>3 DEF AnswersAreWhole
  <2>3. ASSUME NEW d \in Documents, stored[d] # None, NEW key \in Keys(stored[d]),
               NEW depth \in Depths, NEW limit \in NodeLimits, ReadSubtree(d, key, depth, limit)
        PROVE  AnswersAreWhole'
    <3> DEFINE r == Subtree(d, key, depth, limit)
    <3>1. answer' = [kind |-> "subtree", doc |-> d, tree |-> stored[d], key |-> key,
                     depth |-> depth, limit |-> limit, items |-> r.items, truncated |-> r.truncated]
      BY <2>3 DEF ReadSubtree
    <3> HIDE DEF r
    <3>2. /\ answer'.kind = "subtree" /\ answer'.tree = stored[d] /\ answer'.key = key
          /\ answer'.depth = depth /\ answer'.limit = limit
          /\ answer'.items = r.items /\ answer'.truncated = r.truncated
      BY <3>1
    <3>3. stored[d] \in Encodable /\ depth \in Nat /\ limit \in Nat \ {0}
      BY <1>2, <2>3, LimitsAssumption DEF StoredOK
    <3> DEFINE a == answer'
    <3>4. SubtreeIsWhole(a)
      <4>1. /\ a.tree = stored[d] /\ a.key = key /\ a.depth = depth /\ a.limit = limit
            /\ a.items = Subtree(d, key, depth, limit).items
            /\ a.truncated = Subtree(d, key, depth, limit).truncated
        BY <3>2 DEF r
      <4> HIDE DEF a
      <4>2. QED
        BY <2>3, <3>3, <4>1, SubtreeAnswers
    <3>5. QED
      BY <3>2, <3>4 DEF AnswersAreWhole
  <2>4. ASSUME NEW d \in Documents, stored[d] # None, NEW offset \in Offsets, ReadContaining(d, offset)
        PROVE  AnswersAreWhole'
    <3> DEFINE hit == Containing(d, offset)
    <3>1. answer' = [kind |-> "containing", doc |-> d, tree |-> stored[d], offset |-> offset, items |-> hit]
      BY <2>4 DEF ReadContaining
    <3> HIDE DEF hit
    <3>2. /\ answer'.kind = "containing" /\ answer'.tree = stored[d] /\ answer'.offset = offset
          /\ answer'.items = hit
      BY <3>1
    <3>3. stored[d] \in Encodable /\ offset \in Int
      BY <1>2, <2>4, LimitsAssumption DEF StoredOK
    <3> DEFINE a == answer'
    <3>4. ContainingIsInnermost(a)
      <4>1. a.tree = stored[d] /\ a.offset = offset /\ a.items = Containing(d, offset)
        BY <3>2 DEF hit
      <4> HIDE DEF a
      <4>2. QED
        BY <2>4, <3>3, <4>1, ContainingAnswers
    <3>5. QED
      BY <3>2, <3>4 DEF AnswersAreWhole
  <2>5. ASSUME NEW lo \in Offsets, NEW hi \in Offsets, NEW limit \in PageSizes, ReadSearch(lo, hi, limit)
        PROVE  AnswersAreWhole'
    <3>1. CASE hi <= lo \/ ~Searchable
      <4>1. answer' = answer
        BY <2>5, <3>1 DEF ReadSearch
      <4>2. QED
        BY <2>2, <4>1
    <3>2. CASE ~(hi <= lo \/ ~Searchable)
      <4> DEFINE hits == Search(DocumentOrder, lo, hi, limit)
      <4>1. answer' = [kind |-> "search", trees |-> stored, lo |-> lo, hi |-> hi,
                       limit |-> limit, items |-> hits]
        BY <2>5, <3>2 DEF ReadSearch
      <4> HIDE DEF hits
      <4>2. /\ answer'.kind = "search" /\ answer'.trees = stored /\ answer'.lo = lo /\ answer'.hi = hi
            /\ answer'.limit = limit /\ answer'.items = hits
        BY <4>1
      <4>3. limit \in Nat
        BY LimitsAssumption
      <4> DEFINE a == answer'
      <4>4. SearchIsWhole(a)
        <5>1. /\ a.trees = stored /\ a.lo = lo /\ a.hi = hi /\ a.limit = limit
              /\ a.items = Search(DocumentOrder, lo, hi, limit)
          BY <4>2 DEF hits
        <5> HIDE DEF a
        <5>2. QED
          BY <1>2, <4>3, <5>1, SearchAnswers
      <4>5. QED
        BY <4>2, <4>4 DEF AnswersAreWhole
    <3>3. QED
      BY <3>1, <3>2
  <2>6. CASE Read
    <3>1. ASSUME NEW d \in Documents, NEW key, NEW limit, OpenPages(d, key, limit) PROVE AnswersAreWhole'
      BY <2>1, <3>1 DEF OpenPages
    <3>2. CASE NextPage
      BY <2>2, <3>2 DEF NextPage
    <3>3. QED
      BY <2>3, <2>4, <2>5, <2>6, <3>1, <3>2 DEF Read
  <2>7. CASE Write
    BY <2>2, <2>7 DEF Write, DropDocument, CreateDocument, StoreDocument
  <2>8. QED
    BY <1>2, <2>1, <2>2, <2>6, <2>7 DEF Next, vars, Choose, Decide, Propose, Normalize
<1>3. QED
  BY <1>1, <1>2, ReadsInvariant, PTL DEF Spec

-----------------------------------------------------------------------------
(***************************************************************************)
(* Lists with entries left out                                             *)
(***************************************************************************)

\* part has the entries of seq at the positions P, each of them once.
PartOf(part, S, seq, P) ==
    /\ part \in Seq(S)
    /\ \A p \in 1..Len(part) : \E i \in P : part[p] = seq[i]
    /\ \A i \in P : \E p \in 1..Len(part) : part[p] = seq[i]
    /\ (\A i, j \in P : i # j => seq[i] # seq[j])
          => \A p, q \in 1..Len(part) : p # q => part[p] # part[q]

LEMMA AtIs ==
    ASSUME NEW S, NEW seq \in Seq(S), NEW P \in SUBSET (1..Len(seq))
    PROVE  PartOf(At(seq, P), S, seq, P)
<1> DEFINE N == Len(seq)
           one == [i \in 1..N |-> IF i \in P THEN <<seq[i]>> ELSE <<>>]
           part == FlattenSeq(one)
<1>1. N \in Nat /\ DOMAIN seq = 1..N /\ \A i \in 1..N : seq[i] \in S
  OBVIOUS
<1>2. At(seq, P) = part
  BY <1>1 DEF At
<1> HIDE DEF N
<1>3. \A i \in 1..N : one[i] = IF i \in P THEN <<seq[i]>> ELSE <<>>
  OBVIOUS
<1>4. one \in [1..N -> Seq(S)]
  <2>1. ASSUME NEW i \in 1..N PROVE (IF i \in P THEN <<seq[i]>> ELSE <<>>) \in Seq(S)
    BY <1>1
  <2>2. QED
    BY <2>1
<1>5. Flat(part, S, one, N)
  <2> HIDE DEF one
  <2>1. QED
    BY <1>1, <1>4, FlattenIs
<1> HIDE DEF part, one
<1>6. \A i \in 1..N : /\ i \in P => Len(one[i]) = 1 /\ one[i][1] = seq[i]
                      /\ i \notin P => Len(one[i]) = 0
  <2>1. \A i \in 1..N : i \in P => one[i] = <<seq[i]>>
    BY <1>3
  <2>2. \A i \in 1..N : i \notin P => one[i] = <<>>
    BY <1>3
  <2>3. (\A x : Len(<<x>>) = 1 /\ <<x>>[1] = x) /\ Len(<<>>) = 0
    OBVIOUS
  <2>4. \A i \in 1..N : i \in P => Len(one[i]) = 1 /\ one[i][1] = seq[i]
    BY <2>1, <2>3
  <2>5. \A i \in 1..N : i \notin P => Len(one[i]) = 0
    BY <2>2, <2>3
  <2>6. QED
    BY <2>4, <2>5
<1>7. P \subseteq 1..N
  BY DEF N
<1>8. /\ part \in Seq(S)
      /\ \A p \in 1..Len(part) : \E j \in 1..N : \E l \in 1..Len(one[j]) : part[p] = one[j][l]
      /\ \A j \in 1..N : \A l \in 1..Len(one[j]) : \E p \in 1..Len(part) : part[p] = one[j][l]
      /\ Apart(one, N) => \A p, q \in 1..Len(part) : p # q => part[p] # part[q]
  BY <1>5 DEF Flat
<1>9. ASSUME NEW j \in 1..N, NEW l \in 1..Len(one[j])
      PROVE  j \in P /\ l = 1 /\ one[j][l] = seq[j]
  <2>1. j \in P
    BY <1>6
  <2>2. Len(one[j]) = 1
    BY <1>6, <2>1
  <2>3. l = 1
    BY <2>2
  <2>4. QED
    BY <1>6, <2>1, <2>3
<1>10. \A p \in 1..Len(part) : \E i \in P : part[p] = seq[i]
  <2> SUFFICES ASSUME NEW p \in 1..Len(part) PROVE \E i \in P : part[p] = seq[i]
    OBVIOUS
  <2>1. PICK j \in 1..N : \E l \in 1..Len(one[j]) : part[p] = one[j][l]
    BY <1>8
  <2>2. QED
    BY <1>9, <2>1
<1>11. \A i \in P : \E p \in 1..Len(part) : part[p] = seq[i]
  <2> SUFFICES ASSUME NEW i \in P PROVE \E p \in 1..Len(part) : part[p] = seq[i]
    OBVIOUS
  <2>1. i \in 1..N /\ 1 \in 1..Len(one[i]) /\ one[i][1] = seq[i]
    BY <1>6, <1>7
  <2>2. QED
    BY <1>8, <2>1
<1>12. ASSUME \A i, j \in P : i # j => seq[i] # seq[j]
       PROVE  Apart(one, N)
  <2> SUFFICES ASSUME NEW i \in 1..N, NEW j \in 1..N, NEW k \in 1..Len(one[i]), NEW l \in 1..Len(one[j]),
                      i # j \/ k # l
               PROVE  one[i][k] # one[j][l]
    BY DEF Apart
  <2>1. i \in P /\ k = 1 /\ one[i][k] = seq[i] /\ j \in P /\ l = 1 /\ one[j][l] = seq[j]
    BY <1>9
  <2>2. QED
    BY <1>12, <2>1
<1>13. QED
  BY <1>2, <1>8, <1>10, <1>11, <1>12 DEF PartOf

-----------------------------------------------------------------------------
(***************************************************************************)
(* Claims                                                                  *)
(***************************************************************************)

\* A proposal that got through parsing and validation.
Accepted(q) ==
    /\ q.evidence \in Seq(Range(q.evidence))
    /\ q.confidence \in 0..Certain
    /\ \E c : q.ast = <<c>>
    /\ WellFormed(q) /\ Codes(q, Scope, Allowed) = {}

\* The claim one accepted proposal supports, before any merge.
Supported(d) ==
    /\ d = [role |-> d.role, text |-> d.text, key |-> d.key, ast |-> d.ast, cites |-> d.cites,
            evidence |-> d.evidence, origins |-> d.origins, requires |-> d.requires,
            confidence |-> d.confidence, uncertain |-> d.uncertain]
    /\ d.evidence \in Seq(Range(d.evidence)) /\ d.evidence # <<>>
    /\ \A i, j \in 1..Len(d.evidence) : i # j => d.evidence[i].cite # d.evidence[j].cite
    /\ d.cites = Cites(d.evidence)
    /\ \A s \in d.cites \cup d.ast : s.scope = Scope
    /\ d.confidence \in 0..Certain /\ (d.confidence < Certain => d.uncertain)
    /\ d.key[1] = d.role
    /\ d.role = "implementation" =>
          /\ d.requires \subseteq Backed(d.evidence)
          /\ d.ast # {}
          /\ \E i \in 1..Len(d.evidence) : d.evidence[i].role = "implementation"
    /\ d.role = "product_intent" => \A i \in 1..Len(d.evidence) : d.evidence[i].role = "product_intent"

BehaviorClaim(p) == Claim(p, "implementation", p.text, p.behavior, Range(p.ast), p.evidence)
IntentClaim(p) ==
    Claim(p, "product_intent", p.intent, p.intent, {}, OfRole(p.evidence, "product_intent"))

\* What no issue code says.
LEMMA AcceptedIs ==
    ASSUME NEW p, Accepted(p)
    PROVE  /\ \A i, j \in DOMAIN p.evidence : i # j => p.evidence[i].cite # p.evidence[j].cite
           /\ \A i \in DOMAIN p.ast : p.ast[i].scope = Scope
           /\ \A i \in DOMAIN p.evidence : p.evidence[i].cite.scope = Scope
           /\ \E i \in DOMAIN p.evidence : p.evidence[i].role = "implementation"
           /\ p.status = "observed" => \E i \in DOMAIN p.evidence : p.evidence[i].role = "product_intent"
           /\ Required(p) \subseteq Covered(p.evidence)
<1>1. Codes(p, Scope, Allowed) = {}
  BY DEF Accepted
<1>2. ~CitedTwice(p)
  BY <1>1 DEF Codes
<1>3. Scopes(p) = {Scope}
  BY <1>1 DEF Codes
<1>4. "implementation" \in Roles(p)
  BY <1>1 DEF Codes
<1>5. p.status = "observed" => "product_intent" \in Roles(p)
  BY <1>1 DEF Codes
<1>6. Required(p) \subseteq Covered(p.evidence)
  <2> DEFINE ok == Required(p) \subseteq Covered(p.evidence)
  <2>1. "uncited" \notin Codes(p, Scope, Allowed)
    BY <1>1
  <2>2. ~ok => "uncited" \in Codes(p, Scope, Allowed)
    BY DEF Codes
  <2>3. QED
    BY <2>1, <2>2
<1>7. \A i \in DOMAIN p.ast : p.ast[i].scope = Scope
  BY <1>3 DEF Scopes
<1>8. \A i \in DOMAIN p.evidence : p.evidence[i].cite.scope = Scope
  BY <1>3 DEF Scopes
<1>9. QED
  BY <1>2, <1>4, <1>5, <1>6, <1>7, <1>8 DEF CitedTwice, Roles

LEMMA CoveredIsBacked ==
    ASSUME NEW evidence
    PROVE  Covered(evidence) \subseteq Backed(evidence)
<1>1. \A i \in DOMAIN evidence : evidence[i].role \in Supportive => evidence[i].role # "counterevidence"
  BY DEF Supportive
<1>2. QED
  BY <1>1 DEF Covered, Backed

LEMMA BehaviorIsSupported ==
    ASSUME NEW p, Accepted(p)
    PROVE  /\ Supported(BehaviorClaim(p))
           /\ BehaviorClaim(p).role = "implementation" /\ BehaviorClaim(p).origins = {p}
           /\ BehaviorClaim(p).cites = Cites(p.evidence) /\ BehaviorClaim(p).ast = Range(p.ast)
           /\ BehaviorClaim(p).confidence = p.confidence
<1> DEFINE d == BehaviorClaim(p)
<1>1. d = [role |-> "implementation", text |-> p.text,
           key |-> <<"implementation", NormalForm[p.text], NormalForm[p.behavior]>>,
           ast |-> Range(p.ast), cites |-> Cites(p.evidence), evidence |-> p.evidence, origins |-> {p},
           requires |-> Required(p), confidence |-> p.confidence, uncertain |-> p.uncertain]
  BY DEF BehaviorClaim, Claim
<1> HIDE DEF d
<1>2. /\ d.role = "implementation" /\ d.key[1] = "implementation" /\ d.ast = Range(p.ast)
      /\ d.cites = Cites(p.evidence) /\ d.evidence = p.evidence /\ d.origins = {p}
      /\ d.requires = Required(p) /\ d.confidence = p.confidence /\ d.uncertain = p.uncertain
  BY <1>1
<1>3. d = [role |-> d.role, text |-> d.text, key |-> d.key, ast |-> d.ast, cites |-> d.cites,
           evidence |-> d.evidence, origins |-> d.origins, requires |-> d.requires,
           confidence |-> d.confidence, uncertain |-> d.uncertain]
  BY <1>1
<1>4. /\ p.evidence \in Seq(Range(p.evidence)) /\ p.evidence # <<>>
      /\ p.confidence \in 0..Certain /\ (p.confidence < Certain => p.uncertain)
  BY DEF Accepted, WellFormed
<1>5. DOMAIN p.evidence = 1..Len(p.evidence)
  BY <1>4
<1>6. \A s \in Cites(p.evidence) \cup Range(p.ast) : s.scope = Scope
  BY AcceptedIs DEF Cites, Range
<1>7. Range(p.ast) # {}
  <2>1. PICK c : p.ast = <<c>>
    BY DEF Accepted
  <2>2. 1 \in DOMAIN p.ast
    BY <2>1
  <2>3. QED
    BY <2>2 DEF Range
<1>8. Required(p) \subseteq Backed(p.evidence)
  BY AcceptedIs, CoveredIsBacked
<1>9. /\ \A i, j \in 1..Len(p.evidence) : i # j => p.evidence[i].cite # p.evidence[j].cite
      /\ \E i \in 1..Len(p.evidence) : p.evidence[i].role = "implementation"
  BY <1>5, AcceptedIs
<1>10. Supported(d)
  <2>1. ~(d.role = "product_intent")
    BY <1>2
  <2>2. QED
    BY <1>2, <1>3, <1>4, <1>6, <1>7, <1>8, <1>9, <2>1 DEF Supported
<1>11. QED
  BY <1>2, <1>10 DEF d

LEMMA IntentIsSupported ==
    ASSUME NEW p, Accepted(p), p.status = "observed"
    PROVE  Supported(IntentClaim(p))
<1> DEFINE d == IntentClaim(p)
           evidence == p.evidence
           kept == OfRole(evidence, "product_intent")
           P == {i \in 1..Len(evidence) : evidence[i].role = "product_intent"}
           S == Range(evidence)
<1>1. d = [role |-> "product_intent", text |-> p.intent,
           key |-> <<"product_intent", NormalForm[p.intent], NormalForm[p.intent]>>,
           ast |-> {}, cites |-> Cites(kept), evidence |-> kept, origins |-> {p},
           requires |-> Required(p), confidence |-> p.confidence, uncertain |-> p.uncertain]
  BY DEF IntentClaim, Claim
<1> HIDE DEF d
<1>2. /\ d.role = "product_intent" /\ d.key[1] = "product_intent" /\ d.ast = {}
      /\ d.cites = Cites(kept) /\ d.evidence = kept /\ d.confidence = p.confidence
      /\ d.uncertain = p.uncertain
  BY <1>1
<1>3. d = [role |-> d.role, text |-> d.text, key |-> d.key, ast |-> d.ast, cites |-> d.cites,
           evidence |-> d.evidence, origins |-> d.origins, requires |-> d.requires,
           confidence |-> d.confidence, uncertain |-> d.uncertain]
  BY <1>1
<1>4. /\ evidence \in Seq(S)
      /\ p.confidence \in 0..Certain /\ (p.confidence < Certain => p.uncertain)
  BY DEF Accepted, WellFormed
<1>5. DOMAIN evidence = 1..Len(evidence)
  BY <1>4
<1>6. /\ \A i, j \in 1..Len(evidence) : i # j => evidence[i].cite # evidence[j].cite
      /\ \A i \in 1..Len(evidence) : evidence[i].cite.scope = Scope
      /\ \E i \in P : TRUE
  BY <1>5, AcceptedIs
<1>7. kept = At(evidence, P)
  BY <1>5 DEF OfRole
<1> HIDE DEF kept, evidence, S
<1>8. PartOf(kept, S, evidence, P)
  <2>1. P \in SUBSET (1..Len(evidence))
    OBVIOUS
  <2> HIDE DEF P
  <2>2. QED
    BY <1>4, <1>7, <2>1, AtIs
<1>9. P \subseteq 1..Len(evidence) /\ \A i \in P : evidence[i].role = "product_intent"
  OBVIOUS
<1> HIDE DEF P
<1>10. /\ kept \in Seq(S)
       /\ \A k \in 1..Len(kept) : \E i \in P : kept[k] = evidence[i]
       /\ \A i \in P : \E k \in 1..Len(kept) : kept[k] = evidence[i]
       /\ \A k, l \in 1..Len(kept) : k # l => kept[k] # kept[l]
  <2>1. \A i, j \in P : i # j => evidence[i] # evidence[j]
    BY <1>6, <1>9
  <2>2. QED
    BY <1>8, <2>1 DEF PartOf
<1>11. /\ \A k \in 1..Len(kept) : kept[k].cite.scope = Scope
       /\ \A k \in 1..Len(kept) : kept[k].role = "product_intent"
  <2>1. ASSUME NEW k \in 1..Len(kept) PROVE kept[k].cite.scope = Scope /\ kept[k].role = "product_intent"
    <3>1. PICK i \in P : kept[k] = evidence[i]
      BY <1>10
    <3>2. i \in 1..Len(evidence)
      BY <1>9
    <3>3. QED
      BY <1>6, <1>9, <3>1, <3>2
  <2>2. QED
    BY <2>1
<1>12. kept # <<>> /\ kept \in Seq(Range(kept)) /\ DOMAIN kept = 1..Len(kept)
  <2>1. DOMAIN kept = 1..Len(kept) /\ Len(kept) \in Nat
    BY <1>10
  <2>2. PICK k \in 1..Len(kept) : TRUE
    BY <1>6, <1>10
  <2>3. kept # <<>>
    BY <2>1, <2>2
  <2>4. kept \in [1..Len(kept) -> Range(kept)]
    BY <1>10, <2>1 DEF Range
  <2>5. QED
    BY <2>1, <2>3, <2>4
<1>13. \A k, l \in 1..Len(kept) : k # l => kept[k].cite # kept[l].cite
  <2> SUFFICES ASSUME NEW k \in 1..Len(kept), NEW l \in 1..Len(kept), kept[k].cite = kept[l].cite, k # l
               PROVE  FALSE
    OBVIOUS
  <2>1. PICK i \in P : kept[k] = evidence[i]
    BY <1>10
  <2>2. PICK j \in P : kept[l] = evidence[j]
    BY <1>10
  <2>3. i = j
    BY <1>6, <1>9, <2>1, <2>2
  <2>4. QED
    BY <1>10, <2>1, <2>2, <2>3
<1>14. \A s \in Cites(kept) : s.scope = Scope
  BY <1>11, <1>12 DEF Cites
<1>15. Supported(d)
  <2>1. ~(d.role = "implementation")
    BY <1>2
  <2>2. QED
    BY <1>2, <1>3, <1>4, <1>11, <1>12, <1>13, <1>14, <2>1 DEF Supported
<1>16. QED
  BY <1>15 DEF d

\* kept has, of every citation in entries, the first entry; each once.
LEMMA FirstEntries ==
    ASSUME NEW E, NEW entries \in Seq(E)
    PROVE  LET kept == FirstPerCitation(entries)
           IN  /\ kept \in Seq(E)
               /\ \A k \in 1..Len(kept) : \E i \in 1..Len(entries) : kept[k] = entries[i]
               /\ \A i \in 1..Len(entries) : \E k \in 1..Len(kept) : kept[k].cite = entries[i].cite
               /\ \A i \in 1..Len(entries) :
                     (\A j \in 1..Len(entries) : j < i => entries[j].cite # entries[i].cite)
                        => \E k \in 1..Len(kept) : kept[k] = entries[i]
               /\ \A k, l \in 1..Len(kept) : k # l => kept[k].cite # kept[l].cite
<1> DEFINE n == Len(entries)
           kept == FirstPerCitation(entries)
           P == {i \in 1..n : \A j \in 1..n : j < i => entries[j].cite # entries[i].cite}
<1>1. n \in Nat /\ DOMAIN entries = 1..n
  OBVIOUS
<1>2. kept = At(entries, P)
  BY <1>1 DEF FirstPerCitation
<1>3. P \in SUBSET (1..n)
  OBVIOUS
<1>4. \A i \in 1..n : i \in P <=> \A j \in 1..n : j < i => entries[j].cite # entries[i].cite
  OBVIOUS
<1> HIDE DEF P, kept
<1>5. PartOf(kept, E, entries, P)
  BY <1>2, <1>3, AtIs
<1> HIDE DEF n
<1>6. \A i, j \in P : i # j => entries[i].cite # entries[j].cite
  <2> SUFFICES ASSUME NEW i \in P, NEW j \in P, i # j PROVE entries[i].cite # entries[j].cite
    OBVIOUS
  <2>1. i \in 1..n /\ j \in 1..n /\ (i < j \/ j < i)
    BY <1>1, <1>3
  <2>2. QED
    BY <1>4, <2>1
<1>7. \A i, j \in P : i # j => entries[i] # entries[j]
  BY <1>6
<1>8. /\ kept \in Seq(E)
      /\ \A k \in 1..Len(kept) : \E i \in P : kept[k] = entries[i]
      /\ \A i \in P : \E k \in 1..Len(kept) : kept[k] = entries[i]
      /\ \A k, l \in 1..Len(kept) : k # l => kept[k] # kept[l]
  BY <1>5, <1>7 DEF PartOf
<1>9. ASSUME NEW i \in 1..n PROVE \E k \in 1..Len(kept) : kept[k].cite = entries[i].cite
  <2> DEFINE Same == {j \in 1..n : entries[j].cite = entries[i].cite}
  <2>1. Same \in SUBSET Nat /\ Same # {} /\ Same \subseteq 1..n
    BY <1>1
  <2>2. PICK m \in Same : \A j \in Same : m <= j
    <3> HIDE DEF Same
    <3>1. QED
      BY <2>1, LeastNatural
  <2>3. ASSUME NEW j \in 1..n, j < m PROVE entries[j].cite # entries[m].cite
    <3>1. j \notin Same
      BY <1>1, <2>1, <2>2, <2>3
    <3>2. QED
      BY <2>2, <3>1
  <2>4. m \in P
    BY <1>4, <2>1, <2>2, <2>3
  <2>5. QED
    BY <1>8, <2>2, <2>4
<1>10. \A k, l \in 1..Len(kept) : k # l => kept[k].cite # kept[l].cite
  <2> SUFFICES ASSUME NEW k \in 1..Len(kept), NEW l \in 1..Len(kept), k # l, kept[k].cite = kept[l].cite
               PROVE  FALSE
    OBVIOUS
  <2>1. PICK i \in P : kept[k] = entries[i]
    BY <1>8
  <2>2. PICK j \in P : kept[l] = entries[j]
    BY <1>8
  <2>3. i = j
    BY <1>6, <2>1, <2>2
  <2>4. QED
    BY <1>8, <2>1, <2>2, <2>3
<1>11. \A k \in 1..Len(kept) : \E i \in 1..n : kept[k] = entries[i]
  BY <1>3, <1>8
<1>12. \A i \in 1..n : (\A j \in 1..n : j < i => entries[j].cite # entries[i].cite)
                          => \E k \in 1..Len(kept) : kept[k] = entries[i]
  BY <1>4, <1>8
<1>13. QED
  BY <1>8, <1>9, <1>10, <1>11, <1>12 DEF kept, n

\* The greatest of finitely many confidences.
LEMMA MaxIs ==
    ASSUME NEW top \in Nat, NEW V \in SUBSET (0..top), V # {}
    PROVE  Max(V) \in V /\ \A v \in V : v <= Max(V)
<1> DEFINE Gaps == {top - v : v \in V}
<1>1. Gaps \in SUBSET Nat /\ Gaps # {}
  <2>1. \A v \in V : v \in 0..top
    OBVIOUS
  <2>2. \A v \in V : top - v \in Nat
    BY <2>1
  <2>3. QED
    BY <2>2
<1>2. PICK g \in Gaps : \A h \in Gaps : g <= h
  <2> HIDE DEF Gaps
  <2>1. QED
    BY <1>1, LeastNatural
<1>3. PICK m \in V : g = top - m
  BY <1>2
<1>4. \A v \in V : v <= m
  <2> SUFFICES ASSUME NEW v \in V PROVE v <= m
    OBVIOUS
  <2>1. top - v \in Gaps
    OBVIOUS
  <2>2. top - m <= top - v
    BY <1>2, <1>3, <2>1
  <2>3. v \in Int /\ m \in Int
    OBVIOUS
  <2>4. QED
    BY <2>2, <2>3
<1> DEFINE Best(x) == \A v \in V : x >= v
<1>5. Best(m)
  BY <1>4
<1>6. Max(V) = CHOOSE x \in V : Best(x)
  BY DEF Max
<1>7. (CHOOSE x \in V : Best(x)) \in V /\ Best(CHOOSE x \in V : Best(x))
  <2> HIDE DEF Best
  <2>1. QED
    BY <1>5
<1>8. QED
  BY <1>6, <1>7

\* What a claim must rest on, once merged.
Rests(c) ==
    /\ c.cites = Cites(c.evidence) /\ Cardinality(c.cites) = Len(c.evidence)
    /\ \A s \in c.cites \cup c.ast : s.scope = Scope
    /\ c.confidence < Certain => c.uncertain
    /\ c.role = "implementation" =>
          /\ c.requires \subseteq Backed(c.evidence)
          /\ c.ast # {}
          /\ \E i \in DOMAIN c.evidence : c.evidence[i].role = "implementation"
    /\ c.role = "product_intent" =>
          c.evidence # <<>> /\ \A i \in DOMAIN c.evidence : c.evidence[i].role = "product_intent"

\* A merged claim is the first of its group, with all the group has.
Merges(c, group) ==
    /\ c.role = group[1].role /\ c.key = group[1].key
    /\ \A i \in 1..Len(group) :
          /\ group[i].origins \subseteq c.origins /\ group[i].cites \subseteq c.cites
          /\ group[i].ast \subseteq c.ast /\ c.confidence >= group[i].confidence

LEMMA MergedIs ==
    ASSUME NEW S, NEW group \in Seq(S), group # <<>>, \A d \in S : Supported(d),
           \A i \in 1..Len(group) : group[i].key = group[1].key
    PROVE  Rests(Merged(group)) /\ Merges(Merged(group), group)
<1> DEFINE n == Len(group)
           c == Merged(group)
           evs == [i \in 1..n |-> group[i].evidence]
           entries == FlattenSeq(evs)
           kept == FirstPerCitation(entries)
           E == UNION {Range(group[i].evidence) : i \in 1..n}
           V == {group[i].confidence : i \in 1..n}
           first == group[1]
<1>1. n \in Nat /\ n >= 1 /\ 1 \in 1..n /\ DOMAIN group = 1..n /\ \A i \in 1..n : Supported(group[i])
  <2> HIDE DEF c, evs, entries, kept, E, V, first
  <2>1. n \in Nat /\ n # 0 /\ DOMAIN group = 1..n /\ \A i \in 1..n : group[i] \in S
    OBVIOUS
  <2> HIDE DEF n
  <2>2. QED
    BY <2>1
<1> HIDE DEF n
<1>2. c = [first EXCEPT
              !.ast = UNION {group[i].ast : i \in 1..n},
              !.cites = UNION {group[i].cites : i \in 1..n},
              !.origins = UNION {group[i].origins : i \in 1..n},
              !.evidence = kept,
              !.confidence = Max(V)]
  BY <1>1 DEF Merged
<1>3. \A i \in 1..n : group[i].role = first.role
  <2> SUFFICES ASSUME NEW i \in 1..n PROVE group[i].role = first.role
    OBVIOUS
  <2>1. Supported(group[i]) /\ Supported(first) /\ group[i].key = first.key
    BY <1>1 DEF n
  <2>2. QED
    BY <2>1 DEF Supported
<1>4. Supported(first)
  BY <1>1
<1> HIDE DEF c, kept, V, first
<1>5. /\ c.role = first.role /\ c.key = first.key /\ c.requires = first.requires
      /\ c.uncertain = first.uncertain
      /\ c.ast = UNION {group[i].ast : i \in 1..n}
      /\ c.cites = UNION {group[i].cites : i \in 1..n}
      /\ c.origins = UNION {group[i].origins : i \in 1..n}
      /\ c.evidence = kept
      /\ c.confidence = Max(V)
  <2>1. first = [role |-> first.role, text |-> first.text, key |-> first.key, ast |-> first.ast,
                 cites |-> first.cites, evidence |-> first.evidence, origins |-> first.origins,
                 requires |-> first.requires, confidence |-> first.confidence,
                 uncertain |-> first.uncertain]
    BY <1>4 DEF Supported
  <2> DEFINE ast == UNION {group[i].ast : i \in 1..n}
             cites == UNION {group[i].cites : i \in 1..n}
             origins == UNION {group[i].origins : i \in 1..n}
             confidence == Max(V)
  <2> HIDE DEF ast, cites, origins, confidence
  <2>2. c = [first EXCEPT !.ast = ast, !.cites = cites, !.origins = origins, !.evidence = kept,
                          !.confidence = confidence]
    BY <1>2 DEF ast, cites, origins, confidence
  <2>3. /\ c.role = first.role /\ c.key = first.key /\ c.requires = first.requires
        /\ c.uncertain = first.uncertain /\ c.ast = ast /\ c.cites = cites /\ c.origins = origins
        /\ c.evidence = kept /\ c.confidence = confidence
    BY <2>1, <2>2
  <2>4. QED
    BY <2>3 DEF ast, cites, origins, confidence
<1>6. /\ evs \in [1..n -> Seq(E)] /\ \A i \in 1..n : evs[i] = group[i].evidence
  <2>1. ASSUME NEW i \in 1..n PROVE group[i].evidence \in Seq(E)
    <3> DEFINE R == Range(group[i].evidence)
    <3>1. group[i].evidence \in Seq(R)
      BY <1>1 DEF Supported
    <3>2. R \subseteq E
      OBVIOUS
    <3> HIDE DEF R, E
    <3>3. QED
      BY <3>1, <3>2
  <2> HIDE DEF E
  <2>2. QED
    BY <2>1
<1> HIDE DEF evs, E
<1>7. Flat(entries, E, evs, n)
  BY <1>1, <1>6, FlattenIs
<1> HIDE DEF entries
<1>8. /\ entries \in Seq(E)
      /\ \A p \in 1..Len(entries) : \E j \in 1..n : \E l \in 1..Len(evs[j]) : entries[p] = evs[j][l]
      /\ \A j \in 1..n : \A l \in 1..Len(evs[j]) : \E p \in 1..Len(entries) : entries[p] = evs[j][l]
      /\ Len(evs[1]) <= Len(entries) /\ \A p \in 1..Len(evs[1]) : entries[p] = evs[1][p]
  <2>1. n # 0
    BY <1>1
  <2>2. QED
    BY <1>7, <2>1 DEF Flat
<1>9. /\ kept \in Seq(E)
      /\ \A k \in 1..Len(kept) : \E i \in 1..Len(entries) : kept[k] = entries[i]
      /\ \A i \in 1..Len(entries) : \E k \in 1..Len(kept) : kept[k].cite = entries[i].cite
      /\ \A i \in 1..Len(entries) :
            (\A j \in 1..Len(entries) : j < i => entries[j].cite # entries[i].cite)
               => \E k \in 1..Len(kept) : kept[k] = entries[i]
      /\ \A k, l \in 1..Len(kept) : k # l => kept[k].cite # kept[l].cite
  BY <1>8, FirstEntries DEF kept
<1>10. DOMAIN kept = 1..Len(kept) /\ Len(kept) \in Nat
  BY <1>9
<1>11. \A i \in 1..n : /\ group[i].cites = Cites(evs[i])
                       /\ DOMAIN evs[i] = 1..Len(evs[i]) /\ Len(evs[i]) \in Nat
  <2> SUFFICES ASSUME NEW i \in 1..n
               PROVE /\ group[i].cites = Cites(evs[i])
                     /\ DOMAIN evs[i] = 1..Len(evs[i]) /\ Len(evs[i]) \in Nat
    OBVIOUS
  <2>1. Supported(group[i]) /\ evs[i] = group[i].evidence /\ evs[i] \in Seq(E)
    BY <1>1, <1>6
  <2>2. DOMAIN evs[i] = 1..Len(evs[i]) /\ Len(evs[i]) \in Nat
    BY <2>1
  <2>3. QED
    BY <2>1, <2>2 DEF Supported
<1>12. c.cites = Cites(kept)
  <2>1. ASSUME NEW s \in c.cites PROVE s \in Cites(kept)
    <3>1. PICK i \in 1..n : s \in group[i].cites
      BY <1>5, <2>1
    <3>2. PICK l \in 1..Len(evs[i]) : s = evs[i][l].cite
      BY <1>11, <3>1 DEF Cites
    <3>3. PICK p \in 1..Len(entries) : entries[p] = evs[i][l]
      BY <1>8
    <3>4. PICK k \in 1..Len(kept) : kept[k].cite = s
      <4>1. entries[p].cite = s
        BY <3>2, <3>3
      <4>2. PICK k \in 1..Len(kept) : kept[k].cite = entries[p].cite
        BY <1>9
      <4>3. QED
        BY <4>1, <4>2
    <3>5. QED
      BY <1>10, <3>4 DEF Cites
  <2>2. ASSUME NEW s \in Cites(kept) PROVE s \in c.cites
    <3>1. PICK k \in 1..Len(kept) : s = kept[k].cite
      BY <1>10, <2>2 DEF Cites
    <3>2. PICK p \in 1..Len(entries) : kept[k] = entries[p]
      BY <1>9
    <3>3. PICK i \in 1..n : \E l \in 1..Len(evs[i]) : entries[p] = evs[i][l]
      BY <1>8
    <3>4. PICK l \in 1..Len(evs[i]) : entries[p] = evs[i][l]
      BY <3>3
    <3>5. s \in group[i].cites
      BY <1>11, <3>1, <3>2, <3>4 DEF Cites
    <3>6. QED
      BY <1>5, <3>5
  <2>3. QED
    BY <2>1, <2>2
<1>13. Cardinality(Cites(kept)) = Len(kept)
  <2> DEFINE k == Len(kept)
             f == [i \in 1..k |-> kept[i].cite]
             C == Cites(kept)
  <2>1. C = {kept[i].cite : i \in 1..k}
    BY <1>10 DEF Cites
  <2> HIDE DEF C, k
  <2>2. f \in [1..k -> C] /\ \A s \in C : \E i \in 1..k : f[i] = s
    BY <2>1
  <2>3. \A i, j \in 1..k : i # j => f[i] # f[j]
    BY <1>9 DEF k
  <2> HIDE DEF f
  <2>4. f \in Bijection(1..k, C)
    BY <2>2, <2>3 DEF Bijection, Injection, Surjection, IsInjective
  <2>5. IsFiniteSet(1..k) /\ Cardinality(1..k) = k
    <3>1. k \in Nat
      BY <1>10 DEF k
    <3>2. QED
      BY <3>1, FS_Interval
  <2>6. QED
    BY <2>4, <2>5, FS_Bijection DEF ExistsBijection, k, C
\* The first claim keeps all its evidence.
<1>14. \A l \in 1..Len(first.evidence) : \E k \in 1..Len(kept) : kept[k] = first.evidence[l]
  <2>1. first.evidence = evs[1]
    BY <1>1, <1>6 DEF first
  <2> DEFINE m == Len(evs[1])
  <2>2. \A i, j \in 1..m : i # j => evs[1][i].cite # evs[1][j].cite
    BY <1>4, <2>1 DEF Supported
  <2>3. m \in Nat /\ Len(entries) \in Nat /\ m <= Len(entries) /\ \A p \in 1..m : entries[p] = evs[1][p]
    <3>1. m \in Nat
      BY <1>1, <1>11
    <3>2. Len(entries) \in Nat
      BY <1>8
    <3>3. QED
      BY <1>8, <3>1, <3>2
  <2> HIDE DEF m
  <2> SUFFICES ASSUME NEW l \in 1..m PROVE \E k \in 1..Len(kept) : kept[k] = evs[1][l]
    BY <2>1 DEF m
  <2>4. l \in 1..Len(entries) /\ entries[l] = evs[1][l]
    BY <2>3
  <2>5. ASSUME NEW j \in 1..Len(entries), j < l PROVE entries[j].cite # entries[l].cite
    <3>1. j \in 1..m /\ j # l
      BY <2>3, <2>5
    <3>2. QED
      BY <2>2, <2>3, <3>1
  <2>6. PICK k \in 1..Len(kept) : kept[k] = entries[l]
    BY <1>9, <2>4, <2>5
  <2>7. QED
    BY <2>4, <2>6
<1>15. Backed(first.evidence) \subseteq Backed(kept)
  <2>1. DOMAIN first.evidence = 1..Len(first.evidence)
    BY <1>4 DEF Supported
  <2>2. ASSUME NEW x \in Backed(first.evidence) PROVE x \in Backed(kept)
    <3>1. PICK i \in 1..Len(first.evidence) :
              first.evidence[i].role # "counterevidence" /\ x \in first.evidence[i].fields
      BY <2>1 DEF Backed
    <3>2. PICK k \in 1..Len(kept) : kept[k] = first.evidence[i]
      BY <1>14
    <3>3. QED
      BY <1>10, <3>1, <3>2 DEF Backed
  <2>3. QED
    BY <2>2
<1>16. V \in SUBSET (0..Certain) /\ V # {} /\ \A i \in 1..n : group[i].confidence \in V
  BY <1>1 DEF V, Supported
<1>17. /\ \A v \in V : v <= Max(V)
       /\ Max(V) \in Int /\ Certain \in Int /\ \A i \in 1..n : group[i].confidence \in Int
  <2>1. Certain \in Nat
    BY ProposalsAssumption
  <2>2. Max(V) \in V /\ \A v \in V : v <= Max(V)
    BY <1>16, <2>1, MaxIs
  <2>3. \A v \in V : v \in Int
    BY <1>16
  <2>4. \A i \in 1..n : group[i].confidence \in Int
    BY <1>16, <2>3
  <2>5. Max(V) \in Int /\ Certain \in Int
    BY <2>1, <2>2, <2>3
  <2>6. QED
    BY <2>2, <2>4, <2>5
<1>18. c.confidence < Certain => c.uncertain
  <2>1. first.confidence \in V
    BY <1>1, <1>16 DEF first
  <2>2. first.confidence <= c.confidence /\ c.confidence \in Int /\ first.confidence \in Int /\ Certain \in Int
    BY <1>1, <1>5, <1>17, <2>1 DEF first
  <2>3. first.confidence < Certain => first.uncertain
    BY <1>4 DEF Supported
  <2>4. CASE c.confidence < Certain
    <3>1. first.confidence < Certain
      BY <2>2, <2>4
    <3>2. QED
      BY <1>5, <2>3, <3>1
  <2>5. QED
    BY <2>4
<1>19. \A s \in c.cites \cup c.ast : s.scope = Scope
  <2>1. \A i \in 1..n : \A s \in group[i].cites \cup group[i].ast : s.scope = Scope
    BY <1>1 DEF Supported
  <2>2. QED
    BY <1>5, <2>1
<1>20. ASSUME c.role = "implementation"
       PROVE  /\ c.requires \subseteq Backed(kept) /\ c.ast # {}
              /\ \E i \in 1..Len(kept) : kept[i].role = "implementation"
  <2>1. /\ first.requires \subseteq Backed(first.evidence) /\ first.ast # {}
        /\ \E i \in 1..Len(first.evidence) : first.evidence[i].role = "implementation"
    BY <1>4, <1>5, <1>20 DEF Supported
  <2>2. first.ast \subseteq c.ast
    BY <1>1, <1>5 DEF first
  <2>3. QED
    BY <1>5, <1>14, <1>15, <2>1, <2>2
<1>21. ASSUME c.role = "product_intent"
       PROVE  kept # <<>> /\ \A i \in 1..Len(kept) : kept[i].role = "product_intent"
  <2>1. \A i \in 1..n : \A l \in 1..Len(evs[i]) : evs[i][l].role = "product_intent"
    <3> SUFFICES ASSUME NEW i \in 1..n PROVE \A l \in 1..Len(evs[i]) : evs[i][l].role = "product_intent"
      OBVIOUS
    <3>1. Supported(group[i]) /\ group[i].role = "product_intent" /\ evs[i] = group[i].evidence
      BY <1>1, <1>3, <1>5, <1>6, <1>21
    <3>2. QED
      BY <3>1 DEF Supported
  <2>2. \A k \in 1..Len(kept) : kept[k].role = "product_intent"
    <3> SUFFICES ASSUME NEW k \in 1..Len(kept) PROVE kept[k].role = "product_intent"
      OBVIOUS
    <3>1. PICK p \in 1..Len(entries) : kept[k] = entries[p]
      BY <1>9
    <3>2. PICK i \in 1..n : \E l \in 1..Len(evs[i]) : entries[p] = evs[i][l]
      BY <1>8
    <3>3. QED
      BY <2>1, <3>1, <3>2
  <2>3. kept # <<>>
    <3>1. 1 \in 1..Len(first.evidence)
      BY <1>4 DEF Supported
    <3>2. PICK k \in 1..Len(kept) : TRUE
      BY <1>14, <3>1
    <3>3. QED
      BY <1>10, <3>2
  <2>4. QED
    BY <2>2, <2>3
<1>22. Rests(c)
  BY <1>5, <1>10, <1>12, <1>13, <1>18, <1>19, <1>20, <1>21 DEF Rests
<1>23. Merges(c, group)
  <2>1. c.role = group[1].role /\ c.key = group[1].key
    BY <1>5 DEF first
  <2>2. ASSUME NEW i \in 1..n
        PROVE  /\ group[i].origins \subseteq c.origins /\ group[i].cites \subseteq c.cites
               /\ group[i].ast \subseteq c.ast /\ c.confidence >= group[i].confidence
    <3>1. group[i].confidence <= c.confidence /\ group[i].confidence \in Int /\ c.confidence \in Int
      BY <1>5, <1>16, <1>17
    <3>2. c.confidence >= group[i].confidence
      BY <3>1
    <3>3. QED
      BY <1>5, <3>2
  <2>3. QED
    BY <2>1, <2>2 DEF Merges, n
<1>24. QED
  BY <1>22, <1>23 DEF c

\* ClaimsAreGrounded, of any claims and proposals.
Grounded(cs, proposals) ==
    /\ \A c \in cs : Rests(c)
    /\ \A c, d \in cs : c.key = d.key => c = d
    /\ cs # {} => \A i \in DOMAIN proposals :
          \E c \in cs : /\ c.role = "implementation"
                        /\ proposals[i] \in c.origins
                        /\ Cites(proposals[i].evidence) \subseteq c.cites
                        /\ Range(proposals[i].ast) \subseteq c.ast
                        /\ c.confidence >= proposals[i].confidence

\* One list behind another.
LEMMA Joined ==
    ASSUME NEW S, NEW u \in Seq(S), NEW v \in Seq(S)
    PROVE  /\ u \o v \in Seq(S) /\ Len(u) \in Nat /\ Len(v) \in Nat
           /\ Len(u \o v) = Len(u) + Len(v)
           /\ \A i \in 1..Len(u) : (u \o v)[i] = u[i]
OBVIOUS

LEMMA NormalizedIs ==
    ASSUME NEW p, Accepted(p)
    PROVE  LET drafts == Normalized(p)
               S == {d \in {BehaviorClaim(p), IntentClaim(p)} : Supported(d)}
           IN  drafts \in Seq(S) /\ 1 \in 1..Len(drafts) /\ drafts[1] = BehaviorClaim(p)
<1> DEFINE b == BehaviorClaim(p)
           c == IntentClaim(p)
           S == {d \in {b, c} : Supported(d)}
           drafts == Normalized(p)
<1>1. Supported(b)
  BY BehaviorIsSupported
<1>2. CASE p.status = "observed" /\ p.intent # Absent
  <2>1. drafts = <<b>> \o <<c>>
    BY <1>2 DEF Normalized, BehaviorClaim, IntentClaim
  <2>2. Supported(c)
    BY <1>2, IntentIsSupported
  <2> HIDE DEF b, c, drafts
  <2>3. b \in S /\ c \in S
    BY <1>1, <2>2
  <2> HIDE DEF S
  <2> DEFINE u == <<b>>
             v == <<c>>
  <2>4. u \in Seq(S) /\ v \in Seq(S) /\ Len(u) = 1 /\ u[1] = b /\ drafts = u \o v
    BY <2>1, <2>3
  <2> HIDE DEF u, v
  <2>5. drafts \in Seq(S) /\ 1 \in 1..Len(drafts) /\ drafts[1] = b
    <3> DEFINE w == u \o v
               l == Len(v)
    <3>1. /\ w \in Seq(S) /\ l \in Nat /\ Len(w) = Len(u) + l
          /\ \A i \in 1..Len(u) : w[i] = u[i]
      BY <2>4, Joined
    <3> HIDE DEF w, l
    <3>2. Len(w) = 1 + l /\ w[1] = b
      <4>1. 1 \in 1..1
        OBVIOUS
      <4>2. QED
        BY <2>4, <3>1, <4>1
    <3>3. QED
      BY <2>4, <3>1, <3>2 DEF w
  <2>6. QED
    BY <2>5 DEF drafts, S, b, c
<1>3. CASE ~(p.status = "observed" /\ p.intent # Absent)
  <2>1. drafts = <<b>> \o <<>>
    BY <1>3 DEF Normalized, BehaviorClaim
  <2> HIDE DEF b, c, drafts
  <2>2. b \in S
    BY <1>1
  <2> HIDE DEF S
  <2>3. <<b>> \in Seq(S) /\ <<b>> \o <<>> = <<b>>
    BY <2>2
  <2>4. drafts \in Seq(S) /\ 1 \in 1..Len(drafts) /\ drafts[1] = b
    BY <2>1, <2>3
  <2>5. QED
    BY <2>4 DEF drafts, S, b, c
<1>4. QED
  BY <1>2, <1>3

LEMMA DeduplicatedIs ==
    ASSUME NEW S, NEW drafts \in Seq(S), \A d \in S : Supported(d)
    PROVE  /\ \A c \in Deduplicated(drafts) : Rests(c)
           /\ \A c, d \in Deduplicated(drafts) : c.key = d.key => c = d
           /\ \A p \in 1..Len(drafts) : \E c \in Deduplicated(drafts) :
                 /\ c.role = drafts[p].role
                 /\ drafts[p].origins \subseteq c.origins /\ drafts[p].cites \subseteq c.cites
                 /\ drafts[p].ast \subseteq c.ast /\ c.confidence >= drafts[p].confidence
<1> DEFINE n == Len(drafts)
           keys == {drafts[i].key : i \in 1..n}
           P(key) == {i \in 1..n : drafts[i].key = key}
           group(key) == At(drafts, P(key))
<1>1. n \in Nat /\ DOMAIN drafts = 1..n /\ \A i \in 1..n : drafts[i] \in S
  OBVIOUS
<1>2. Deduplicated(drafts) = {Merged(group(key)) : key \in keys}
  BY <1>1 DEF Deduplicated
<1>3. ASSUME NEW key \in keys
      PROVE  /\ group(key) \in Seq(S) /\ group(key) # <<>>
             /\ \A q \in 1..Len(group(key)) : group(key)[q].key = key
             /\ \A p \in 1..n : drafts[p].key = key => \E q \in 1..Len(group(key)) : group(key)[q] = drafts[p]
  <2> DEFINE g == group(key)
             K == P(key)
  <2>1. K \in SUBSET (1..n) /\ \A i \in 1..n : i \in K <=> drafts[i].key = key
    OBVIOUS
  <2>2. PICK p \in 1..n : drafts[p].key = key
    OBVIOUS
  <2> HIDE DEF K
  <2>3. PartOf(At(drafts, K), S, drafts, K)
    BY <2>1, AtIs
  <2>4. g = At(drafts, K)
    BY DEF K
  <2> HIDE DEF g, P, n
  <2>5. /\ g \in Seq(S)
        /\ \A q \in 1..Len(g) : \E i \in K : g[q] = drafts[i]
        /\ \A i \in K : \E q \in 1..Len(g) : g[q] = drafts[i]
    BY <2>3, <2>4 DEF PartOf
  <2>6. \A q \in 1..Len(g) : g[q].key = key
    <3> SUFFICES ASSUME NEW q \in 1..Len(g) PROVE g[q].key = key
      OBVIOUS
    <3>1. PICK i \in K : g[q] = drafts[i]
      BY <2>5
    <3>2. i \in 1..n
      BY <2>1
    <3>3. QED
      BY <2>1, <3>1, <3>2
  <2>7. \A i \in 1..n : drafts[i].key = key => \E q \in 1..Len(g) : g[q] = drafts[i]
    BY <2>1, <2>5
  <2>8. g # <<>>
    <3>1. PICK q \in 1..Len(g) : TRUE
      BY <2>2, <2>7
    <3>2. QED
      BY <2>5, <3>1
  <2>9. QED
    BY <2>5, <2>6, <2>7, <2>8 DEF g
<1> HIDE DEF group, P, n
<1>4. ASSUME NEW key \in keys
      PROVE  /\ Rests(Merged(group(key))) /\ Merges(Merged(group(key)), group(key))
             /\ 1 \in 1..Len(group(key)) /\ group(key)[1].key = key
             /\ Merged(group(key)).key = key
  <2> DEFINE g == group(key)
  <2>1. g \in Seq(S) /\ g # <<>> /\ \A q \in 1..Len(g) : g[q].key = key
    BY <1>3
  <2> HIDE DEF g
  <2>2. 1 \in 1..Len(g)
    BY <2>1
  <2>3. \A q \in 1..Len(g) : g[q].key = g[1].key
    BY <2>1, <2>2
  <2>4. Rests(Merged(g)) /\ Merges(Merged(g), g)
    BY <2>1, <2>3, MergedIs
  <2>5. Merged(g).key = key
    BY <2>1, <2>2, <2>4 DEF Merges
  <2>6. QED
    BY <2>1, <2>2, <2>4, <2>5 DEF g
<1>5. \A c \in Deduplicated(drafts) : Rests(c)
  BY <1>2, <1>4
<1>6. \A c, d \in Deduplicated(drafts) : c.key = d.key => c = d
  <2> SUFFICES ASSUME NEW k \in keys, NEW l \in keys, Merged(group(k)).key = Merged(group(l)).key
               PROVE  Merged(group(k)) = Merged(group(l))
    BY <1>2
  <2>1. k = l
    BY <1>4
  <2>2. QED
    BY <2>1
<1>7. ASSUME NEW p \in 1..n
      PROVE  \E c \in Deduplicated(drafts) :
                 /\ c.role = drafts[p].role
                 /\ drafts[p].origins \subseteq c.origins /\ drafts[p].cites \subseteq c.cites
                 /\ drafts[p].ast \subseteq c.ast /\ c.confidence >= drafts[p].confidence
  <2> DEFINE key == drafts[p].key
             g == group(key)
             c == Merged(g)
  <2>1. key \in keys
    OBVIOUS
  <2>2. c \in Deduplicated(drafts)
    BY <1>2, <2>1
  <2>3. /\ g \in Seq(S) /\ g # <<>> /\ \A q \in 1..Len(g) : g[q].key = key
        /\ \E q \in 1..Len(g) : g[q] = drafts[p]
    BY <1>3, <2>1
  <2>4. Merges(c, g)
    BY <1>4, <2>1
  <2> HIDE DEF g, c, keys
  <2>5. 1 \in 1..Len(g) /\ g[1] \in S
    BY <2>3
  <2>6. PICK q \in 1..Len(g) : g[q] = drafts[p]
    BY <2>3
  <2>7. c.role = g[1].role
    BY <2>4 DEF Merges
  <2>8. g[1].role = drafts[p].role
    <3>1. Supported(g[1]) /\ Supported(drafts[p]) /\ g[1].key = drafts[p].key
      BY <1>1, <2>3, <2>5
    <3>2. QED
      BY <3>1 DEF Supported
  <2>9. /\ drafts[p].origins \subseteq c.origins /\ drafts[p].cites \subseteq c.cites
        /\ drafts[p].ast \subseteq c.ast /\ c.confidence >= drafts[p].confidence
    BY <2>4, <2>6 DEF Merges
  <2>10. QED
    BY <2>2, <2>7, <2>8, <2>9
<1>8. QED
  BY <1>5, <1>6, <1>7 DEF n

LEMMA ClaimsOfAreGrounded ==
    ASSUME NEW R, NEW proposals \in Seq(R), \A p \in R : Accepted(p)
    PROVE  Grounded(ClaimsOf(proposals), proposals)
<1> DEFINE n == Len(proposals)
           lists == [i \in 1..n |-> Normalized(proposals[i])]
           S == UNION {{d \in {BehaviorClaim(p), IntentClaim(p)} : Supported(d)} : p \in R}
           drafts == FlattenSeq(lists)
           cs == ClaimsOf(proposals)
<1>1. n \in Nat /\ DOMAIN proposals = 1..n /\ \A i \in 1..n : proposals[i] \in R
  OBVIOUS
<1>2. cs = Deduplicated(drafts)
  BY <1>1 DEF ClaimsOf
<1> HIDE DEF n, cs, drafts
<1>3. \A i \in 1..n : lists[i] = Normalized(proposals[i])
  OBVIOUS
<1>4. lists \in [1..n -> Seq(S)]
  <2>1. ASSUME NEW i \in 1..n PROVE Normalized(proposals[i]) \in Seq(S)
    <3> DEFINE p == proposals[i]
               T == {d \in {BehaviorClaim(p), IntentClaim(p)} : Supported(d)}
    <3>1. p \in R /\ Accepted(p)
      BY <1>1
    <3>2. Normalized(p) \in Seq(T)
      BY <3>1, NormalizedIs
    <3>3. T \subseteq S
      BY <3>1
    <3> HIDE DEF T, S
    <3>4. QED
      BY <3>2, <3>3
  <2> HIDE DEF S
  <2>2. QED
    BY <2>1
<1>5. \A d \in S : Supported(d)
  OBVIOUS
<1> HIDE DEF lists, S
<1>6. Flat(drafts, S, lists, n)
  BY <1>1, <1>4, FlattenIs DEF drafts
<1>7. /\ drafts \in Seq(S)
      /\ \A j \in 1..n : \A l \in 1..Len(lists[j]) : \E p \in 1..Len(drafts) : drafts[p] = lists[j][l]
  BY <1>6 DEF Flat
<1>8. /\ \A c \in cs : Rests(c)
      /\ \A c, d \in cs : c.key = d.key => c = d
      /\ \A p \in 1..Len(drafts) : \E c \in cs :
            /\ c.role = drafts[p].role
            /\ drafts[p].origins \subseteq c.origins /\ drafts[p].cites \subseteq c.cites
            /\ drafts[p].ast \subseteq c.ast /\ c.confidence >= drafts[p].confidence
  BY <1>2, <1>5, <1>7, DeduplicatedIs
<1>9. ASSUME NEW i \in 1..n
      PROVE  \E c \in cs : /\ c.role = "implementation"
                           /\ proposals[i] \in c.origins
                           /\ Cites(proposals[i].evidence) \subseteq c.cites
                           /\ Range(proposals[i].ast) \subseteq c.ast
                           /\ c.confidence >= proposals[i].confidence
  <2> DEFINE p == proposals[i]
             d == BehaviorClaim(p)
  <2>1. Accepted(p)
    BY <1>1
  <2>2. 1 \in 1..Len(lists[i]) /\ lists[i][1] = d
    BY <1>3, <2>1, NormalizedIs
  <2>3. /\ d.role = "implementation" /\ d.origins = {p} /\ d.cites = Cites(p.evidence)
        /\ d.ast = Range(p.ast) /\ d.confidence = p.confidence
    BY <2>1, BehaviorIsSupported
  <2> HIDE DEF d
  <2>4. PICK q \in 1..Len(drafts) : drafts[q] = d
    BY <1>7, <2>2
  <2>5. PICK c \in cs : /\ c.role = d.role
                        /\ d.origins \subseteq c.origins /\ d.cites \subseteq c.cites
                        /\ d.ast \subseteq c.ast /\ c.confidence >= d.confidence
    BY <1>8, <2>4
  <2>6. QED
    BY <2>3, <2>5
<1>10. QED
  BY <1>1, <1>8, <1>9 DEF Grounded, cs

\* Every proposal of the batch got through, and claims come last.
ProposalsInv ==
    /\ \E R : batch \in Seq(R) /\ \A p \in R : Accepted(p)
    /\ phase # "closed" => claims = {}

LEMMA ProposedIsAccepted ==
    ASSUME NEW p \in Proposals, NEW c, NEW q, q = [p EXCEPT !.ast = <<c>>],
           WellFormed(q), Codes(q, Scope, Allowed) = {}
    PROVE  Accepted(q)
<1>1. /\ DOMAIN p = {"text", "behavior", "status", "intent", "exception", "ast", "evidence",
                     "confidence", "uncertain", "approves"}
      /\ p.evidence \in Seq(Range(p.evidence))
      /\ p.confidence \in 0..Certain
  BY ProposalsAssumption
<1>2. q.evidence = p.evidence /\ q.confidence = p.confidence /\ q.ast = <<c>>
  BY <1>1
<1>3. QED
  BY <1>1, <1>2 DEF Accepted

\* However often a behavior is proposed, with whatever evidence, the claims it
\* ends in rest on what they cite, and no accepted proposal is left out.
THEOREM ClaimsStayGrounded == Spec => []ClaimsAreGrounded
<1>1. ClaimsAreGrounded <=> Grounded(claims, batch)
  BY DEF ClaimsAreGrounded, Grounded, Rests
<1>2. ASSUME claims = {} PROVE Grounded(claims, batch)
  BY <1>2 DEF Grounded
<1>3. Init => ProposalsInv /\ Grounded(claims, batch)
  <2> SUFFICES ASSUME Init PROVE ProposalsInv /\ Grounded(claims, batch)
    OBVIOUS
  <2>1. claims = {} /\ batch = <<>>
    BY DEF Init
  <2>2. batch \in Seq({})
    BY <2>1
  <2>3. QED
    BY <1>2, <2>1, <2>2 DEF ProposalsInv
<1>4. ASSUME ProposalsInv, Grounded(claims, batch), [Next]_vars
      PROVE  ProposalsInv' /\ Grounded(claims, batch)'
  <2>1. PICK R : batch \in Seq(R) /\ \A p \in R : Accepted(p)
    BY <1>4 DEF ProposalsInv
  <2>2. CASE batch' = batch /\ claims' = claims /\ (phase' = phase \/ phase # "closed")
    <3>1. ProposalsInv'
      BY <1>4, <2>2 DEF ProposalsInv
    <3>2. Grounded(claims, batch)'
      BY <1>4, <2>2 DEF Grounded, Rests
    <3>3. QED
      BY <3>1, <3>2
  <2>3. ASSUME NEW p \in Proposals, NEW c \in found, Propose([p EXCEPT !.ast = <<c>>])
        PROVE  ProposalsInv' /\ Grounded(claims, batch)'
    <3> DEFINE q == [p EXCEPT !.ast = <<c>>]
    <3>1. /\ phase = "proposing" /\ phase' = phase /\ claims' = claims /\ batch' = Append(batch, q)
          /\ WellFormed(q) /\ Codes(q, Scope, Allowed) = {}
      BY <2>3 DEF Propose
    <3>2. Accepted(q)
      <4> DEFINE r == q
      <4> HIDE DEF r
      <4>1. r = [p EXCEPT !.ast = <<c>>] /\ WellFormed(r) /\ Codes(r, Scope, Allowed) = {}
        BY <3>1 DEF r
      <4>2. Accepted(r)
        BY <4>1, ProposedIsAccepted
      <4>3. QED
        BY <4>2 DEF r
    <3> HIDE DEF q
    <3> DEFINE T == R \cup {q}
    <3>3. \A x \in T : Accepted(x)
      BY <2>1, <3>2
    <3>4. batch' \in Seq(T)
      <4>1. batch \in Seq(T) /\ q \in T
        BY <2>1
      <4> HIDE DEF T
      <4>2. QED
        BY <3>1, <4>1
    <3>5. claims' = {} /\ phase' # "closed"
      BY <1>4, <3>1 DEF ProposalsInv
    <3> HIDE DEF T
    <3>6. QED
      BY <3>3, <3>4, <3>5 DEF ProposalsInv, Grounded
  <2>4. CASE Normalize
    <3>1. claims' = ClaimsOf(batch) /\ batch' = batch /\ phase' = "closed"
      BY <2>4 DEF Normalize
    <3>2. Grounded(ClaimsOf(batch), batch)
      BY <2>1, ClaimsOfAreGrounded
    <3>3. Grounded(claims', batch')
      BY <3>1, <3>2
    <3>4. QED
      BY <2>1, <3>1, <3>3 DEF ProposalsInv, Grounded, Rests
  <2>5. CASE Read
    <3>1. ASSUME NEW n, NEW failed, Call(n, failed)
          PROVE  batch' = batch /\ claims' = claims /\ phase' = phase
      BY <3>1 DEF Call
    <3>2. \E n, failed : Call(n, failed)
      <4>1. ASSUME NEW d, NEW key, NEW limit, OpenPages(d, key, limit) PROVE \E n, failed : Call(n, failed)
        BY <4>1 DEF OpenPages
      <4>2. ASSUME NEW d, NEW key, NEW depth, NEW limit, ReadSubtree(d, key, depth, limit)
            PROVE  \E n, failed : Call(n, failed)
        BY <4>2 DEF ReadSubtree
      <4>3. ASSUME NEW d, NEW offset, ReadContaining(d, offset) PROVE \E n, failed : Call(n, failed)
        BY <4>3 DEF ReadContaining
      <4>4. ASSUME NEW lo, NEW hi, NEW limit, ReadSearch(lo, hi, limit) PROVE \E n, failed : Call(n, failed)
        BY <4>4 DEF ReadSearch
      <4>5. ASSUME NextPage PROVE \E n, failed : Call(n, failed)
        BY <4>5 DEF NextPage
      <4>6. QED
        BY <2>5, <4>1, <4>2, <4>3, <4>4, <4>5 DEF Read
    <3>3. QED
      BY <2>2, <3>1, <3>2
  <2>6. CASE Choose \/ Write \/ (\E d \in Decisions : Decide(d)) \/ UNCHANGED vars
    <3>1. batch' = batch /\ claims' = claims /\ (phase' = phase \/ phase # "closed")
      BY <2>6 DEF Choose, Write, Decide, vars
    <3>2. QED
      BY <2>2, <3>1
  <2>7. QED
    BY <1>4, <2>3, <2>4, <2>5, <2>6 DEF Next
<1>5. QED
  BY <1>1, <1>3, <1>4, PTL DEF Spec
=============================================================================
