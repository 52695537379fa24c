------------------------- MODULE Extraction_proofs -------------------------
(***************************************************************************)
(* What a breadth first search keeps from level to level, and what the     *)
(* transactions of the graph and of the claims keep: for any results,      *)
(* batches, files, sessions and bounds.                                    *)
(***************************************************************************)
EXTENDS Extraction, FiniteInduction

-----------------------------------------------------------------------------
(***************************************************************************)
(* Searches: for any graph, any search and any rows a limited query leaves *)
(* out.                                                                    *)
(***************************************************************************)

\* The nodes one more edge leads to.
Grown(es, ns) == ns \cup UNION {Ends(e) : e \in {x \in es : Ends(x) \cap ns # {}}}

\* The recursion of Within, up to level d.
Levels(f, es, from, d) ==
    f = [i \in 0..d |-> IF i = 0 THEN {from} ELSE Grown(es, f[i - 1])]

LEMMA LevelsExist ==
    ASSUME NEW es, NEW from
    PROVE  \A d \in Nat : \E f : Levels(f, es, from, d)
<1> DEFINE G == {d \in Nat : \E f : Levels(f, es, from, d)}
<1>1. 0 \in G
  <2> DEFINE f == [i \in 0..0 |-> {from}]
  <2>1. f = [i \in 0..0 |-> IF i = 0 THEN {from} ELSE Grown(es, f[i - 1])]
    OBVIOUS
  <2> HIDE DEF f
  <2>2. Levels(f, es, from, 0)
    BY <2>1 DEF Levels
  <2>3. QED
    BY <2>2
<1>2. ASSUME NEW d \in Nat, d \in G PROVE d + 1 \in G
  <2>1. PICK f : Levels(f, es, from, d)
    BY <1>2
  <2> DEFINE h == [i \in 0..(d + 1) |-> IF i = 0 THEN {from} ELSE Grown(es, f[i - 1])]
  <2>2. \A i \in 0..d : h[i] = f[i]
    <3>1. \A i \in 0..d : f[i] = IF i = 0 THEN {from} ELSE Grown(es, f[i - 1])
      BY <2>1 DEF Levels
    <3>2. \A i \in 0..d : i \in 0..(d + 1)
      OBVIOUS
    <3>3. QED
      BY <3>1, <3>2
  <2>3. \A i \in 0..(d + 1) : i # 0 => i - 1 \in 0..d
    OBVIOUS
  <2>4. \A i \in 0..(d + 1) : i # 0 => Grown(es, f[i - 1]) = Grown(es, h[i - 1])
    <3> HIDE DEF h
    <3>1. QED
      BY <2>2, <2>3
  <2>5. h = [i \in 0..(d + 1) |-> IF i = 0 THEN {from} ELSE Grown(es, h[i - 1])]
    <3> DEFINE a(i) == IF i = 0 THEN {from} ELSE Grown(es, f[i - 1])
               b(i) == IF i = 0 THEN {from} ELSE Grown(es, h[i - 1])
    <3>1. \A i \in 0..(d + 1) : a(i) = b(i)
      BY <2>4
    <3>2. h = [i \in 0..(d + 1) |-> a(i)]
      OBVIOUS
    <3> HIDE DEF a, b, h
    <3>3. h = [i \in 0..(d + 1) |-> b(i)]
      BY <3>1, <3>2
    <3>4. QED
      BY <3>3 DEF b
  <2> HIDE DEF h
  <2>6. Levels(h, es, from, d + 1)
    BY <2>5 DEF Levels
  <2>7. QED
    BY <2>6
<1>3. Nat \subseteq G
  <2> HIDE DEF G
  <2>1. QED
    BY <1>1, <1>2, NatSetInduction
<1>4. QED
  BY <1>3

\* Two recursions agree as far as both go.
LEMMA LevelsAgree ==
    ASSUME NEW es, NEW from, NEW c \in Nat, NEW d \in Nat, NEW f, NEW g,
           Levels(f, es, from, c), Levels(g, es, from, d)
    PROVE  \A i \in Nat : i <= c /\ i <= d => f[i] = g[i]
<1> DEFINE G == {i \in Nat : i <= c /\ i <= d => f[i] = g[i]}
<1>1. 0 \in G
  BY DEF Levels
<1>2. ASSUME NEW i \in Nat, i \in G PROVE i + 1 \in G
  <2> SUFFICES ASSUME i + 1 <= c, i + 1 <= d PROVE f[i + 1] = g[i + 1]
    OBVIOUS
  <2>1. f[i] = g[i]
    BY <1>2
  <2>2. f[i + 1] = Grown(es, f[i]) /\ g[i + 1] = Grown(es, g[i])
    <3>1. i + 1 \in 0..c /\ i + 1 \in 0..d /\ i + 1 # 0 /\ (i + 1) - 1 = i
      OBVIOUS
    <3>2. QED
      BY <3>1 DEF Levels
  <2>3. QED
    BY <2>1, <2>2
<1>3. Nat \subseteq G
  <2> HIDE DEF G
  <2>1. QED
    BY <1>1, <1>2, NatSetInduction
<1>4. QED
  BY <1>3

\* What is within reach, level by level.
LEMMA WithinLevels ==
    ASSUME NEW es, NEW from
    PROVE  /\ Within(es, from, 0) = {from}
           /\ \A d \in Nat : Within(es, from, d + 1) = Grown(es, Within(es, from, d))
<1>1. ASSUME NEW d \in Nat, NEW f, Levels(f, es, from, d)
      PROVE  Within(es, from, d) = f[d]
  <2> DEFINE reach == CHOOSE g : g = [i \in 0..d |-> IF i = 0 THEN {from} ELSE
                        g[i - 1] \cup UNION {Ends(e) : e \in {x \in es : Ends(x) \cap g[i - 1] # {}}}]
  <2>1. Within(es, from, d) = reach[d]
    BY DEF Within
  <2>2. f = [i \in 0..d |-> IF i = 0 THEN {from} ELSE
                        f[i - 1] \cup UNION {Ends(e) : e \in {x \in es : Ends(x) \cap f[i - 1] # {}}}]
    BY <1>1 DEF Levels, Grown
  <2>3. reach = [i \in 0..d |-> IF i = 0 THEN {from} ELSE
                        reach[i - 1] \cup UNION {Ends(e) : e \in {x \in es : Ends(x) \cap reach[i - 1] # {}}}]
    BY <2>2
  <2> HIDE DEF reach
  <2>4. Levels(reach, es, from, d)
    BY <2>3 DEF Levels, Grown
  <2>5. QED
    BY <1>1, <2>1, <2>4, LevelsAgree
<1>2. Within(es, from, 0) = {from}
  <2>1. PICK f : Levels(f, es, from, 0)
    BY LevelsExist
  <2>2. QED
    BY <1>1, <2>1 DEF Levels
<1>3. ASSUME NEW d \in Nat
      PROVE  Within(es, from, d + 1) = Grown(es, Within(es, from, d))
  <2>1. PICK f : Levels(f, es, from, d)
    BY LevelsExist
  <2>2. PICK g : Levels(g, es, from, d + 1)
    BY LevelsExist
  <2>3. g[d] = f[d]
    BY <2>1, <2>2, LevelsAgree
  <2>4. g[d + 1] = Grown(es, g[d])
    <3>1. d + 1 \in 0..(d + 1) /\ d + 1 # 0 /\ (d + 1) - 1 = d
      OBVIOUS
    <3>2. QED
      BY <2>2, <3>1 DEF Levels
  <2>5. QED
    BY <1>1, <2>1, <2>2, <2>3, <2>4
<1>4. QED
  BY <1>2, <1>3

\* More edges reach as far, and more levels further.
LEMMA WithinMonotone ==
    ASSUME NEW es, NEW fs, es \subseteq fs, NEW from
    PROVE  \A d \in Nat : /\ Within(es, from, d) \subseteq Within(fs, from, d)
                          /\ Within(es, from, d) \subseteq Within(es, from, d + 1)
<1> DEFINE G == {d \in Nat : Within(es, from, d) \subseteq Within(fs, from, d)}
<1>1. 0 \in G
  BY WithinLevels
<1>2. ASSUME NEW d \in Nat, d \in G PROVE d + 1 \in G
  <2>1. Within(es, from, d + 1) = Grown(es, Within(es, from, d))
    BY WithinLevels
  <2>2. Within(fs, from, d + 1) = Grown(fs, Within(fs, from, d))
    BY WithinLevels
  <2>3. QED
    BY <1>2, <2>1, <2>2 DEF Grown
<1>3. Nat \subseteq G
  <2> HIDE DEF G
  <2>1. QED
    BY <1>1, <1>2, NatSetInduction
<1>4. ASSUME NEW d \in Nat PROVE Within(es, from, d) \subseteq Within(es, from, d + 1)
  <2>1. Within(es, from, d + 1) = Grown(es, Within(es, from, d))
    BY WithinLevels
  <2>2. QED
    BY <2>1 DEF Grown
<1>5. QED
  BY <1>3, <1>4

\* Reach grows with the levels.
LEMMA WithinGrows ==
    ASSUME NEW es, NEW from, NEW c \in Nat
    PROVE  \A d \in Nat : d <= c => Within(es, from, d) \subseteq Within(es, from, c)
<1> DEFINE G == {n \in Nat : \A d \in Nat : d <= n => Within(es, from, d) \subseteq Within(es, from, n)}
<1>1. 0 \in G
  OBVIOUS
<1>2. ASSUME NEW n \in Nat, n \in G PROVE n + 1 \in G
  <2> SUFFICES ASSUME NEW d \in Nat, d <= n + 1
               PROVE  Within(es, from, d) \subseteq Within(es, from, n + 1)
    OBVIOUS
  <2>1. CASE d = n + 1
    BY <2>1
  <2>2. CASE d # n + 1
    <3>1. d <= n
      BY <2>2
    <3>2. Within(es, from, n) \subseteq Within(es, from, n + 1)
      BY WithinMonotone
    <3>3. QED
      BY <1>2, <3>1, <3>2
  <2>3. QED
    BY <2>1, <2>2
<1>3. Nat \subseteq G
  <2> HIDE DEF G
  <2>1. QED
    BY <1>1, <1>2, NatSetInduction
<1>4. QED
  BY <1>3

\* A set that no edge leaves holds all that is within reach of its nodes.
LEMMA WithinClosed ==
    ASSUME NEW es, NEW from, NEW ns, from \in ns,
           \A e \in es : Ends(e) \cap ns # {} => Ends(e) \subseteq ns
    PROVE  \A d \in Nat : Within(es, from, d) \subseteq ns
<1> DEFINE G == {d \in Nat : Within(es, from, d) \subseteq ns}
<1>1. 0 \in G
  BY WithinLevels
<1>2. ASSUME NEW d \in Nat, d \in G PROVE d + 1 \in G
  BY <1>2, WithinLevels DEF Grown
<1>3. Nat \subseteq G
  <2> HIDE DEF G
  <2>1. QED
    BY <1>1, <1>2, NatSetInduction
<1>4. QED
  BY <1>3

-----------------------------------------------------------------------------
(***************************************************************************)
(* The invariant of a search x; es are the edges it could follow when it    *)
(* started, all those that it can follow now.                               *)
(***************************************************************************)

Fields == {"ask", "depth", "maxNodes", "level", "visited", "frontier", "parent", "out", "found",
           "done", "reach", "capped"}

Typed(x) ==
    /\ DOMAIN x = Fields
    /\ x.depth \in Nat \ {0} /\ x.maxNodes \in Nat \ {0} /\ x.level \in 0..x.depth
    /\ x.done \in BOOLEAN /\ x.found \in BOOLEAN /\ x.capped \in BOOLEAN
    /\ IsFiniteSet(x.visited) /\ x.frontier \subseteq x.visited /\ x.ask.from \in x.visited

\* Without a cap everything within the levels done is visited, and only the
\* frontier has edges that lead on.
Complete(x, es) ==
    /\ x.reach = [d \in 0..x.depth |-> Within(es, x.ask.from, d)]
    /\ ~x.capped => /\ Within(es, x.ask.from, x.level) \subseteq x.visited
                    /\ \A e \in es : Ends(e) \cap (x.visited \ x.frontier) # {}
                                        => Ends(e) \subseteq x.visited

\* The answer of neighbors is connected, and no larger than asked for.
Gathered(x, es) ==
    x.ask.op # "path" =>
        /\ x.visited \subseteq Within(x.out, x.ask.from, x.level)
        /\ Cardinality(x.visited) <= x.maxNodes
        /\ x.done /\ ~x.capped => Within(es, x.ask.from, x.depth) \subseteq x.visited

\* Every visited node but the first has an edge to one of the level before.
Ranked(x, all, rank) ==
    /\ rank \in [x.visited -> 0..x.level]
    /\ rank[x.ask.from] = 0
    /\ \A n \in x.frontier : rank[n] = x.level
    /\ \A n \in x.visited \ {x.ask.from} :
          /\ n \in DOMAIN x.parent /\ x.parent[n] \in all
          /\ \E m \in x.visited : m # n /\ rank[n] = rank[m] + 1 /\ Ends(x.parent[n]) = {m, n}

\* A path is found at the level where it ends, and not found only if there was
\* none, or a cap hid it.
Traced(x, es, all) ==
    x.ask.op = "path" /\ x.ask.from # x.ask.to =>
        /\ \E rank : Ranked(x, all, rank)
        /\ x.found <=> x.ask.to \in x.visited
        /\ x.found => x.done /\ x.ask.to \in x.frontier
        /\ x.found /\ ~x.capped => \A d \in 0..(x.level - 1) : x.ask.to \notin Within(es, x.ask.from, d)
        /\ x.done /\ ~x.found /\ ~x.capped => x.ask.to \notin Within(es, x.ask.from, x.depth)

Sound(x, es, all) ==
    Typed(x) /\ Complete(x, es) /\ Gathered(x, es) /\ Traced(x, es, all)

SearchInv ==
    search # None =>
        \E es \in SUBSET Followed(search.ask.types) :
            Sound(search, es, Followed(search.ask.types))

\* A graph that grows adds edges to follow, and takes none away.
LEMMA SearchInvGrows ==
    ASSUME SearchInv, search' = search, DOMAIN edges \subseteq DOMAIN edges'
    PROVE  SearchInv'
<1> SUFFICES ASSUME search # None PROVE SearchInv'
  BY DEF SearchInv
<1>1. PICK x : x = search
  OBVIOUS
<1> DEFINE all == Followed(x.ask.types)
<1>2. PICK es \in SUBSET all : Sound(x, es, all)
  BY <1>1 DEF SearchInv
<1>3. PICK more : more = Followed(x.ask.types)'
  OBVIOUS
<1>4. all \subseteq more
  BY <1>3 DEF Followed
<1> HIDE DEF all
<1>5. Sound(x, es, more)
  <2>1. ASSUME NEW rank, Ranked(x, all, rank) PROVE Ranked(x, more, rank)
    BY <1>4, <2>1 DEF Ranked
  <2>2. Traced(x, es, more)
    BY <1>2, <2>1 DEF Sound, Traced
  <2>3. QED
    BY <1>2, <2>2 DEF Sound
<1>6. search' = x /\ Followed(search.ask.types)' = more /\ es \in SUBSET more
  BY <1>1, <1>2, <1>3, <1>4
<1>7. QED
  BY <1>5, <1>6 DEF SearchInv

\* A search starts sound: it has visited where it starts.
LEMMA SearchInvStart ==
    ASSUME NEW q \in Searches, StartSearch(q), UNCHANGED edges
    PROVE  SearchInv'
<1>1. PICK x : x = search'
  OBVIOUS
<1> DEFINE depth == Clamp(q.depth, MaxDepth)
           es    == Followed(q.types)
           most  == Clamp(q.maxNodes, MostNodes)
<1>2. x = [ask |-> q, depth |-> depth, maxNodes |-> most,
           level |-> 0, visited |-> {q.from}, frontier |-> {q.from},
           parent |-> <<>>, out |-> {}, found |-> FALSE, done |-> FALSE,
           reach |-> [d \in 0..depth |-> Within(es, q.from, d)], capped |-> FALSE]
  BY <1>1 DEF StartSearch
<1>3. depth \in Nat \ {0} /\ most \in Nat \ {0}
  BY SearchesAssumption DEF Clamp
<1> HIDE DEF depth, most
<1>4. IsFiniteSet({q.from}) /\ Cardinality({q.from}) = 1
  BY FS_Singleton
<1>5. Typed(x)
  BY <1>2, <1>3, <1>4 DEF Typed, Fields
<1> HIDE DEF es
<1>6. Complete(x, es)
  BY <1>2, WithinLevels DEF Complete
<1>7. Gathered(x, es)
  BY <1>2, <1>3, <1>4, WithinLevels DEF Gathered
<1>8. Traced(x, es, es)
  <2> DEFINE rank == [n \in {q.from} |-> 0]
  <2>1. Ranked(x, es, rank)
    BY <1>2 DEF Ranked
  <2> HIDE DEF rank
  <2>2. QED
    BY <1>2, <2>1 DEF Traced
<1>9. Followed(x.ask.types)' = es
  BY <1>2 DEF es, Followed
<1>10. Sound(x, es, es)
  BY <1>5, <1>6, <1>7, <1>8 DEF Sound
<1>11. QED
  BY <1>1, <1>9, <1>10 DEF SearchInv

\* The frontier is where the search goes on: what a level adds is within reach of
\* one more edge, and if no row was left out it is all of that.
LEMMA LevelReached ==
    ASSUME NEW x, NEW es, Typed(x), Complete(x, es), ~x.capped, NEW ns, x.visited \subseteq ns,
           \A e \in es : Ends(e) \cap x.frontier # {} => Ends(e) \subseteq ns
    PROVE  /\ Within(es, x.ask.from, x.level + 1) \subseteq ns
           /\ \A e \in es : Ends(e) \cap x.visited # {} => Ends(e) \subseteq ns
<1>1. \A e \in es : Ends(e) \cap x.visited # {} => Ends(e) \subseteq ns
  <2> SUFFICES ASSUME NEW e \in es, Ends(e) \cap x.visited # {} PROVE Ends(e) \subseteq ns
    OBVIOUS
  <2>1. CASE Ends(e) \cap x.frontier # {}
    BY <2>1
  <2>2. CASE Ends(e) \cap x.frontier = {}
    <3>1. Ends(e) \cap (x.visited \ x.frontier) # {}
      BY <2>2
    <3>2. QED
      BY <3>1 DEF Complete
  <2>3. QED
    BY <2>1, <2>2
<1>2. Within(es, x.ask.from, x.level + 1) = Grown(es, Within(es, x.ask.from, x.level))
  <2>1. x.level \in Nat
    BY DEF Typed
  <2>2. \A d \in Nat : Within(es, x.ask.from, d + 1) = Grown(es, Within(es, x.ask.from, d))
    BY WithinLevels
  <2>3. QED
    BY <2>1, <2>2
<1>3. Within(es, x.ask.from, x.level) \subseteq x.visited
  BY DEF Complete
<1>4. Within(es, x.ask.from, x.level + 1) \subseteq ns
  BY <1>1, <1>2, <1>3 DEF Grown
<1>5. QED
  BY <1>1, <1>4

\* Giving up leaves nothing out, unless a cap was met.
LEMMA SearchInvGiveUp ==
    ASSUME SearchInv, GiveUp, UNCHANGED edges
    PROVE  SearchInv'
<1>1. PICK x : x = search
  OBVIOUS
<1>2. PICK y : y = search'
  OBVIOUS
<1> DEFINE all == Followed(x.ask.types)
           d == x.depth
<1>3. PICK es \in SUBSET all : Sound(x, es, all)
  BY <1>1 DEF SearchInv, GiveUp, Searching
<1>4. /\ ~x.done /\ ~(x.ask.op = "path" /\ x.ask.from = x.ask.to)
      /\ \/ x.level = x.depth \/ x.frontier = {} \/ Cardinality(x.visited) >= x.maxNodes
      /\ y = [x EXCEPT !.done = TRUE,
                       !.capped = x.capped \/ (x.level < x.depth /\ x.frontier # {})]
  BY <1>1, <1>2 DEF GiveUp, Searching, Exhausted
<1>5. Typed(x) /\ Complete(x, es) /\ Gathered(x, es) /\ Traced(x, es, all)
  BY <1>3 DEF Sound
<1>6. /\ DOMAIN y = Fields
      /\ y.done /\ y.capped = (x.capped \/ (x.level < x.depth /\ x.frontier # {}))
      /\ y.ask = x.ask /\ y.depth = x.depth /\ y.maxNodes = x.maxNodes /\ y.level = x.level
      /\ y.visited = x.visited /\ y.frontier = x.frontier /\ y.parent = x.parent
      /\ y.out = x.out /\ y.found = x.found /\ y.reach = x.reach
  BY <1>4, <1>5 DEF Typed, Fields
<1> HIDE DEF all, d
<1>7. ~y.capped => Within(es, x.ask.from, x.depth) \subseteq x.visited
  <2> SUFFICES ASSUME ~y.capped PROVE Within(es, x.ask.from, x.depth) \subseteq x.visited
    OBVIOUS
  <2>1. ~x.capped /\ (x.level = x.depth \/ x.frontier = {})
    <3>1. ~x.capped /\ ~(x.level < x.depth /\ x.frontier # {})
      BY <1>6, Zenon
    <3>2. x.level \in 0..x.depth /\ x.depth \in Nat
      BY <1>5 DEF Typed
    <3>3. QED
      BY <3>1, <3>2
  <2>2. CASE x.level = x.depth
    BY <1>5, <2>1, <2>2 DEF Complete
  <2>3. CASE x.frontier = {}
    <3>1. \A e \in es : Ends(e) \cap x.visited # {} => Ends(e) \subseteq x.visited
      BY <1>5, <2>1, <2>3 DEF Complete
    <3>2. x.ask.from \in x.visited /\ x.depth \in Nat
      BY <1>5 DEF Typed
    <3>3. QED
      BY <3>1, <3>2, WithinClosed
  <2>4. QED
    BY <2>1, <2>2, <2>3
<1>8. Typed(y)
  BY <1>5, <1>6 DEF Typed
<1>9. Complete(y, es)
  BY <1>5, <1>6 DEF Complete
<1>10. Gathered(y, es)
  BY <1>5, <1>6, <1>7 DEF Gathered
<1>11. Traced(y, es, all)
  <2>1. ASSUME NEW rank, Ranked(x, all, rank) PROVE Ranked(y, all, rank)
    <3>1. /\ y.visited = x.visited /\ y.level = x.level /\ y.ask = x.ask
          /\ y.frontier = x.frontier /\ y.parent = x.parent
      BY <1>6
    <3>2. QED
      BY <2>1, <3>1 DEF Ranked
  <2>2. QED
    BY <1>4, <1>5, <1>6, <1>7, <2>1 DEF Traced
<1>12. Followed(y.ask.types)' = all
  BY <1>6 DEF all, Followed
<1>13. Sound(y, es, all)
  BY <1>8, <1>9, <1>10, <1>11 DEF Sound
<1>14. QED
  BY <1>2, <1>12, <1>13 DEF SearchInv

\* A finite set of edges has finitely many ends.
LEMMA EndsAreFinite ==
    ASSUME NEW es, IsFiniteSet(es)
    PROVE  IsFiniteSet(UNION {Ends(e) : e \in es})
<1> DEFINE left  == [e \in es |-> e[2]]
           right == [e \in es |-> e[3]]
           lefts == {e[2] : e \in es}
           rights == {e[3] : e \in es}
<1>1. left \in Surjection(es, lefts) /\ right \in Surjection(es, rights)
  BY DEF Surjection
<1>2. IsFiniteSet(lefts) /\ IsFiniteSet(rights)
  <2> HIDE DEF left, right, lefts, rights
  <2>1. QED
    BY <1>1, FS_Surjection
<1>3. UNION {Ends(e) : e \in es} = lefts \cup rights
  BY DEF Ends
<1>4. QED
  <2> HIDE DEF lefts, rights
  <2>1. IsFiniteSet(lefts \cup rights)
    BY <1>2, FS_Union
  <2>2. QED
    BY <1>3, <2>1, Zenon

\* The search y after a level of the search x for neighbors that saw the rows
\* of seen, out of those in wanted.
NeighborsLevel(x, y, seen, wanted) ==
    LET met  == (UNION {Ends(e) : e \in seen}) \ x.visited
        room == x.maxNodes - Cardinality(x.visited)
    IN  \E new \in (IF Cardinality(met) <= room THEN {met} ELSE kSubset(room, met)) :
          y = [x EXCEPT
              !.level = @ + 1, !.visited = @ \cup new, !.frontier = new,
              !.out = @ \cup seen,
              !.capped = @ \/ seen # wanted \/ new # met]

\* A level of neighbors adds nodes that an edge of the answer leads to, no more
\* than there is room for, and all of them unless it is capped.
LEMMA SearchInvNeighbors ==
    ASSUME SearchInv, ExpandNeighbors, UNCHANGED edges, IsFiniteSet(DOMAIN edges)
    PROVE  SearchInv'
<1>1. PICK x : x = search
  OBVIOUS
<1>2. PICK y : y = search'
  OBVIOUS
<1> DEFINE all      == Followed(x.ask.types)
           incident == {e \in all : Ends(e) \cap x.frontier # {}}
           room     == x.maxNodes - Cardinality(x.visited)
<1>3. PICK es \in SUBSET all : Sound(x, es, all)
  BY <1>1 DEF SearchInv, ExpandNeighbors, Searching
<1>4. /\ x.ask.op # "path" /\ ~x.done /\ x.level # x.depth
      /\ ~(Cardinality(x.visited) >= x.maxNodes)
  BY <1>1 DEF ExpandNeighbors, Searching, Exhausted
<1>5. Incident = incident
  BY <1>1 DEF Incident
<1>6. PICK seen \in SUBSET incident : NeighborsLevel(x, y, seen, incident)
  <2>1. EdgeBatches \subseteq SUBSET incident
    BY <1>5 DEF EdgeBatches, kSubset
  <2>2. \E seen \in EdgeBatches : NeighborsLevel(search, search', seen, Incident)
    BY DEF ExpandNeighbors, NeighborsLevel
  <2>3. QED
    BY <1>1, <1>2, <1>5, <2>1, <2>2
<1> DEFINE met == (UNION {Ends(e) : e \in seen}) \ x.visited
<1>7. PICK new \in (IF Cardinality(met) <= room THEN {met} ELSE kSubset(room, met)) :
               y = [x EXCEPT
                   !.level = x.level + 1, !.visited = x.visited \cup new, !.frontier = new,
                   !.out = x.out \cup seen,
                   !.capped = x.capped \/ seen # incident \/ new # met]
  BY <1>6 DEF NeighborsLevel
<1>8. Typed(x) /\ Complete(x, es) /\ Gathered(x, es) /\ Traced(x, es, all)
  BY <1>3 DEF Sound
<1>9. new \subseteq met
  BY <1>7 DEF kSubset
<1>10. IsFiniteSet(met)
  <2>1. IsFiniteSet(seen)
    BY FS_Subset DEF Followed
  <2>2. IsFiniteSet(UNION {Ends(e) : e \in seen})
    BY <2>1, EndsAreFinite
  <2>3. QED
    BY <2>2, FS_Subset
<1>11. Cardinality(new) <= room /\ IsFiniteSet(new)
  <2>1. IsFiniteSet(new)
    BY <1>9, <1>10, FS_Subset
  <2>2. room \in Nat
    BY <1>4, <1>8, FS_CardinalityType DEF Typed
  <2>3. Cardinality(new) <= room
    <3> HIDE DEF met, room
    <3>1. CASE Cardinality(met) <= room
      BY <1>7, <3>1
    <3>2. CASE ~(Cardinality(met) <= room)
      BY <1>7, <2>2, <3>2 DEF kSubset
    <3>3. QED
      BY <3>1, <3>2
  <2>4. QED
    BY <2>1, <2>3
<1> HIDE DEF all, incident, met
<1>12. /\ DOMAIN y = Fields
       /\ y.level = x.level + 1 /\ y.visited = x.visited \cup new /\ y.frontier = new
       /\ y.out = x.out \cup seen
       /\ y.capped = (x.capped \/ seen # incident \/ new # met)
       /\ y.ask = x.ask /\ y.depth = x.depth /\ y.maxNodes = x.maxNodes
       /\ y.parent = x.parent /\ y.found = x.found /\ y.done = x.done /\ y.reach = x.reach
  BY <1>7, <1>8 DEF Typed, Fields
<1>13. Typed(y)
  <2>1. IsFiniteSet(x.visited \cup new)
    BY <1>8, <1>11, FS_Union DEF Typed
  <2>2. y.level \in 0..y.depth
    BY <1>4, <1>8, <1>12 DEF Typed
  <2>3. QED
    BY <1>8, <1>12, <2>1, <2>2 DEF Typed
<1>14. Complete(y, es)
  <2> SUFFICES ASSUME ~y.capped
               PROVE  /\ Within(es, y.ask.from, y.level) \subseteq y.visited
                      /\ \A e \in es : Ends(e) \cap (y.visited \ y.frontier) # {}
                                        => Ends(e) \subseteq y.visited
    BY <1>8, <1>12 DEF Complete
  <2>1. ~x.capped /\ seen = incident /\ new = met
    BY <1>12
  <2>2. y.visited = x.visited \cup UNION {Ends(e) : e \in seen}
    <3> DEFINE ends == UNION {Ends(e) : e \in seen}
    <3>1. met = ends \ x.visited
      BY DEF met
    <3>2. y.visited = x.visited \cup met
      BY <1>12, <2>1
    <3> HIDE DEF ends
    <3>3. y.visited = x.visited \cup ends
      BY <3>1, <3>2
    <3>4. QED
      BY <3>3 DEF ends
  <2>3. /\ Within(es, x.ask.from, x.level + 1) \subseteq y.visited
        /\ \A e \in es : Ends(e) \cap x.visited # {} => Ends(e) \subseteq y.visited
    <3>1. es \subseteq all /\ seen = {e \in all : Ends(e) \cap x.frontier # {}}
      BY <2>1 DEF incident
    <3>2. QED
      <4> DEFINE ns == y.visited
      <4>1. x.visited \subseteq ns
        BY <2>2
      <4>2. \A e \in es : Ends(e) \cap x.frontier # {} => Ends(e) \subseteq ns
        BY <2>2, <3>1
      <4>3. ~x.capped /\ Typed(x) /\ Complete(x, es)
        BY <1>8, <2>1
      <4> HIDE DEF ns
      <4>4. /\ Within(es, x.ask.from, x.level + 1) \subseteq ns
            /\ \A e \in es : Ends(e) \cap x.visited # {} => Ends(e) \subseteq ns
        BY <4>1, <4>2, <4>3, LevelReached
      <4>5. QED
        BY <4>4 DEF ns
  <2>4. y.visited \ y.frontier \subseteq x.visited
    BY <1>12
  <2>5. QED
    BY <1>12, <2>3, <2>4
<1>15. Gathered(y, es)
  <2>1. y.visited \subseteq Within(y.out, y.ask.from, y.level)
    <3>1. x.level \in Nat /\ x.out \subseteq y.out
      BY <1>8, <1>12 DEF Typed
    <3>2. Within(x.out, x.ask.from, x.level) \subseteq Within(y.out, x.ask.from, x.level)
      BY <3>1, WithinMonotone
    <3>3. x.visited \subseteq Within(y.out, x.ask.from, x.level)
      BY <1>4, <1>8, <3>2 DEF Gathered
    <3>4. Within(y.out, x.ask.from, y.level) = Grown(y.out, Within(y.out, x.ask.from, x.level))
      <4>1. \A d \in Nat : Within(y.out, x.ask.from, d + 1)
                               = Grown(y.out, Within(y.out, x.ask.from, d))
        BY WithinLevels
      <4>2. QED
        BY <1>12, <3>1, <4>1
    <3>5. ASSUME NEW n \in new PROVE n \in Grown(y.out, Within(y.out, x.ask.from, x.level))
      <4>1. PICK e \in seen : n \in Ends(e)
        BY <1>9 DEF met
      <4>2. Ends(e) \cap x.frontier # {} /\ x.frontier \subseteq x.visited
        BY <1>8 DEF incident, Typed
      <4>3. e \in y.out
        BY <1>12
      <4>4. QED
        BY <3>3, <4>1, <4>2, <4>3 DEF Grown
    <3>6. QED
      BY <1>12, <3>3, <3>4, <3>5 DEF Grown
  <2>2. Cardinality(y.visited) <= y.maxNodes
    <3>1. IsFiniteSet(x.visited) /\ IsFiniteSet(new) /\ new \cap x.visited = {}
      <4>1. \A n \in met : n \notin x.visited
        BY DEF met
      <4>2. IsFiniteSet(x.visited)
        BY <1>8 DEF Typed
      <4>3. new \cap x.visited = {}
        BY <1>9, <4>1
      <4>4. QED
        BY <1>11, <4>2, <4>3
    <3>2. Cardinality(x.visited \cup new) = Cardinality(x.visited) + Cardinality(new)
      <4>1. Cardinality(x.visited \cap new) = 0
        BY <3>1, FS_EmptySet
      <4>2. Cardinality(x.visited) \in Nat /\ Cardinality(new) \in Nat
        BY <3>1, FS_CardinalityType
      <4>3. Cardinality(x.visited \cup new)
               = Cardinality(x.visited) + Cardinality(new) - Cardinality(x.visited \cap new)
        BY <3>1, FS_Union
      <4>4. QED
        BY <4>1, <4>2, <4>3
    <3>3. Cardinality(x.visited) \in Nat /\ Cardinality(new) \in Nat /\ x.maxNodes \in Nat
      BY <1>8, <3>1, FS_CardinalityType DEF Typed
    <3>4. QED
      BY <1>11, <1>12, <3>2, <3>3
  <2>3. QED
    BY <1>4, <1>12, <2>1, <2>2 DEF Gathered
<1>16. Traced(y, es, all)
  BY <1>4, <1>12 DEF Traced
<1>17. Followed(y.ask.types)' = all
  BY <1>12 DEF all, Followed
<1>18. Sound(y, es, all)
  BY <1>13, <1>14, <1>15, <1>16 DEF Sound
<1>19. QED
  BY <1>2, <1>17, <1>18 DEF SearchInv

\* The search y after a level of the path search x that saw the rows of seen,
\* out of those in wanted.
PathLevel(x, y, seen, wanted) ==
    LET new        == (UNION {Ends(e) : e \in seen}) \ x.visited
        edgesTo(n) == {e \in seen : n \in Ends(e) /\ Ends(e) \cap x.frontier # {}}
    IN  \E via \in {f \in [new -> seen] : \A n \in new : f[n] \in edgesTo(n)} :
          y = [x EXCEPT
                  !.level = @ + 1, !.visited = @ \cup new, !.frontier = new,
                  !.parent = [n \in DOMAIN @ \cup new |-> IF n \in new THEN via[n] ELSE @[n]],
                  !.found = x.ask.to \in new, !.done = x.ask.to \in new,
                  !.capped = @ \/ seen # wanted]

\* A level of a path search gives each new node an edge to the level before, and
\* has the destination exactly when it is there to be met.
LEMMA SearchInvPath ==
    ASSUME SearchInv, ExpandPath, UNCHANGED edges, IsFiniteSet(DOMAIN edges)
    PROVE  SearchInv'
<1>1. PICK x : x = search
  OBVIOUS
<1>2. PICK y : y = search'
  OBVIOUS
<1> DEFINE all      == Followed(x.ask.types)
           incident == {e \in all : Ends(e) \cap x.frontier # {}}
<1>3. PICK es \in SUBSET all : Sound(x, es, all)
  BY <1>1 DEF SearchInv, ExpandPath, Searching
<1>4. x.ask.op = "path" /\ x.ask.from # x.ask.to /\ ~x.done /\ x.level # x.depth
  BY <1>1 DEF ExpandPath, Searching, Exhausted
<1>5. Incident = incident
  BY <1>1 DEF Incident
<1>6. PICK seen \in SUBSET incident : PathLevel(x, y, seen, incident)
  <2>1. EdgeBatches \subseteq SUBSET incident
    BY <1>5 DEF EdgeBatches, kSubset
  <2>2. \E seen \in EdgeBatches : PathLevel(search, search', seen, Incident)
    <3>1. PICK seen \in EdgeBatches : 
         LET new      == (UNION {Ends(e) : e \in seen}) \ search.visited
             edgesTo(n) == {e \in seen : n \in Ends(e) /\ Ends(e) \cap search.frontier # {}}
         IN  \E via \in {f \in [new -> seen] : \A n \in new : f[n] \in edgesTo(n)} :
               search' = [search EXCEPT
                   !.level = @ + 1, !.visited = @ \cup new, !.frontier = new,
                   !.parent = [n \in DOMAIN @ \cup new |-> IF n \in new THEN via[n] ELSE @[n]],
                   !.found = search.ask.to \in new, !.done = search.ask.to \in new,
                   !.capped = @ \/ seen # Incident]
      BY DEF ExpandPath
    <3>2. PathLevel(search, search', seen, Incident)
      BY <3>1 DEF PathLevel
    <3>3. QED
      BY <3>2
  <2> HIDE DEF incident
  <2>3. QED
    BY <1>1, <1>2, <1>5, <2>1, <2>2
<1> DEFINE ends == UNION {Ends(e) : e \in seen}
           new  == ends \ x.visited
<1>7. PICK via :
         /\ \A n \in new : via[n] \in seen /\ n \in Ends(via[n])
                           /\ Ends(via[n]) \cap x.frontier # {}
         /\ y = [x EXCEPT
                   !.level = x.level + 1, !.visited = x.visited \cup new, !.frontier = new,
                   !.parent = [n \in DOMAIN x.parent \cup new |->
                                  IF n \in new THEN via[n] ELSE x.parent[n]],
                   !.found = x.ask.to \in new, !.done = x.ask.to \in new,
                   !.capped = x.capped \/ seen # incident]
  BY <1>6 DEF PathLevel
<1>8. Typed(x) /\ Complete(x, es) /\ Traced(x, es, all)
  BY <1>3 DEF Sound
<1>9. IsFiniteSet(new)
  <2>1. IsFiniteSet(seen)
    BY FS_Subset DEF Followed
  <2>2. IsFiniteSet(ends)
    BY <2>1, EndsAreFinite
  <2>3. QED
    BY <2>2, FS_Subset
<1>10. \A e \in seen : Ends(e) \subseteq x.visited \cup new
  OBVIOUS
<1>11. \A n \in new : n \notin x.visited
  OBVIOUS
<1> HIDE DEF all, incident, ends, new
<1>12. /\ DOMAIN y = Fields
       /\ y.level = x.level + 1 /\ y.visited = x.visited \cup new /\ y.frontier = new
       /\ y.parent = [n \in DOMAIN x.parent \cup new |-> IF n \in new THEN via[n] ELSE x.parent[n]]
       /\ y.found = (x.ask.to \in new) /\ y.done = (x.ask.to \in new)
       /\ y.capped = (x.capped \/ seen # incident)
       /\ y.ask = x.ask /\ y.depth = x.depth /\ y.maxNodes = x.maxNodes
       /\ y.out = x.out /\ y.reach = x.reach
  BY <1>7, <1>8 DEF Typed, Fields
<1>13. Typed(y)
  <2>1. IsFiniteSet(x.visited \cup new)
    BY <1>8, <1>9, FS_Union DEF Typed
  <2>2. y.level \in 0..y.depth
    BY <1>4, <1>8, <1>12 DEF Typed
  <2>3. QED
    BY <1>8, <1>12, <2>1, <2>2 DEF Typed
<1>14. Complete(y, es)
  <2> SUFFICES ASSUME ~y.capped
               PROVE  /\ Within(es, y.ask.from, y.level) \subseteq y.visited
                      /\ \A e \in es : Ends(e) \cap (y.visited \ y.frontier) # {}
                                        => Ends(e) \subseteq y.visited
    BY <1>8, <1>12 DEF Complete
  <2>1. ~x.capped /\ seen = incident
    BY <1>12
  <2> DEFINE ns == y.visited
  <2>2. x.visited \subseteq ns
    BY <1>12
  <2>3. \A e \in es : Ends(e) \cap x.frontier # {} => Ends(e) \subseteq ns
    BY <1>10, <1>12, <2>1 DEF incident
  <2> HIDE DEF ns
  <2>4. /\ Within(es, x.ask.from, x.level + 1) \subseteq ns
        /\ \A e \in es : Ends(e) \cap x.visited # {} => Ends(e) \subseteq ns
    BY <1>8, <2>1, <2>2, <2>3, LevelReached
  <2>5. y.visited \ y.frontier \subseteq x.visited
    BY <1>12
  <2>6. QED
    BY <1>12, <2>4, <2>5 DEF ns
<1>15. Gathered(y, es)
  BY <1>4, <1>12 DEF Gathered
<1>16. Traced(y, es, all)
  <2>1. PICK rank : Ranked(x, all, rank)
    BY <1>4, <1>8 DEF Traced
  <2> DEFINE further == [n \in x.visited \cup new |-> IF n \in new THEN x.level + 1 ELSE rank[n]]
  <2>2. Ranked(y, all, further)
    <3>1. x.level \in Nat /\ x.ask.from \in x.visited /\ x.frontier \subseteq x.visited
      BY <1>8 DEF Typed
    <3>2. \A n \in x.visited : n \notin new /\ further[n] = rank[n] /\ rank[n] \in 0..x.level
      BY <1>11, <2>1 DEF Ranked
    <3>3. \A n \in new : further[n] = x.level + 1
      OBVIOUS
    <3>4. further \in [y.visited -> 0..y.level]
      <4>1. \A n \in x.visited \cup new : further[n] \in 0..(x.level + 1)
        <5> HIDE DEF further
        <5>1. QED
          BY <3>1, <3>2, <3>3
      <4>2. further = [n \in x.visited \cup new |-> further[n]]
        OBVIOUS
      <4> HIDE DEF further
      <4>3. further \in [x.visited \cup new -> 0..(x.level + 1)]
        BY <4>1, <4>2
      <4>4. QED
        BY <1>12, <4>3
    <3>5. ASSUME NEW n \in x.visited \ {x.ask.from}
          PROVE  /\ n \in DOMAIN y.parent /\ y.parent[n] \in all
                 /\ \E m \in y.visited : m # n /\ further[n] = further[m] + 1
                                         /\ Ends(y.parent[n]) = {m, n}
      <4>1. PICK m \in x.visited : m # n /\ rank[n] = rank[m] + 1 /\ Ends(x.parent[n]) = {m, n}
        BY <2>1 DEF Ranked
      <4>2. n \in DOMAIN x.parent /\ x.parent[n] \in all
        BY <2>1 DEF Ranked
      <4>3. n \in DOMAIN y.parent /\ y.parent[n] = x.parent[n]
        BY <1>12, <3>2, <4>2
      <4>4. further[n] = further[m] + 1 /\ m \in y.visited
        BY <1>12, <3>2, <4>1
      <4>5. QED
        BY <4>1, <4>2, <4>3, <4>4
    <3>6. ASSUME NEW n \in new
          PROVE  /\ n \in DOMAIN y.parent /\ y.parent[n] \in all
                 /\ \E m \in y.visited : m # n /\ further[n] = further[m] + 1
                                         /\ Ends(y.parent[n]) = {m, n}
      <4>1. n \in DOMAIN y.parent /\ y.parent[n] = via[n]
        BY <1>12
      <4>2. via[n] \in all /\ n \in Ends(via[n]) /\ Ends(via[n]) \cap x.frontier # {}
        BY <1>7 DEF incident
      <4>3. PICK m \in x.frontier : m \in Ends(via[n])
        BY <4>2
      <4>4. m \in x.visited /\ m # n /\ rank[m] = x.level
        BY <1>11, <2>1, <3>1 DEF Ranked
      <4>5. Ends(via[n]) = {m, n}
        BY <4>2, <4>3, <4>4 DEF Ends
      <4>6. further[n] = further[m] + 1 /\ m \in y.visited
        BY <1>12, <3>2, <3>3, <4>4
      <4>7. QED
        BY <4>1, <4>2, <4>4, <4>5, <4>6
    <3>7. further[y.ask.from] = 0 /\ \A n \in y.frontier : further[n] = y.level
      BY <1>12, <2>1, <3>1, <3>2, <3>3 DEF Ranked
    <3> HIDE DEF further
    <3>8. \A n \in y.visited \ {y.ask.from} :
             /\ n \in DOMAIN y.parent /\ y.parent[n] \in all
             /\ \E m \in y.visited : m # n /\ further[n] = further[m] + 1
                                     /\ Ends(y.parent[n]) = {m, n}
      BY <1>12, <3>5, <3>6
    <3>9. QED
      BY <3>4, <3>7, <3>8 DEF Ranked
  <2> HIDE DEF further
  <2>3. x.ask.to \notin x.visited
    BY <1>4, <1>8 DEF Traced
  <2>4. ~x.capped => \A d \in 0..x.level : x.ask.to \notin Within(es, x.ask.from, d)
    <3>1. x.level \in Nat
      BY <1>8 DEF Typed
    <3>2. \A d \in Nat : d <= x.level => Within(es, x.ask.from, d) \subseteq Within(es, x.ask.from, x.level)
      BY <3>1, WithinGrows
    <3>3. ~x.capped => Within(es, x.ask.from, x.level) \subseteq x.visited
      BY <1>8 DEF Complete
    <3>4. \A d \in 0..x.level : d \in Nat /\ d <= x.level
      BY <3>1
    <3>5. QED
      BY <2>3, <3>2, <3>3, <3>4
  <2>5. (y.level) - 1 = x.level
    BY <1>8, <1>12 DEF Typed
  <2>6. ~y.capped => ~x.capped
    BY <1>12
  <2>7. y.ask = x.ask /\ y.found = y.done /\ y.found = (x.ask.to \in new)
        /\ y.visited = x.visited \cup new /\ y.frontier = new
    BY <1>12
  <2>8. QED
    BY <2>2, <2>3, <2>4, <2>5, <2>6, <2>7 DEF Traced
<1>17. Followed(y.ask.types)' = all
  BY <1>12 DEF all, Followed
<1>18. Sound(y, es, all)
  BY <1>13, <1>14, <1>15, <1>16 DEF Sound
<1>19. QED
  BY <1>2, <1>17, <1>18 DEF SearchInv

\* Every step of a search keeps it sound.
LEMMA SearchInvStep ==
    ASSUME SearchInv, SearchStep, UNCHANGED edges, IsFiniteSet(DOMAIN edges)
    PROVE  SearchInv'
<1>1. CASE SameNode
  <2>1. PICK x : x = search
    OBVIOUS
  <2>2. PICK y : y = search'
    OBVIOUS
  <2>3. PICK f \in BOOLEAN : y = [x EXCEPT !.done = TRUE, !.found = f]
    <3>1. search' = [search EXCEPT !.done = TRUE, !.found = search.ask.from \in DOMAIN nodes]
      BY <1>1 DEF SameNode
    <3>2. PICK f : f = (search.ask.from \in DOMAIN nodes)
      OBVIOUS
    <3>3. f \in BOOLEAN
      <4>1. (search.ask.from \in DOMAIN nodes) \in BOOLEAN
        OBVIOUS
      <4>2. QED
        BY <3>2, <4>1, Zenon
    <3>4. y = [x EXCEPT !.done = TRUE, !.found = f]
      BY <2>1, <2>2, <3>1, <3>2, Zenon
    <3>5. QED
      BY <3>3, <3>4
  <2> DEFINE all == Followed(x.ask.types)
  <2>4. PICK es \in SUBSET all : Sound(x, es, all)
    BY <1>1, <2>1 DEF SearchInv, SameNode
  <2>5. x.ask.op = "path" /\ x.ask.from = x.ask.to
    BY <1>1, <2>1 DEF SameNode
  <2> HIDE DEF all
  <2>6. Typed(x) /\ Complete(x, es)
    BY <2>4 DEF Sound
  <2>7. /\ DOMAIN y = Fields /\ y.done /\ y.found = f
        /\ y.ask = x.ask /\ y.depth = x.depth /\ y.maxNodes = x.maxNodes /\ y.level = x.level
        /\ y.visited = x.visited /\ y.frontier = x.frontier /\ y.reach = x.reach
        /\ y.capped = x.capped
    BY <2>3, <2>6 DEF Typed, Fields
  <2>8. Typed(y)
    BY <2>6, <2>7 DEF Typed
  <2>9. Complete(y, es)
    BY <2>6, <2>7 DEF Complete
  <2>10. Sound(y, es, all)
    BY <2>5, <2>7, <2>8, <2>9 DEF Sound, Gathered, Traced
  <2>11. Followed(y.ask.types)' = all
    BY <2>7 DEF all, Followed
  <2>12. QED
    BY <2>2, <2>10, <2>11 DEF SearchInv
<1>2. CASE GiveUp
  BY <1>2, SearchInvGiveUp
<1>3. CASE ExpandPath
  BY <1>3, SearchInvPath
<1>4. CASE ExpandNeighbors
  BY <1>4, SearchInvNeighbors
<1>5. CASE Answer
  BY <1>5 DEF Answer, SearchInv
<1>6. QED
  BY <1>1, <1>2, <1>3, <1>4, <1>5 DEF SearchStep

-----------------------------------------------------------------------------
(***************************************************************************)
(* What a sound search answers.                                             *)
(***************************************************************************)

\* The nodes answered are reached over the edges answered, no more than asked
\* for, and without a cap all there were.
LEMMA NeighborsAreSound ==
    ASSUME SearchInv
    PROVE  NeighborhoodIsWhole
<1> SUFFICES ASSUME search # None, search.done, search.ask.op # "path"
             PROVE  /\ AnsweredNodes \subseteq Within(search.out, search.ask.from, search.depth)
                    /\ Cardinality(AnsweredNodes) <= search.maxNodes
                    /\ ~search.capped => Wanted(search.reach[search.depth]) \subseteq AnsweredNodes
  BY DEF NeighborhoodIsWhole
<1>1. PICK es : Sound(search, es, Followed(search.ask.types))
  BY DEF SearchInv
<1>2. Typed(search) /\ Complete(search, es) /\ Gathered(search, es)
  BY <1>1 DEF Sound
<1>3. AnsweredNodes \subseteq search.visited
  BY DEF AnsweredNodes, Wanted
<1>4. AnsweredNodes \subseteq Within(search.out, search.ask.from, search.depth)
  <2>1. search.depth \in Nat /\ search.level \in Nat /\ search.level <= search.depth
    BY <1>2 DEF Typed
  <2>2. \A d \in Nat : d <= search.depth =>
           Within(search.out, search.ask.from, d) \subseteq Within(search.out, search.ask.from, search.depth)
    BY <2>1, WithinGrows
  <2>3. search.visited \subseteq Within(search.out, search.ask.from, search.level)
    BY <1>2 DEF Gathered
  <2>4. QED
    BY <1>3, <2>1, <2>2, <2>3
<1>5. Cardinality(AnsweredNodes) <= search.maxNodes
  <2>1. IsFiniteSet(search.visited) /\ search.maxNodes \in Nat
    BY <1>2 DEF Typed
  <2>2. /\ Cardinality(AnsweredNodes) <= Cardinality(search.visited)
        /\ IsFiniteSet(AnsweredNodes)
    BY <1>3, <2>1, FS_Subset
  <2>3. Cardinality(AnsweredNodes) \in Nat /\ Cardinality(search.visited) \in Nat
    BY <2>1, <2>2, FS_CardinalityType
  <2>4. Cardinality(search.visited) <= search.maxNodes
    BY <1>2 DEF Gathered
  <2>5. QED
    BY <2>1, <2>2, <2>3, <2>4
<1>6. ~search.capped => Wanted(search.reach[search.depth]) \subseteq AnsweredNodes
  <2>1. search.reach[search.depth] = Within(es, search.ask.from, search.depth)
    BY <1>2 DEF Complete, Typed
  <2>2. ~search.capped => search.reach[search.depth] \subseteq search.visited
    BY <1>2, <2>1 DEF Gathered
  <2>3. QED
    BY <2>2 DEF AnsweredNodes, Wanted
<1>7. QED
  BY <1>4, <1>5, <1>6

\* The recursion of PathTo.
Retraced(back, x) ==
    back = [n \in x.visited |->
               IF n = x.ask.from THEN <<>>
               ELSE Append(back[CHOOSE m \in Ends(x.parent[n]) : m # n], x.parent[n])]

\* Where a node came from: the other end of its edge, one level before.
LEMMA CameFrom ==
    ASSUME NEW x, NEW all, NEW rank, Ranked(x, all, rank),
           NEW n \in x.visited \ {x.ask.from},
           NEW m, m = CHOOSE k \in Ends(x.parent[n]) : k # n
    PROVE  /\ m \in x.visited /\ m # n /\ rank[n] = rank[m] + 1
           /\ Ends(x.parent[n]) = {m, n}
<1>1. PICK k \in x.visited : k # n /\ rank[n] = rank[k] + 1 /\ Ends(x.parent[n]) = {k, n}
  BY DEF Ranked
<1>2. m = k
  BY <1>1
<1>3. QED
  BY <1>1, <1>2

\* Going back ends where the search started.
LEMMA BackExists ==
    ASSUME NEW x, NEW all, NEW rank, Typed(x), Ranked(x, all, rank)
    PROVE  \E back : Retraced(back, x) /\ back \in [x.visited -> Seq(all)]
<1> DEFINE from(n) == CHOOSE m \in Ends(x.parent[n]) : m # n
           X     == x.visited
           V     == Seq(all)
           prev  == [n \in X |-> IF n = x.ask.from THEN n ELSE from(n)]
           first == [n \in X |-> <<>>]
           next  == [n \in X |-> [v \in V |-> IF n = x.ask.from THEN <<>> ELSE Append(v, x.parent[n])]]
<1>1. x.level \in Nat
  BY DEF Typed
<1>2. \A n \in X \ {x.ask.from} : from(n) \in X /\ rank[n] = rank[from(n)] + 1
  <2> TAKE n \in X \ {x.ask.from}
  <2>1. PICK m : m = from(n)
    OBVIOUS
  <2>2. m \in x.visited /\ rank[n] = rank[m] + 1
    BY <2>1, CameFrom
  <2>3. QED
    BY <2>1, <2>2
<1>3. \A n \in X : rank[n] = 0 <=> n = x.ask.from
  <2>1. \A n \in X : rank[n] \in 0..x.level
    BY DEF Ranked
  <2>2. rank[x.ask.from] = 0
    BY DEF Ranked
  <2> HIDE DEF from
  <2>3. QED
    BY <1>1, <1>2, <2>1, <2>2
<1>4. RecursionOn(X, x.level, rank, prev, V, first, next)
  <2>1. rank \in [X -> 0..x.level]
    BY DEF Ranked
  <2>2. prev \in [X -> X]
    <3> HIDE DEF from
    <3>1. QED
      BY <1>2
  <2>3. \A n \in X : rank[n] # 0 => rank[prev[n]] < rank[n]
    <3>1. \A n \in X : rank[n] \in 0..x.level
      BY <2>1
    <3> HIDE DEF from
    <3>2. QED
      BY <1>1, <1>2, <1>3, <3>1
  <2>4. first \in [X -> V]
    OBVIOUS
  <2>5. next \in [X -> [V -> V]]
    <3>1. \A n \in X \ {x.ask.from} : x.parent[n] \in all
      BY DEF Ranked
    <3>2. QED
      BY <3>1
  <2> HIDE DEF X, V, prev, first, next
  <2>6. QED
    BY <1>1, <2>1, <2>2, <2>3, <2>4, <2>5 DEF RecursionOn
<1>5. PICK back \in [X -> V] : \A n \in X :
         back[n] = IF rank[n] = 0 THEN first[n] ELSE next[n][back[prev[n]]]
  <2> HIDE DEF X, V, prev, first, next
  <2>1. QED
    BY <1>4, BoundedRecursion
<1>6. ASSUME NEW n \in X
      PROVE  back[n] = IF n = x.ask.from THEN <<>> ELSE Append(back[from(n)], x.parent[n])
  <2>1. CASE n = x.ask.from
    BY <1>3, <1>5, <2>1
  <2>2. CASE n # x.ask.from
    <3>1. prev[n] = from(n) /\ from(n) \in X
      BY <1>2, <2>2
    <3> HIDE DEF from
    <3>2. back[from(n)] \in V
      BY <1>5, <3>1
    <3>3. back[n] = next[n][back[prev[n]]]
      BY <1>3, <1>5, <2>2
    <3>4. next[n][back[from(n)]] = Append(back[from(n)], x.parent[n])
      BY <2>2, <3>2
    <3>5. QED
      BY <2>2, <3>1, <3>3, <3>4
  <2>3. QED
    BY <2>1, <2>2
<1>7. Retraced(back, x)
  <2> DEFINE b(n) == IF n = x.ask.from THEN <<>> ELSE Append(back[from(n)], x.parent[n])
  <2>1. \A n \in X : back[n] = b(n)
    BY <1>6
  <2> HIDE DEF b
  <2>2. back = [n \in X |-> b(n)]
    BY <1>5, <2>1
  <2>3. QED
    BY <2>2 DEF Retraced, b
<1>8. QED
  BY <1>5, <1>7

\* The edges back from a node lead there, each touching the next.
Leads(p, x, all, n) ==
    /\ p \in Seq(all)
    /\ n # x.ask.from =>
          /\ Len(p) # 0 /\ x.ask.from \in Ends(p[1]) /\ n \in Ends(p[Len(p)])
          /\ \A i \in 2..Len(p) : Ends(p[i - 1]) \cap Ends(p[i]) # {}

LEMMA BackLeads ==
    ASSUME NEW x, NEW all, NEW rank, Typed(x), Ranked(x, all, rank),
           NEW back, Retraced(back, x)
    PROVE  \A n \in x.visited : Len(back[n]) = rank[n] /\ Leads(back[n], x, all, n)
<1> DEFINE G == {n \in x.visited : Len(back[n]) = rank[n] /\ Leads(back[n], x, all, n)}
<1>1. ASSUME NEW n \in x.visited, \A m \in x.visited : rank[m] < rank[n] => m \in G
      PROVE  n \in G
  <2>1. CASE n = x.ask.from
    <3>1. back[n] = <<>> /\ rank[n] = 0
      BY <2>1 DEF Retraced, Ranked
    <3>2. <<>> \in Seq(all) /\ Len(<<>>) = 0
      OBVIOUS
    <3>3. QED
      BY <2>1, <3>1, <3>2 DEF Leads
  <2>2. CASE n # x.ask.from
    <3>1. PICK m : m = CHOOSE k \in Ends(x.parent[n]) : k # n
      OBVIOUS
    <3>2. /\ m \in x.visited /\ m # n /\ rank[n] = rank[m] + 1
          /\ Ends(x.parent[n]) = {m, n}
      <4>1. n \in x.visited \ {x.ask.from}
        BY <2>2
      <4>2. QED
        BY <3>1, <4>1, CameFrom, SMTT(120)
    <3>3. PICK e : e = x.parent[n]
      OBVIOUS
    <3>4. PICK b : b = back[m]
      OBVIOUS
    <3>5. back[n] = Append(b, e)
      BY <2>2, <3>1, <3>3, <3>4 DEF Retraced
    <3>6. rank[m] \in Nat /\ e \in all
      BY <2>2, <3>2, <3>3 DEF Ranked
    <3>7. Len(b) = rank[m] /\ Leads(b, x, all, m)
      BY <1>1, <3>2, <3>4, <3>6
    <3>8. b \in Seq(all)
      BY <3>7 DEF Leads
    <3>9. /\ Append(b, e) \in Seq(all) /\ Len(Append(b, e)) = Len(b) + 1
          /\ Append(b, e)[Len(b) + 1] = e
          /\ \A i \in 1..Len(b) : Append(b, e)[i] = b[i]
      BY <3>6, <3>8
    <3> DEFINE p == Append(b, e)
    <3> HIDE DEF p
    <3>10. p \in Seq(all) /\ Len(p) = Len(b) + 1 /\ p[Len(b) + 1] = e
           /\ \A i \in 1..Len(b) : p[i] = b[i]
      BY <3>9 DEF p
    <3>11. Len(b) \in Nat
      BY <3>8
    <3>12. x.ask.from \in Ends(p[1])
      <4>1. CASE m = x.ask.from
        <5>1. rank[m] = 0
          BY <4>1 DEF Ranked
        <5>2. p[1] = e
          BY <3>7, <3>10, <5>1
        <5>3. QED
          BY <3>2, <3>3, <4>1, <5>2
      <4>2. CASE m # x.ask.from
        <5>1. Len(b) # 0 /\ x.ask.from \in Ends(b[1])
          BY <3>7, <4>2 DEF Leads
        <5>2. p[1] = b[1]
          BY <3>10, <3>11, <5>1
        <5>3. QED
          BY <5>1, <5>2
      <4>3. QED
        BY <4>1, <4>2
    <3>13. ASSUME NEW i \in 2..Len(p) PROVE Ends(p[i - 1]) \cap Ends(p[i]) # {}
      <4>1. CASE i = Len(p)
        <5>1. Len(b) # 0 /\ i - 1 = Len(b) /\ i = Len(b) + 1
          BY <3>10, <3>11, <3>13, <4>1
        <5>2. m # x.ask.from
          BY <3>7, <5>1 DEF Ranked
        <5>3. m \in Ends(b[Len(b)])
          BY <3>7, <5>2 DEF Leads
        <5>4. p[i - 1] = b[Len(b)] /\ p[i] = e
          BY <3>10, <3>11, <5>1
        <5>5. QED
          BY <3>2, <3>3, <5>3, <5>4
      <4>2. CASE i # Len(p)
        <5>1. i \in 2..Len(b) /\ i - 1 \in 1..Len(b) /\ i \in 1..Len(b)
          BY <3>10, <3>11, <3>13, <4>2
        <5>2. m # x.ask.from
          BY <3>7, <3>11, <5>1 DEF Ranked
        <5>3. Ends(b[i - 1]) \cap Ends(b[i]) # {}
          BY <3>7, <5>1, <5>2 DEF Leads
        <5>4. p[i - 1] = b[i - 1] /\ p[i] = b[i]
          BY <3>10, <5>1
        <5>5. QED
          BY <5>3, <5>4
      <4>3. QED
        BY <4>1, <4>2
    <3>14. n \in Ends(p[Len(p)]) /\ Len(p) # 0
      BY <3>2, <3>3, <3>10, <3>11
    <3>15. back[n] = p /\ Len(p) = rank[n]
      BY <3>2, <3>5, <3>7, <3>10 DEF p
    <3>16. Leads(p, x, all, n)
      BY <3>10, <3>12, <3>13, <3>14 DEF Leads
    <3>17. QED
      BY <3>15, <3>16
  <2>3. QED
    BY <2>1, <2>2
<1>2. rank \in [x.visited -> Nat]
  BY DEF Ranked, Typed
<1> HIDE DEF G
<1>3. x.visited \subseteq G
  <2>1. \A n \in x.visited : (\A m \in x.visited : rank[m] < rank[n] => m \in G) => n \in G
    BY <1>1
  <2>2. QED
    BY <1>2, <2>1, RankInduction, SMTT(120)
<1>4. QED
  BY <1>3 DEF G

\* A path that is answered is one, and the shortest; none is answered only when
\* there was none -- unless a cap was met.
LEMMA PathsAreSound ==
    ASSUME SearchInv
    PROVE  PathAnswersAreHonest
<1> SUFFICES ASSUME search # None, search.done, search.ask.op = "path",
                    search.ask.from # search.ask.to
             PROVE  IF search.found
                    THEN LET path == PathTo
                         IN  /\ Range(path) \subseteq DOMAIN edges /\ Len(path) \in 1..search.depth
                             /\ search.ask.from \in Ends(path[1])
                             /\ search.ask.to \in Ends(path[Len(path)])
                             /\ \A i \in 2..Len(path) : Ends(path[i - 1]) \cap Ends(path[i]) # {}
                             /\ ~search.capped =>
                                    \A d \in 0..(Len(path) - 1) : search.ask.to \notin search.reach[d]
                    ELSE search.capped \/ search.ask.to \notin search.reach[search.depth]
  BY DEF PathAnswersAreHonest, Answered
<1>1. PICK x : x = search
  OBVIOUS
<1> DEFINE all == Followed(x.ask.types)
<1>2. PICK es : Sound(x, es, all)
  BY <1>1 DEF SearchInv
<1>3. Typed(x) /\ Complete(x, es) /\ Traced(x, es, all)
  BY <1>2 DEF Sound
<1>4. all \subseteq DOMAIN edges
  BY DEF Followed
<1> HIDE DEF all
<1>5. CASE ~x.found
  BY <1>1, <1>3, <1>5 DEF Complete, Traced, Typed
<1>6. CASE x.found
  <2>1. PICK rank : Ranked(x, all, rank)
    BY <1>1, <1>3 DEF Traced
  <2>2. PICK some : Retraced(some, x) /\ some \in [x.visited -> Seq(all)]
    BY <1>3, <2>1, BackExists
  <2> DEFINE back == CHOOSE b : Retraced(b, x)
  <2>3. PathTo = back[x.ask.to]
    BY <1>1 DEF PathTo, Retraced
  <2>4. Retraced(back, x)
    BY <2>2
  <2> HIDE DEF back
  <2>5. \A n \in x.visited : some[n] = back[n]
    <3> DEFINE G == {n \in x.visited : some[n] = back[n]}
    <3>1. ASSUME NEW n \in x.visited, \A m \in x.visited : rank[m] < rank[n] => m \in G
          PROVE  n \in G
      <4>1. CASE n = x.ask.from
        BY <2>2, <2>4, <4>1 DEF Retraced
      <4>2. CASE n # x.ask.from
        <5>1. PICK m : m = CHOOSE k \in Ends(x.parent[n]) : k # n
          OBVIOUS
        <5>2. m \in x.visited /\ rank[n] = rank[m] + 1
          BY <2>1, <4>2, <5>1, CameFrom
        <5>3. rank[m] \in Nat
          BY <2>1, <5>2 DEF Ranked
        <5>4. some[m] = back[m]
          BY <3>1, <5>2, <5>3
        <5>5. some[n] = Append(some[m], x.parent[n]) /\ back[n] = Append(back[m], x.parent[n])
          BY <2>2, <2>4, <4>2, <5>1 DEF Retraced
        <5>6. QED
          BY <5>4, <5>5
      <4>3. QED
        BY <4>1, <4>2
    <3>2. rank \in [x.visited -> Nat]
      BY <1>3, <2>1 DEF Ranked, Typed
    <3> HIDE DEF G
    <3>3. x.visited \subseteq G
      BY <3>1, <3>2, RankInduction
    <3>4. QED
      BY <3>3 DEF G
  <2>6. x.ask.to \in x.visited /\ rank[x.ask.to] = x.level /\ x.level \in 1..x.depth
    <3>1. x.ask.to \in x.frontier /\ x.frontier \subseteq x.visited /\ x.level \in 0..x.depth
      BY <1>1, <1>3, <1>6 DEF Traced, Typed
    <3>2. rank[x.ask.to] = x.level
      BY <2>1, <3>1 DEF Ranked
    <3>3. x.level # 0
      <4>1. PICK m \in x.visited : rank[x.ask.to] = rank[m] + 1
        BY <1>1, <2>1, <3>1 DEF Ranked
      <4>2. rank[m] \in Nat
        BY <2>1, <4>1 DEF Ranked
      <4>3. QED
        BY <3>2, <4>1, <4>2
    <3>4. QED
      BY <3>1, <3>2, <3>3
  <2>7. PICK path : path = PathTo
    OBVIOUS
  <2>8. Len(path) = x.level /\ Leads(path, x, all, x.ask.to)
    BY <1>3, <2>1, <2>2, <2>3, <2>5, <2>6, <2>7, BackLeads
  <2>9. Range(path) \subseteq DOMAIN edges
    BY <1>4, <2>8 DEF Range, Leads
  <2>10. ~x.capped => \A d \in 0..(Len(path) - 1) : x.ask.to \notin x.reach[d]
    <3>1. ~x.capped => \A d \in 0..(x.level - 1) : x.ask.to \notin Within(es, x.ask.from, d)
      BY <1>1, <1>3, <1>6 DEF Traced
    <3>2. \A d \in 0..(x.level - 1) : x.reach[d] = Within(es, x.ask.from, d)
      <4>1. x.depth \in Nat /\ x.reach = [d \in 0..x.depth |-> Within(es, x.ask.from, d)]
        BY <1>3 DEF Complete, Typed
      <4>2. \A d \in 0..(x.level - 1) : d \in 0..x.depth
        BY <2>6, <4>1
      <4>3. QED
        BY <4>1, <4>2
    <3>3. QED
      BY <2>8, <3>1, <3>2
  <2>11. /\ x.ask.from \in Ends(path[1]) /\ x.ask.to \in Ends(path[Len(path)])
         /\ \A i \in 2..Len(path) : Ends(path[i - 1]) \cap Ends(path[i]) # {}
    BY <1>1, <2>8 DEF Leads
  <2>12. QED
    BY <1>1, <1>6, <2>6, <2>7, <2>8, <2>9, <2>10, <2>11
<1>7. QED
  BY <1>1, <1>5, <1>6

-----------------------------------------------------------------------------
(***************************************************************************)
(* Transactions                                                            *)
(***************************************************************************)

\* The committed runs are those of results, and say of them what the code counts.
RunsAreResults ==
    \A r \in DOMAIN providerRuns :
        /\ providerRuns[r].payload \in Payloads
        /\ providerRuns[r].status = RunStatus(providerRuns[r].payload)

\* A run's rows are there once it is committed; what a session has not found it
\* is going to insert.
RunsHaveRows ==
    \A r \in DOMAIN providerRuns :
        /\ NodeKeys(providerRuns[r].payload) \subseteq DOMAIN nodes
        /\ EdgeKeys(providerRuns[r].payload) \subseteq DOMAIN edges

WorkIsWhole ==
    \A s \in Sessions :
        work[s] # None /\ work[s].op = "upsert" =>
            /\ work[s].payload \in Payloads
            /\ NodeKeys(work[s].payload) \subseteq DOMAIN nodes \cup work[s].newNodes
            /\ EdgeKeys(work[s].payload) \subseteq DOMAIN edges \cup work[s].newEdges
            /\ work[s].newNodes \subseteq NodeKeys(work[s].payload)
            /\ work[s].newEdges \subseteq EdgeKeys(work[s].payload)

\* Every row was inserted by a committed run, which needed it.
RowsHaveRuns ==
    /\ \A k \in DOMAIN nodes :
          nodes[k] \in DOMAIN providerRuns /\ k \in NodeKeys(providerRuns[nodes[k]].payload)
    /\ \A k \in DOMAIN edges :
          edges[k] \in DOMAIN providerRuns /\ k \in EdgeKeys(providerRuns[edges[k]].payload)

\* Observations cite rows, and callers hold committed runs, of their own result
\* if it has a hash.
ObservationsCiteRows ==
    \A o \in observations : o.row \in (IF o.kind = "node" THEN DOMAIN nodes ELSE DOMAIN edges)

AnswersAreRuns ==
    \A answer \in returned :
        /\ answer[2] \in DOMAIN providerRuns
        /\ answer[1].hash # None => providerRuns[answer[2]].payload = answer[1]

GraphInv ==
    /\ providerRuns \in Seq(Range(providerRuns)) /\ work = [s \in Sessions |-> work[s]]
    /\ IsFiniteSet(DOMAIN nodes) /\ IsFiniteSet(DOMAIN edges)
    /\ RunsAreResults /\ RunsHaveRows /\ WorkIsWhole /\ RowsHaveRuns
    /\ ObservationsCiteRows /\ AnswersAreRuns /\ OverlapAddsNothing

LEMMA GraphInvInit == GraphInit => GraphInv
<1> SUFFICES ASSUME GraphInit PROVE GraphInv
  OBVIOUS
<1>1. /\ DOMAIN providerRuns = {} /\ DOMAIN nodes = {} /\ DOMAIN edges = {}
      /\ observations = {} /\ returned = {}
  BY DEF GraphInit
<1>2. providerRuns \in Seq(Range(providerRuns))
  BY DEF GraphInit
<1>3. IsFiniteSet(DOMAIN nodes) /\ IsFiniteSet(DOMAIN edges)
  BY <1>1, FS_EmptySet
<1>4. QED
  BY <1>1, <1>2, <1>3
     DEF GraphInit, GraphInv, RunsAreResults, RunsHaveRows, WorkIsWhole, RowsHaveRuns,
         ObservationsCiteRows, AnswersAreRuns, OverlapAddsNothing

\* A step that leaves the tables alone keeps what is said of them.
LEMMA GraphInvWork ==
    ASSUME GraphInv, UNCHANGED <<nodes, edges, observations, providerRuns, returned>>,
           work' = [s \in Sessions |-> work'[s]], WorkIsWhole'
    PROVE  GraphInv'
BY DEF GraphInv, RunsAreResults, RunsHaveRows, RowsHaveRuns, ObservationsCiteRows, AnswersAreRuns,
       OverlapAddsNothing

\* A session plans to insert exactly what its result needs and it has not found.
LEMMA GraphInvBegin ==
    ASSUME GraphInv, NEW s \in Sessions, NEW p \in Payloads, BeginUpsert(s, p)
    PROVE  GraphInv'
<1> DEFINE w == [op |-> "upsert", payload |-> p, newNodes |-> NodeKeys(p) \ DOMAIN nodes,
                 newEdges |-> EdgeKeys(p) \ DOMAIN edges]
<1>1. /\ work' = [work EXCEPT ![s] = w]
      /\ UNCHANGED <<nodes, edges, observations, providerRuns, returned>>
  BY DEF BeginUpsert
<1>2. \A t \in Sessions : work'[t] = IF t = s THEN w ELSE work[t]
  BY <1>1 DEF GraphInv
<1>3. WorkIsWhole'
  BY <1>1, <1>2 DEF GraphInv, WorkIsWhole
<1>4. work' = [t \in Sessions |-> work'[t]]
  BY <1>1 DEF GraphInv
<1>5. QED
  BY <1>1, <1>3, <1>4, GraphInvWork

\* A caller that hands in a result with a hash is answered with a run of that
\* result, because the hash of another result is another one.
LEMMA GraphInvAnswer ==
    ASSUME GraphInv, NEW s \in Sessions, NEW p \in Payloads, AnswerKnown(s, p)
    PROVE  GraphInv'
<1>1. PICK r \in RunsOf(p) : returned' = returned \cup {<<p, r>>}
  BY DEF AnswerKnown
<1>2. UNCHANGED <<nodes, edges, observations, providerRuns, work>>
  BY DEF AnswerKnown
<1> DEFINE q == providerRuns[r].payload
<1>3. r \in DOMAIN providerRuns /\ q \in Payloads
  BY <1>1 DEF RunsOf, GraphInv, RunsAreResults
<1>4. q.provider = p.provider /\ PayloadHash(q) = PayloadHash(p)
  BY <1>1 DEF RunsOf
<1> HIDE DEF q
<1>5. p.hash # None => q = p
  <2> SUFFICES ASSUME p.hash # None PROVE q = p
    OBVIOUS
  <2>1. PayloadHash(q) = <<p.hash>>
    BY <1>4 DEF PayloadHash
  <2>2. q.hash # None
    BY <2>1 DEF PayloadHash
  <2>3. q.hash = p.hash
    BY <2>1, <2>2 DEF PayloadHash
  <2>4. QED
    BY <1>3, <1>4, <2>2, <2>3, PayloadsAssumption
<1>6. AnswersAreRuns'
  BY <1>1, <1>2, <1>3, <1>5 DEF GraphInv, AnswersAreRuns, q
<1>7. QED
  BY <1>2, <1>6 DEF GraphInv, RunsAreResults, RunsHaveRows, WorkIsWhole, RowsHaveRuns,
                    ObservationsCiteRows, OverlapAddsNothing

\* The database accepts only rows no earlier run has inserted; whatever an
\* earlier run of the same result needed is there, so none is new.
LEMMA GraphInvCommit ==
    ASSUME GraphInv, NEW s \in Sessions, CommitUpsert(s)
    PROVE  GraphInv'
<1> DEFINE w   == work[s]
           p   == w.payload
           run == Len(providerRuns) + 1
           row == [payload |-> p, status |-> RunStatus(p), extracted |-> CountOf(p, "extracted"),
                   inferred |-> CountOf(p, "inferred"), ambiguous |-> Ambiguous(p)]
<1>1. /\ w # None /\ w.op = "upsert"
      /\ w.newNodes \cap DOMAIN nodes = {} /\ w.newEdges \cap DOMAIN edges = {}
      /\ nodes' = [k \in DOMAIN nodes \cup w.newNodes |-> IF k \in w.newNodes THEN run ELSE nodes[k]]
      /\ edges' = [k \in DOMAIN edges \cup w.newEdges |-> IF k \in w.newEdges THEN run ELSE edges[k]]
      /\ observations' = observations \cup Observed(p, run)
      /\ providerRuns' = Append(providerRuns, row)
      /\ returned' = returned \cup {<<p, run>>}
      /\ work' = [work EXCEPT ![s] = None]
  BY DEF CommitUpsert, Idle, KeysAreFree, Inserted, NextRun
<1>2. /\ NodeKeys(p) \subseteq DOMAIN nodes \cup w.newNodes
      /\ EdgeKeys(p) \subseteq DOMAIN edges \cup w.newEdges
      /\ w.newNodes \subseteq NodeKeys(p) /\ w.newEdges \subseteq EdgeKeys(p)
      /\ p \in Payloads
  BY <1>1 DEF GraphInv, WorkIsWhole
<1>3. row.payload = p /\ row.status = RunStatus(p)
  OBVIOUS
<1> HIDE DEF row
<1>4. PICK T : providerRuns \in Seq(T)
  BY DEF GraphInv
<1>5. /\ Len(providerRuns) \in Nat /\ DOMAIN providerRuns = 1..Len(providerRuns)
      /\ DOMAIN providerRuns' = 1..run /\ providerRuns'[run] = row
      /\ \A r \in DOMAIN providerRuns : providerRuns'[r] = providerRuns[r]
  BY <1>1, <1>4
<1>6. providerRuns' \in Seq(Range(providerRuns'))
  <2>1. \A r \in DOMAIN providerRuns' : providerRuns'[r] \in Range(providerRuns')
    BY DEF Range
  <2>2. providerRuns' \in Seq(T \cup {row})
    BY <1>1, <1>4
  <2>3. QED
    BY <1>5, <2>1, <2>2
<1>7. \A t \in Sessions : work'[t] = IF t = s THEN None ELSE work[t]
  BY <1>1 DEF GraphInv
<1>8. work' = [t \in Sessions |-> work'[t]]
  BY <1>1 DEF GraphInv
<1> HIDE DEF w
<1>9. DOMAIN nodes' = DOMAIN nodes \cup w.newNodes /\ DOMAIN edges' = DOMAIN edges \cup w.newEdges
  BY <1>1
<1> HIDE DEF p
<1>10. RunsHaveRows'
  <2> SUFFICES ASSUME NEW r \in DOMAIN providerRuns'
               PROVE  /\ NodeKeys(providerRuns'[r].payload) \subseteq DOMAIN nodes'
                      /\ EdgeKeys(providerRuns'[r].payload) \subseteq DOMAIN edges'
    BY DEF RunsHaveRows
  <2>1. CASE r = run
    BY <2>1, <1>2, <1>3, <1>5, <1>9
  <2>2. CASE r # run
    BY <2>2, <1>5, <1>9 DEF GraphInv, RunsHaveRows
  <2>3. QED
    BY <2>1, <2>2
<1>11. WorkIsWhole'
  <2> SUFFICES ASSUME NEW t \in Sessions, work'[t] # None, work'[t].op = "upsert"
               PROVE  /\ work'[t].payload \in Payloads
                      /\ NodeKeys(work'[t].payload) \subseteq DOMAIN nodes' \cup work'[t].newNodes
                      /\ EdgeKeys(work'[t].payload) \subseteq DOMAIN edges' \cup work'[t].newEdges
                      /\ work'[t].newNodes \subseteq NodeKeys(work'[t].payload)
                      /\ work'[t].newEdges \subseteq EdgeKeys(work'[t].payload)
    BY DEF WorkIsWhole
  <2>1. work'[t] = work[t]
    BY <1>7
  <2>2. QED
    BY <2>1, <1>9 DEF GraphInv, WorkIsWhole
<1>12. RowsHaveRuns'
  <2>1. ASSUME NEW k \in DOMAIN nodes'
        PROVE  nodes'[k] \in DOMAIN providerRuns' /\ k \in NodeKeys(providerRuns'[nodes'[k]].payload)
    <3>1. CASE k \in w.newNodes
      BY <3>1, <1>1, <1>2, <1>3, <1>5
    <3>2. CASE k \notin w.newNodes
      BY <3>2, <1>1, <1>5, <1>9 DEF GraphInv, RowsHaveRuns
    <3>3. QED
      BY <3>1, <3>2
  <2>2. ASSUME NEW k \in DOMAIN edges'
        PROVE  edges'[k] \in DOMAIN providerRuns' /\ k \in EdgeKeys(providerRuns'[edges'[k]].payload)
    <3>1. CASE k \in w.newEdges
      BY <3>1, <1>1, <1>2, <1>3, <1>5
    <3>2. CASE k \notin w.newEdges
      BY <3>2, <1>1, <1>5, <1>9 DEF GraphInv, RowsHaveRuns
    <3>3. QED
      BY <3>1, <3>2
  <2>3. QED
    BY <2>1, <2>2 DEF RowsHaveRuns
<1>13. OverlapAddsNothing'
  <2> SUFFICES ASSUME NEW r \in DOMAIN providerRuns', NEW q \in DOMAIN providerRuns', r < q,
                      providerRuns'[r].payload = providerRuns'[q].payload
               PROVE  q \notin Range(nodes') \cup Range(edges')
    BY DEF OverlapAddsNothing
  <2>1. CASE q = run
    <3>1. r \in DOMAIN providerRuns /\ providerRuns[r].payload = p
      BY <2>1, <1>3, <1>5
    <3>2. w.newNodes = {} /\ w.newEdges = {}
      BY <3>1, <1>1, <1>2 DEF GraphInv, RunsHaveRows
    <3>3. run \notin Range(nodes) \cup Range(edges)
      BY <1>5 DEF GraphInv, RowsHaveRuns, Range
    <3>4. QED
      BY <2>1, <3>2, <3>3, <1>1 DEF Range
  <2>2. CASE q # run
    <3>1. q \notin Range(nodes) \cup Range(edges)
      BY <2>2, <1>5 DEF GraphInv, OverlapAddsNothing
    <3>2. QED
      BY <2>2, <3>1, <1>1 DEF Range
  <2>3. QED
    BY <2>1, <2>2
<1>14. RunsAreResults'
  BY <1>2, <1>3, <1>5 DEF GraphInv, RunsAreResults
<1>15. ObservationsCiteRows'
  <2>1. \A o \in Observed(p, run) :
           o.row \in (IF o.kind = "node" THEN NodeKeys(p) ELSE EdgeKeys(p))
    BY DEF Observed, FirstOf, NodeKeys, EdgeKeys
  <2>2. \A o \in Observed(p, run) :
           o.row \in (IF o.kind = "node" THEN DOMAIN nodes' ELSE DOMAIN edges')
    BY <2>1, <1>2, <1>9
  <2>3. \A o \in observations :
           o.row \in (IF o.kind = "node" THEN DOMAIN nodes' ELSE DOMAIN edges')
    BY <1>9 DEF GraphInv, ObservationsCiteRows
  <2>4. QED
    BY <2>2, <2>3, <1>1 DEF ObservationsCiteRows
<1>16. AnswersAreRuns'
  BY <1>1, <1>3, <1>5 DEF GraphInv, AnswersAreRuns
<1>17. IsFiniteSet(DOMAIN nodes') /\ IsFiniteSet(DOMAIN edges')
  <2>1. IsFiniteSet(DOMAIN p.nodes) /\ IsFiniteSet(Resolved(p))
    <3>1. p.nodes \in Seq(Range(p.nodes)) /\ p.edges \in Seq(Range(p.edges))
      BY <1>2, PayloadsAssumption DEF IsPayload
    <3>2. IsFiniteSet(1..Len(p.nodes)) /\ IsFiniteSet(1..Len(p.edges))
      BY <3>1, FS_Interval
    <3>3. QED
      BY <3>1, <3>2, FS_Subset DEF Resolved
  <2>2. IsFiniteSet(EdgeKeys(p))
    <3> DEFINE key == [i \in Resolved(p) |-> EdgeKey(p.edges[i])]
    <3>1. key \in Surjection(Resolved(p), EdgeKeys(p))
      BY DEF EdgeKeys, Surjection
    <3>2. QED
      BY <2>1, <3>1, FS_Surjection
  <2>3. IsFiniteSet(NodeKeys(p))
    <3> DEFINE key == [i \in DOMAIN p.nodes |-> p.nodes[i].key]
    <3>1. key \in Surjection(DOMAIN p.nodes, NodeKeys(p))
      BY DEF NodeKeys, Surjection
    <3>2. QED
      BY <2>1, <3>1, FS_Surjection
  <2>4. QED
    BY <2>2, <2>3, <1>2, <1>9, FS_Subset, FS_Union DEF GraphInv
<1>18. QED
  BY <1>6, <1>8, <1>10, <1>11, <1>12, <1>13, <1>14, <1>15, <1>16, <1>17 DEF GraphInv

-----------------------------------------------------------------------------
\* The first draft of a key is the only one that is created, so that a new row
\* has the evidence of its own draft, once.
LEMMA FreshRows ==
    ASSUME NEW drafts, NEW known, DOMAIN drafts \subseteq Nat \ {0}
    PROVE  LET created == Created(drafts, known)
           IN  /\ DOMAIN EvidenceRows(drafts, created) = DOMAIN Rows(drafts, created)
               /\ \A k \in DOMAIN Rows(drafts, created) :
                     EvidenceRows(drafts, created)[k] = <<Rows(drafts, created)[k]>>
<1> DEFINE created == Created(drafts, known)
           keys    == {drafts[i].key : i \in created}
<1>1. DOMAIN EvidenceRows(drafts, created) = keys /\ DOMAIN Rows(drafts, created) = keys
  BY DEF EvidenceRows, Rows
<1>2. created \subseteq Nat \ {0}
  BY DEF Created
<1>3. \A i, j \in created : drafts[i].key = drafts[j].key => i = j
  BY <1>2 DEF Created
<1> HIDE DEF created
<1>4. ASSUME NEW k \in keys
      PROVE  EvidenceRows(drafts, created)[k] = <<Rows(drafts, created)[k]>>
  <2>1. PICK i0 \in created : drafts[i0].key = k
    OBVIOUS
  <2>2. i0 \in Nat /\ \A i \in created : drafts[i].key = k <=> i = i0
    BY <1>2, <1>3, <2>1
  <2>3. {i \in created : drafts[i].key = k} = {i0}
    BY <2>1, <2>2
  <2>4. Cardinality({i \in created : drafts[i].key = k}) = 1
    BY <2>3, FS_Singleton
  <2> DEFINE earlier(i) == {j \in created : drafts[j].key = k /\ j < i}
  <2>5. Cardinality(earlier(i0)) = 0
    <3>1. \A j \in created : ~(drafts[j].key = k /\ j < i0)
      BY <2>2
    <3>2. earlier(i0) = {}
      BY <3>1
    <3>3. QED
      BY <3>2, FS_EmptySet
  <2> HIDE DEF earlier
  <2>6. (CHOOSE i \in created : drafts[i].key = k /\ Cardinality(earlier(i)) = 1 - 1) = i0
    BY <2>1, <2>2, <2>5
  <2>7. EvidenceRows(drafts, created)[k] = [n \in 1..1 |-> drafts[i0]]
    <3>1. EvidenceRows(drafts, created)[k] =
            [n \in 1..Cardinality({i \in created : drafts[i].key = k}) |->
               drafts[CHOOSE i \in created : drafts[i].key = k /\ Cardinality(earlier(i)) = n - 1]]
      BY DEF EvidenceRows, earlier
    <3> DEFINE only(n) == drafts[CHOOSE i \in created : drafts[i].key = k /\ Cardinality(earlier(i)) = n - 1]
    <3>2. EvidenceRows(drafts, created)[k] = [n \in 1..1 |-> only(n)]
      BY <3>1, <2>4
    <3>3. only(1) = drafts[i0]
      BY <2>6
    <3>4. \A n \in 1..1 : n = 1
      OBVIOUS
    <3> HIDE DEF only
    <3>5. QED
      BY <3>2, <3>3, <3>4
  <2>8. Rows(drafts, created)[k] = drafts[i0]
    <3> DEFINE first(i) == drafts[i].key = k /\ \A j \in created : drafts[j].key = k => i <= j
    <3>1. (CHOOSE i \in created : first(i)) = i0
      <4>1. first(i0) /\ \A i \in created : first(i) => i = i0
        BY <2>1, <2>2
      <4> HIDE DEF first
      <4>2. QED
        BY <2>1, <4>1
    <3>2. QED
      BY <3>1 DEF Rows
  <2>9. QED
    BY <2>7, <2>8
<1>5. QED
  BY <1>1, <1>4 DEF created

\* What a session works on is a batch, and what it has found is there.
BatchesLookedUp ==
    \A s \in Sessions :
        work[s] # None /\ work[s].op = "claims" =>
            /\ \E n \in Nat : DOMAIN work[s].batch = 1..n
            /\ work[s].known \subseteq DOMAIN claims

ClaimsInv ==
    /\ EvidenceOnce /\ BatchesLookedUp
    /\ claims = [k \in DOMAIN claims |-> claims[k]]

LEMMA ClaimsInvBegin ==
    ASSUME ClaimsInv, GraphInv, NEW s \in Sessions, NEW drafts, NEW left, NEW n \in Nat, DOMAIN drafts = 1..n,
           BeginClaims(s, drafts, left)
    PROVE  ClaimsInv' /\ GraphInv'
<1>1. /\ work' = [work EXCEPT ![s] = Looking(drafts, left, claims)]
      /\ UNCHANGED <<nodes, edges, observations, providerRuns, returned, claims, evidence>>
  BY DEF BeginClaims
<1>2. \A t \in Sessions : work'[t] = IF t = s THEN Looking(drafts, left, claims) ELSE work[t]
  BY <1>1 DEF GraphInv
<1>3. /\ Looking(drafts, left, claims).op = "claims" /\ Looking(drafts, left, claims).batch = drafts
      /\ Looking(drafts, left, claims).known = DOMAIN claims
  BY DEF Looking
<1>4. WorkIsWhole'
  BY <1>1, <1>2, <1>3 DEF GraphInv, WorkIsWhole
<1>5. GraphInv'
  <2>1. work' = [t \in Sessions |-> work'[t]]
    BY <1>1 DEF GraphInv
  <2>2. QED
    BY <1>1, <1>4, <2>1, GraphInvWork
<1>6. ClaimsInv'
  BY <1>1, <1>2, <1>3 DEF ClaimsInv, EvidenceOnce, BatchesLookedUp
<1>7. QED
  BY <1>5, <1>6

LEMMA ClaimsInvCommit ==
    ASSUME ClaimsInv, GraphInv, NEW s \in Sessions, CommitClaims(s)
    PROVE  ClaimsInv' /\ GraphInv'
<1> DEFINE w       == work[s]
           created == Created(w.batch, w.known)
           fresh   == Rows(w.batch, created)
           proofs  == EvidenceRows(w.batch, created)
           next    == IF w.left = <<>> THEN None ELSE Looking(<<Head(w.left)>>, Tail(w.left), claims')
<1>1. /\ w # None /\ w.op = "claims"
      /\ claims' = Added(claims, fresh) /\ evidence' = Added(evidence, proofs)
      /\ work' = [work EXCEPT ![s] = next]
      /\ UNCHANGED <<nodes, edges, observations, providerRuns, returned>>
  BY DEF CommitClaims, Idle
<1>2. DOMAIN w.batch \subseteq Nat \ {0}
  BY <1>1 DEF ClaimsInv, BatchesLookedUp
<1>3. /\ DOMAIN proofs = DOMAIN fresh
      /\ \A k \in DOMAIN fresh : proofs[k] = <<fresh[k]>>
  BY <1>2, FreshRows
<1> HIDE DEF fresh, proofs
<1>4. EvidenceOnce'
  BY <1>1, <1>3 DEF ClaimsInv, EvidenceOnce, Added
<1>5. next # None =>
         /\ next.op = "claims" /\ next.known = DOMAIN claims'
         /\ DOMAIN next.batch = 1..1
  BY DEF Looking
<1> HIDE DEF next
<1>6. \A t \in Sessions : work'[t] = IF t = s THEN next ELSE work[t]
  BY <1>1 DEF GraphInv
<1>7. WorkIsWhole'
  BY <1>1, <1>5, <1>6 DEF GraphInv, WorkIsWhole
<1>8. GraphInv'
  <2>1. work' = [t \in Sessions |-> work'[t]]
    BY <1>1 DEF GraphInv
  <2>2. QED
    BY <1>1, <1>7, <2>1, GraphInvWork
<1>9. ClaimsInv'
  <2>1. DOMAIN claims \subseteq DOMAIN claims' /\ claims' = [k \in DOMAIN claims' |-> claims'[k]]
    BY <1>1 DEF Added
  <2>2. BatchesLookedUp'
    <3> SUFFICES ASSUME NEW t \in Sessions, work'[t] # None, work'[t].op = "claims"
                 PROVE  /\ \E n \in Nat : DOMAIN work'[t].batch = 1..n
                        /\ work'[t].known \subseteq DOMAIN claims'
      BY DEF BatchesLookedUp
    <3>1. CASE t = s
      BY <1>5, <1>6, <3>1
    <3>2. CASE t # s
      <4>1. work'[t] = work[t]
        BY <1>6, <3>2
      <4>2. QED
        BY <2>1, <4>1 DEF ClaimsInv, BatchesLookedUp
    <3>3. QED
      BY <3>1, <3>2
  <2>3. EvidenceOnce' /\ claims' = [k \in DOMAIN claims' |-> claims'[k]]
    BY <1>4, <2>1
  <2>4. QED
    BY <2>2, <2>3 DEF ClaimsInv
<1>10. QED
  BY <1>8, <1>9

-----------------------------------------------------------------------------
\* Everyone's steps: a session's transaction ends, or nothing is done to the
\* tables of graph and claims.

LEMMA InvRefuse ==
    ASSUME ClaimsInv, GraphInv, NEW s \in Sessions, RefuseUpsert(s) \/ RefuseClaims(s),
           UNCHANGED claimVars
    PROVE  ClaimsInv' /\ GraphInv'
<1>1. /\ work' = [work EXCEPT ![s] = None]
      /\ UNCHANGED <<nodes, edges, observations, providerRuns, returned, claims, evidence>>
  BY DEF RefuseUpsert, RefuseClaims, claimVars
<1>2. \A t \in Sessions : work'[t] = IF t = s THEN None ELSE work[t]
  BY <1>1 DEF GraphInv
<1>3. WorkIsWhole'
  BY <1>1, <1>2 DEF GraphInv, WorkIsWhole
<1>4. GraphInv'
  <2>1. work' = [t \in Sessions |-> work'[t]]
    BY <1>1 DEF GraphInv
  <2>2. QED
    BY <1>1, <1>3, <2>1, GraphInvWork
<1>5. QED
  BY <1>1, <1>2, <1>4 DEF ClaimsInv, EvidenceOnce, BatchesLookedUp

LEMMA InvStutter ==
    ASSUME ClaimsInv, GraphInv, UNCHANGED <<graphVars, claims, evidence>>
    PROVE  ClaimsInv' /\ GraphInv'
BY DEF graphVars, ClaimsInv, EvidenceOnce, BatchesLookedUp, GraphInv, RunsAreResults, RunsHaveRows, WorkIsWhole,
       RowsHaveRuns, ObservationsCiteRows, AnswersAreRuns, OverlapAddsNothing

LEMMA InvStart ==
    ASSUME ClaimsInv, GraphInv, NEW s \in Sessions, Start(s)
    PROVE  ClaimsInv' /\ GraphInv'
<1>1. ASSUME NEW p \in Payloads, AnswerKnown(s, p), UNCHANGED claimVars
      PROVE  ClaimsInv' /\ GraphInv'
  <2>1. GraphInv'
    BY <1>1, GraphInvAnswer
  <2>2. ClaimsInv'
    BY <1>1 DEF AnswerKnown, claimVars, ClaimsInv, EvidenceOnce, BatchesLookedUp
  <2>3. QED
    BY <2>1, <2>2
<1>2. ASSUME NEW p \in Payloads, BeginUpsert(s, p), UNCHANGED claimVars
      PROVE  ClaimsInv' /\ GraphInv'
  <2> DEFINE w == [op |-> "upsert", payload |-> p, newNodes |-> NodeKeys(p) \ DOMAIN nodes,
                   newEdges |-> EdgeKeys(p) \ DOMAIN edges]
  <2>1. work' = [work EXCEPT ![s] = w] /\ UNCHANGED <<claims, evidence>>
    BY <1>2 DEF BeginUpsert, claimVars
  <2>2. w.op = "upsert"
    OBVIOUS
  <2> HIDE DEF w
  <2>3. \A t \in Sessions : work'[t] = IF t = s THEN w ELSE work[t]
    BY <2>1 DEF GraphInv
  <2>4. ClaimsInv'
    BY <2>1, <2>2, <2>3 DEF ClaimsInv, EvidenceOnce, BatchesLookedUp
  <2>5. QED
    BY <1>2, <2>4, GraphInvBegin
<1>3. ASSUME PersistBatch(s) PROVE ClaimsInv' /\ GraphInv'
  <2>1. PICK drafts \in Batches : BeginClaims(s, drafts, <<>>)
    BY <1>3 DEF PersistBatch
  <2>2. drafts \in Seq(Range(drafts))
    BY BatchesAssumption
  <2>3. Len(drafts) \in Nat /\ DOMAIN drafts = 1..Len(drafts)
    BY <2>2
  <2>4. QED
    BY <2>1, <2>3, ClaimsInvBegin
<1>4. ASSUME PersistStructural(s) PROVE ClaimsInv' /\ GraphInv'
  <2>1. PICK drafts \in StructuralBatches : BeginClaims(s, drafts, <<>>)
    BY <1>4 DEF PersistStructural
  <2> DEFINE found == {n \in DOMAIN nodes : Pattern[n] # None}
             n     == Cardinality(found)
  <2>2. n \in Nat
    BY FS_Subset, FS_CardinalityType DEF GraphInv
  <2>3. DOMAIN drafts = 1..n
    <3>1. PICK order \in SetToSeqs(found) : drafts = [i \in DOMAIN order |-> StructuralDraft(order[i])]
      BY DEF StructuralBatches
    <3>2. DOMAIN order = 1..n
      BY <3>1 DEF SetToSeqs
    <3>3. QED
      BY <3>1, <3>2
  <2> HIDE DEF n
  <2>4. QED
    BY <2>1, <2>2, <2>3, ClaimsInvBegin
<1>5. ASSUME MigrateRules(s) PROVE ClaimsInv' /\ GraphInv'
  <2>1. PICK draft, left : BeginClaims(s, <<draft>>, left)
    BY <1>5 DEF MigrateRules
  <2>2. DOMAIN <<draft>> = 1..1
    OBVIOUS
  <2>3. QED
    BY <2>1, <2>2, ClaimsInvBegin
<1>6. ASSUME NEW draft \in ScenarioDrafts, BeginClaims(s, <<draft>>, <<>>)
      PROVE  ClaimsInv' /\ GraphInv'
  <2>1. DOMAIN <<draft>> = 1..1
    OBVIOUS
  <2>2. QED
    BY <1>6, <2>1, ClaimsInvBegin
<1>7. QED
  BY <1>1, <1>2, <1>3, <1>4, <1>5, <1>6 DEF Start

LEMMA InvFinish ==
    ASSUME ClaimsInv, GraphInv, NEW s \in Sessions, Finish(s)
    PROVE  ClaimsInv' /\ GraphInv'
<1>1. ASSUME CommitUpsert(s), UNCHANGED claimVars PROVE ClaimsInv' /\ GraphInv'
  <2>1. work' = [work EXCEPT ![s] = None] /\ UNCHANGED <<claims, evidence>>
    BY <1>1 DEF CommitUpsert, claimVars
  <2>2. \A t \in Sessions : work'[t] = IF t = s THEN None ELSE work[t]
    BY <2>1 DEF GraphInv
  <2>3. ClaimsInv'
    BY <2>1, <2>2 DEF ClaimsInv, EvidenceOnce, BatchesLookedUp
  <2>4. QED
    BY <1>1, <2>3, GraphInvCommit
<1>2. ASSUME RefuseClaims(s) PROVE UNCHANGED claimVars
  BY <1>2 DEF RefuseClaims, claimVars
<1>3. QED
  BY <1>1, <1>2, ClaimsInvCommit, InvRefuse DEF Finish

THEOREM ExtractionInvariant == ExtractionSpec => [](ClaimsInv /\ GraphInv)
<1>1. ExtractionInit => ClaimsInv /\ GraphInv
  <2> SUFFICES ASSUME ExtractionInit PROVE ClaimsInv /\ GraphInv
    OBVIOUS
  <2>1. GraphInv
    BY GraphInvInit DEF ExtractionInit
  <2>2. EvidenceOnce
    BY DEF ExtractionInit, ClaimsInit, EvidenceOnce
  <2>3. claims = [k \in DOMAIN claims |-> claims[k]]
    BY DEF ExtractionInit, ClaimsInit
  <2>4. QED
    BY <2>1, <2>2, <2>3 DEF ExtractionInit, GraphInit, ClaimsInv, BatchesLookedUp
<1>2. ASSUME ClaimsInv /\ GraphInv, [ExtractionNext]_allVars
      PROVE  (ClaimsInv /\ GraphInv)'
  <2>1. ASSUME UNCHANGED <<graphVars, claimVars>> PROVE ClaimsInv' /\ GraphInv'
    BY <1>2, <2>1, InvStutter DEF graphVars, claimVars
  <2>2. CASE Worker
    BY <2>1, <2>2 DEF Worker, FetchBatch, ProcessFile, LinkAll
  <2>3. CASE Override \/ Restart \/ Ask \/ Search
    BY <2>1, <2>3 DEF Override, Restart, Ask, Search
  <2>4. CASE UNCHANGED allVars
    BY <2>1, <2>4 DEF allVars
  <2>5. QED
    BY <1>2, <2>2, <2>3, <2>4, InvStart, InvFinish DEF ExtractionNext
<1>3. QED
  BY <1>1, <1>2, PTL DEF ExtractionSpec

\* Storing one result twice at the same time adds no second row, for any results
\* and any number of sessions.
THEOREM OverlapsAddNothing == ExtractionSpec => []OverlapAddsNothing
BY ExtractionInvariant, PTL DEF GraphInv

-----------------------------------------------------------------------------
(***************************************************************************)
(* The worker and the features                                             *)
(***************************************************************************)

\* What a feature row holds, and that rows and ingestions are those of files.
FeaturesTyped ==
    /\ features = [f \in FeatureFiles |-> features[f]]
    /\ ingested = [f \in FeatureFiles |-> ingested[f]]
    /\ \A f \in FeatureFiles : features[f] # None => features[f] \in FeatureRecords

BddInv == FeaturesTyped /\ FeaturesFollowFiles

\* The step rows of a file depend on its feature only.
LEMMA SameRows ==
    ASSUME NEW f \in FeatureFiles, features'[f] = features[f]
    PROVE  StepRows(f)' = StepRows(f)
BY DEF StepRows

\* What a step row says depends on the scenarios of its feature only, and what a
\* link must say of it on nothing else.
LEMMA SameSteps ==
    ASSUME NEW f \in FeatureFiles, features[f] # None,
           features'[f].scenarios = features[f].scenarios, NEW row \in StepRows(f), NEW rows
    PROVE  SaysOfStep(rows, StepAt(row))' <=> SaysOfStep(rows, StepAt(row))
<1>1. row[1] = f
  BY DEF StepRows
<1>2. StepAt(row)' = StepAt(row)
  BY <1>1 DEF StepAt
<1>3. \A step : Candidates(step)' = Candidates(step)
  BY DEF Candidates
<1>4. \A step : /\ LinkOf(step)'.status = LinkOf(step).status
                /\ LinkOf(step)'.name = LinkOf(step).name
  BY <1>3 DEF LinkOf
<1>5. QED
  BY <1>2, <1>4 DEF SaysOfStep

\* A parse error changes text and error of a feature, and keeps its rows.
LEMMA KeptByError ==
    ASSUME FeaturesTyped, NEW f \in FeatureFiles, NEW text \in Texts, ParseError(f, text)
    PROVE  /\ features' = [g \in FeatureFiles |-> features'[g]]
           /\ \A g \in FeatureFiles \ {f} : features'[g] = features[g]
           /\ features'[f] \in FeatureRecords
           /\ features'[f].text = text /\ features'[f].error
           /\ StepRows(f) \subseteq StepRows(f)'
           /\ features[f] # None => features'[f].scenarios = features[f].scenarios
<1> DEFINE new == [text |-> text, error |-> TRUE, scenarios |-> <<>>, generation |-> 1]
           old == [features[f] EXCEPT !.text = text, !.error = TRUE]
<1>1. features' = [features EXCEPT ![f] = IF features[f] = None THEN new ELSE old]
  BY DEF ParseError
<1>2. /\ features' = [g \in FeatureFiles |-> features'[g]]
      /\ \A g \in FeatureFiles \ {f} : features'[g] = features[g]
      /\ features'[f] = IF features[f] = None THEN new ELSE old
  BY <1>1 DEF FeaturesTyped
<1>3. CASE features[f] = None
  <2>1. new \in FeatureRecords
    BY DEF FeatureRecords
  <2>2. StepRows(f) = {}
    BY <1>3 DEF StepRows
  <2>3. QED
    BY <1>2, <1>3, <2>1, <2>2
<1>4. CASE features[f] # None
  <2>1. features[f] \in FeatureRecords
    BY <1>4 DEF FeaturesTyped
  <2>2. /\ old \in FeatureRecords /\ old.text = text /\ old.error
        /\ old.scenarios = features[f].scenarios /\ old.generation = features[f].generation
    BY <2>1 DEF FeatureRecords
  <2> HIDE DEF old
  <2>3. features'[f] = old /\ old # None
    BY <1>2, <1>4, <2>2, FeaturesAssumption
  <2>4. StepRows(f)' = StepRows(f)
    BY <1>4, <2>2, <2>3 DEF StepRows
  <2>5. QED
    BY <1>2, <2>2, <2>3, <2>4
<1>5. QED
  BY <1>3, <1>4

\* A link goes on saying what its step says.
LEMMA LinkKept ==
    ASSUME BddInv, links' = links, NEW row \in DOMAIN links, NEW f \in FeatureFiles,
           row \in StepRows(f), features[f] # None,
           features'[f].scenarios = features[f].scenarios
    PROVE  SaysOfStep(links[row], StepAt(row))'
<1> DEFINE rows == links[row]
<1>1. SaysOfStep(rows, StepAt(row))
  BY DEF BddInv, FeaturesFollowFiles
<1>2. PICK kept : kept = rows
  OBVIOUS
<1>3. SaysOfStep(kept, StepAt(row))'
  BY <1>1, <1>2, SameSteps
<1>4. rows' = kept
  BY <1>2
<1> HIDE DEF rows
<1>5. SaysOfStep(rows, StepAt(row))'
  BY <1>3, <1>4 DEF SaysOfStep
<1>6. QED
  BY <1>5 DEF rows

\* Without a change of features and links, their invariant stays, whatever nodes
\* are inserted.
LEMMA BddInvStutter ==
    ASSUME BddInv, UNCHANGED bddVars
    PROVE  BddInv'
<1>1. features' = features /\ links' = links /\ ingested' = ingested
  BY DEF bddVars
<1>2. \A f \in FeatureFiles : StepRows(f)' = StepRows(f)
  BY <1>1, SameRows
<1>3. AllSteps' = AllSteps
  BY <1>2 DEF AllSteps
<1>4. ASSUME NEW row \in DOMAIN links
      PROVE  SaysOfStep(links[row], StepAt(row))'
  <2>1. PICK f \in FeatureFiles : row \in StepRows(f)
    BY DEF BddInv, FeaturesFollowFiles, AllSteps
  <2>2. features[f] # None
    BY <2>1 DEF StepRows
  <2>3. QED
    BY <1>1, <2>1, <2>2, LinkKept
<1>5. QED
  BY <1>1, <1>2, <1>3, <1>4 DEF BddInv, FeaturesTyped, FeaturesFollowFiles

\* An ingestion leaves the tables as its text demands: unless it is refused, the
\* feature has the text, and a feature with steps keeps its scenarios.
LEMMA BddInvIngest ==
    ASSUME BddInv, NEW f \in FeatureFiles, NEW text \in Texts, IngestFeature(f, text)
    PROVE  BddInv'
<1> DEFINE now == [text |-> text, refused |-> ~Cached(f, text) /\ Refused(f, text)]
<1>1. /\ ingested' = [ingested EXCEPT ![f] = now]
      /\ links' = links
  BY DEF IngestFeature
<1>2. /\ ingested' = [g \in FeatureFiles |-> ingested'[g]]
      /\ ingested'[f] = now
      /\ \A g \in FeatureFiles \ {f} : ingested'[g] = ingested[g]
  BY <1>1 DEF BddInv, FeaturesTyped
<1>3. CASE Cached(f, text) \/ Refused(f, text)
  <2>1. features' = features
    BY <1>3 DEF IngestFeature
  <2>2. \A g \in FeatureFiles : StepRows(g)' = StepRows(g)
    BY <2>1, SameRows
  <2>3. now.refused => /\ features[f] # None /\ features[f].text # text
                       /\ Document[text].kind = "empty" \/ StepRows(f) # {}
    BY DEF Cached, Refused, StepRows
  <2>4. ~now.refused => features[f].text = text
    BY <1>3 DEF Cached
  <2>5. DOMAIN links \subseteq AllSteps'
    BY <2>2 DEF BddInv, FeaturesFollowFiles, AllSteps
  <2>6. ASSUME NEW row \in DOMAIN links
        PROVE  SaysOfStep(links[row], StepAt(row))'
    <3>1. PICK g \in FeatureFiles : row \in StepRows(g)
      BY DEF BddInv, FeaturesFollowFiles, AllSteps
    <3>2. features[g] # None /\ features'[g].scenarios = features[g].scenarios
      BY <2>1, <3>1 DEF StepRows
    <3>3. QED
      BY <1>1, <3>1, <3>2, LinkKept
  <2>7. FeaturesTyped'
    BY <1>2, <2>1 DEF BddInv, FeaturesTyped
  <2>8. FeaturesFollowFiles'
    BY <1>1, <1>2, <2>1, <2>2, <2>3, <2>4, <2>5, <2>6 DEF BddInv, FeaturesFollowFiles
  <2>9. QED
    BY <2>7, <2>8 DEF BddInv
<1>4. CASE ~Cached(f, text) /\ ~Refused(f, text)
  <2>1. ~now.refused
    BY <1>4
  <2>2. /\ features' = [g \in FeatureFiles |-> features'[g]]
        /\ \A g \in FeatureFiles \ {f} : features'[g] = features[g]
        /\ features'[f] \in FeatureRecords
        /\ features'[f].text = text
        /\ ~features'[f].error => features'[f].scenarios = Document[text].scenarios
        /\ StepRows(f) \subseteq StepRows(f)'
        /\ StepRows(f) # {} => features'[f].scenarios = features[f].scenarios
    <3>1. CASE Document[text].kind # "feature"
      <4>1. ParseError(f, text)
        BY <1>4, <3>1 DEF IngestFeature
      <4>2. StepRows(f) # {} => features[f] # None
        BY DEF StepRows
      <4>3. QED
        BY <4>1, <4>2, KeptByError DEF BddInv
    <3>2. CASE Document[text].kind = "feature"
      <4>1. features' = [features EXCEPT ![f] = Stored(f, text)]
        BY <1>4, <3>2 DEF IngestFeature
      <4>2. features[f] # None => features[f].generation \in Nat \ {0}
        BY DEF BddInv, FeaturesTyped, FeatureRecords
      <4>3. Stored(f, text) \in FeatureRecords
        BY <3>2, <4>2 DEF Stored, FeatureRecords
      <4>4. Stored(f, text).text = text /\ Stored(f, text).scenarios = Document[text].scenarios
        BY DEF Stored
      <4>5. StepRows(f) = {}
        BY <1>4, <3>2 DEF Refused
      <4>6. QED
        BY <4>1, <4>3, <4>4, <4>5 DEF BddInv, FeaturesTyped
    <3>3. QED
      BY <3>1, <3>2
  <2>3. \A g \in FeatureFiles \ {f} : StepRows(g)' = StepRows(g)
    BY <2>2, SameRows
  <2>4. ASSUME NEW row \in DOMAIN links
        PROVE  row \in AllSteps' /\ SaysOfStep(links[row], StepAt(row))'
    <3>1. PICK g \in FeatureFiles : row \in StepRows(g)
      BY DEF BddInv, FeaturesFollowFiles, AllSteps
    <3>2. row \in StepRows(g)'
      BY <2>2, <2>3, <3>1
    <3>3. features[g] # None /\ features'[g].scenarios = features[g].scenarios
      BY <2>2, <3>1 DEF StepRows
    <3>4. QED
      BY <1>1, <3>1, <3>2, <3>3, LinkKept DEF AllSteps
  <2>5. FeaturesTyped'
    BY <1>2, <2>2 DEF BddInv, FeaturesTyped
  <2>6. \A g \in FeatureFiles \ {f} :
           /\ features'[g] = features[g] /\ ingested'[g] = ingested[g] /\ StepRows(g)' = StepRows(g)
    BY <1>2, <2>2, <2>3
  <2>7. FeaturesFollowFiles'
    BY <1>1, <1>2, <2>1, <2>2, <2>4, <2>6 DEF BddInv, FeaturesFollowFiles
  <2>8. QED
    BY <2>5, <2>7 DEF BddInv
<1>5. QED
  BY <1>3, <1>4

\* What the worker knows of the files; it links the steps when its batch is done.
WorkerInv ==
    /\ eligible \subseteq Files /\ attempted \subseteq Files
    /\ cursor \in Files \cup {None} /\ batch \subseteq attempted
    /\ content \in [FeatureFiles -> Texts]
    /\ linked => batch = {}

\* The last file of a batch is one of its files.
LEMMA LastOfBatch ==
    ASSUME NEW B \in SUBSET Files, B # {}
    PROVE  Max(B) \in B /\ Min(B) \in B
<1>1. IsFiniteSet(Files)
  BY FilesAssumption
<1>2. PICK m \in B : \A n \in B : n <= m
  <2>1. B \subseteq Nat => \E m \in B : \A n \in B : n <= m
    BY <1>1, GreatestNatural
  <2>2. QED
    BY <2>1, FilesAssumption
<1>3. PICK l \in B : \A g \in B : l <= g
  BY FilesAssumption, LeastNatural
<1>4. QED
  BY <1>2, <1>3, FilesAssumption DEF Max, Min

LEMMA WorkerInvStep ==
    ASSUME WorkerInv, BddInv, Worker
    PROVE  WorkerInv' /\ BddInv'
<1>1. CASE FetchBatch
  <2>1. NextBatch \subseteq eligible
    BY DEF NextBatch
  <2>2. Max(NextBatch) \in Files
    BY <1>1, <2>1, LastOfBatch DEF WorkerInv, FetchBatch
  <2>3. WorkerInv'
    BY <1>1, <2>1, <2>2 DEF WorkerInv, FetchBatch
  <2>4. QED
    BY <1>1, <2>3, BddInvStutter DEF FetchBatch
<1>2. CASE ProcessFile
  <2>1. WorkerInv'
    BY <1>2 DEF WorkerInv, ProcessFile
  <2>2. Min(batch) \in Files
    BY <1>2, LastOfBatch DEF WorkerInv, ProcessFile
  <2> DEFINE f == FeatureAt[Min(batch)]
  <2>3. f \in FeatureFiles \cup {None}
    BY <2>2, FilesAssumption
  <2>4. CASE f = None
    BY <1>2, <2>1, <2>4, BddInvStutter DEF ProcessFile
  <2>5. CASE f # None
    <3>1. IngestFeature(f, content[f]) /\ f \in FeatureFiles /\ content[f] \in Texts
      BY <1>2, <2>3, <2>5 DEF ProcessFile, WorkerInv
    <3> HIDE DEF f
    <3>2. QED
      BY <2>1, <3>1, BddInvIngest
  <2>6. QED
    BY <2>4, <2>5
<1>3. CASE LinkAll
  <2>1. WorkerInv'
    BY <1>3 DEF WorkerInv, LinkAll
  <2>2. links' = [row \in AllSteps |-> Relinked(row)] /\ UNCHANGED <<features, ingested>>
    BY <1>3 DEF LinkAll, LinkSteps
  <2>3. AllSteps' = AllSteps /\ \A g \in FeatureFiles : StepRows(g)' = StepRows(g)
    BY <2>2 DEF AllSteps, StepRows
  <2>4. DOMAIN links' = AllSteps'
    BY <2>2, <2>3
  <2>5. \A row \in DOMAIN links' : SaysOfStep(links[row], StepAt(row))'
    <3>1. nodes' = nodes
      BY <1>3 DEF LinkAll, graphVars
    <3>2. \A step : LinkOf(step)' = LinkOf(step)
      BY <3>1 DEF LinkOf, Candidates
    <3>3. \A row : StepAt(row)' = StepAt(row)
      BY <2>2 DEF StepAt
    <3>4. \A row \in DOMAIN links' : links'[row] = <<LinkOf(StepAt(row))>>
      BY <2>2 DEF Relinked
    <3>5. QED
      BY <3>2, <3>3, <3>4 DEF SaysOfStep
  <2>6. FeaturesTyped' /\ FeaturesFollowFiles'
    BY <2>2, <2>3, <2>4, <2>5 DEF BddInv, FeaturesTyped, FeaturesFollowFiles
  <2>7. QED
    BY <2>1, <2>6 DEF BddInv
<1>4. QED
  BY <1>1, <1>2, <1>3 DEF Worker

THEOREM WorkerInvariant == ExtractionSpec => [](WorkerInv /\ BddInv)
<1>1. ExtractionInit => WorkerInv /\ BddInv
  <2> SUFFICES ASSUME ExtractionInit PROVE WorkerInv /\ BddInv
    OBVIOUS
  <2>1. WorkerInv
    BY InitialTextsAssumption DEF ExtractionInit, WorkerInv
  <2>2. /\ features = [f \in FeatureFiles |-> None] /\ ingested = [f \in FeatureFiles |-> None]
        /\ links = <<>>
    BY DEF ExtractionInit, BddInit
  <2>3. QED
    BY <2>1, <2>2 DEF BddInv, FeaturesTyped, FeaturesFollowFiles
<1>2. ASSUME WorkerInv /\ BddInv, [ExtractionNext]_allVars
      PROVE  (WorkerInv /\ BddInv)'
  <2>1. ASSUME UNCHANGED bddVars PROVE BddInv'
    BY <1>2, <2>1, BddInvStutter
  <2>2. ASSUME UNCHANGED workerVars PROVE WorkerInv'
    BY <1>2, <2>2 DEF workerVars, WorkerInv
  <2>3. CASE Worker
    BY <1>2, <2>3, WorkerInvStep
  <2>4. CASE Override
    <3>1. WorkerInv'
      BY <1>2, <2>4 DEF WorkerInv, Override
    <3>2. QED
      BY <2>1, <2>4, <3>1 DEF Override
  <2>5. CASE Restart
    BY <1>2, <2>1, <2>5 DEF WorkerInv, Restart
  <2>6. CASE Ask \/ Search
    BY <2>1, <2>2, <2>6 DEF Ask, Search
  <2>7. CASE \E s \in Sessions : Start(s) \/ Finish(s)
    BY <2>1, <2>2, <2>7 DEF Start, Finish
  <2>8. CASE UNCHANGED allVars
    BY <2>1, <2>2, <2>8 DEF allVars
  <2>9. QED
    BY <1>2, <2>3, <2>4, <2>5, <2>6, <2>7, <2>8 DEF ExtractionNext
<1>3. QED
  BY <1>1, <1>2, PTL DEF ExtractionSpec

\* Rows have keys the program makes, and the worker gets only eligible files and
\* does only what it has got.
THEOREM ExtractionTypeCorrect == ExtractionSpec => []ExtractionTypeOK
<1>1. ASSUME GraphInv, WorkerInv, BddInv PROVE ExtractionTypeOK
  <2>1. /\ DOMAIN nodes \subseteq UNION {NodeKeys(p) : p \in Payloads}
        /\ DOMAIN edges \subseteq UNION {EdgeKeys(p) : p \in Payloads}
        /\ Range(nodes) \cup Range(edges) \subseteq DOMAIN providerRuns
    BY <1>1 DEF GraphInv, RunsAreResults, RowsHaveRuns, Range
  <2>2. \A f \in FeatureFiles : features[f] # None => features[f].text \in Texts
    BY <1>1 DEF BddInv, FeaturesTyped, FeatureRecords
  <2>3. QED
    BY <1>1, <2>1, <2>2 DEF WorkerInv, ExtractionTypeOK
<1>2. QED
  BY <1>1, ExtractionInvariant, WorkerInvariant, PTL

\* The tables of the features follow the files through changes, errors, repairs
\* and refusals, for any files and texts.
THEOREM FeaturesFollow == ExtractionSpec => []FeaturesFollowFiles
BY WorkerInvariant, PTL DEF BddInv

-----------------------------------------------------------------------------
\* Every committed run is complete, whatever other sessions stored meanwhile: its
\* nodes and edges have rows, success means that no edge was left out, no edge
\* lacks an end, observations cite rows, and a result with a hash is answered
\* with a run of its own.
THEOREM RunsComplete == ExtractionSpec => []RunsAreComplete
<1>1. ASSUME GraphInv PROVE RunsAreComplete
  <2>1. ASSUME NEW r \in DOMAIN providerRuns
        PROVE  LET p    == providerRuns[r].payload
                   kept == {i \in DOMAIN p.edges : EdgeKey(p.edges[i]) \in DOMAIN edges}
               IN  /\ NodeKeys(p) \subseteq DOMAIN nodes
                   /\ \A i \in DOMAIN p.edges \ kept :
                         {p.edges[i].from, p.edges[i].to} \ NodeKeys(p) # {}
                   /\ providerRuns[r].status = "succeeded" => kept = DOMAIN p.edges
    <3> DEFINE p    == providerRuns[r].payload
               kept == {i \in DOMAIN p.edges : EdgeKey(p.edges[i]) \in DOMAIN edges}
               left == DOMAIN p.edges \ Resolved(p)
    <3>1. NodeKeys(p) \subseteq DOMAIN nodes /\ EdgeKeys(p) \subseteq DOMAIN edges
      BY <1>1 DEF GraphInv, RunsHaveRows
    <3>2. p \in Payloads /\ providerRuns[r].status = RunStatus(p)
      BY <1>1 DEF GraphInv, RunsAreResults
    <3> HIDE DEF p
    <3>3. \A i \in Resolved(p) : i \in kept
      BY <3>1 DEF EdgeKeys, Resolved
    <3>4. IsFiniteSet(DOMAIN p.edges)
      <4>1. p.edges \in Seq(Range(p.edges))
        BY <3>2, PayloadsAssumption DEF IsPayload
      <4>2. Len(p.edges) \in Int /\ DOMAIN p.edges = 1..Len(p.edges)
        BY <4>1
      <4>3. IsFiniteSet(1..Len(p.edges))
        <5>1. \A k \in Int : IsFiniteSet(1..k)
          BY FS_Interval
        <5>2. QED
          BY <4>2, <5>1
      <4>4. QED
        BY <4>2, <4>3, Zenon
    <3>5. RunStatus(p) = "succeeded" => left = {}
      <4> DEFINE hits == {i \in Resolved(p) : p.edges[i].resolution = "ambiguous"}
      <4>1. IsFiniteSet(hits) /\ IsFiniteSet(left)
        BY <3>4, FS_Subset DEF Resolved
      <4>2. Cardinality(hits) \in Nat /\ Cardinality(left) \in Nat
        BY <4>1, FS_CardinalityType
      <4>3. Ambiguous(p) = Cardinality(hits) + Cardinality(left)
        BY DEF Ambiguous, CountOf
      <4>4. ASSUME RunStatus(p) = "succeeded" PROVE Cardinality(left) = 0
        <5>1. ~(Ambiguous(p) > 0)
          BY <4>4 DEF RunStatus
        <5>2. QED
          BY <5>1, <4>2, <4>3
      <4>5. QED
        BY <4>1, <4>4, FS_EmptySet
    <3>6. QED
      BY <3>1, <3>2, <3>3, <3>5 DEF Resolved, p
  <2>2. ASSUME NEW k \in DOMAIN edges PROVE {k[2], k[3]} \subseteq DOMAIN nodes
    <3>1. /\ edges[k] \in DOMAIN providerRuns
          /\ k \in EdgeKeys(providerRuns[edges[k]].payload)
      BY <1>1 DEF GraphInv, RowsHaveRuns
    <3>2. NodeKeys(providerRuns[edges[k]].payload) \subseteq DOMAIN nodes
      BY <1>1, <3>1 DEF GraphInv, RunsHaveRows
    <3>3. QED
      BY <3>1, <3>2 DEF EdgeKeys, EdgeKey, Resolved
  <2>3. QED
    BY <1>1, <2>1, <2>2
       DEF GraphInv, ObservationsCiteRows, AnswersAreRuns, RunsAreComplete
<1>2. QED
  BY <1>1, ExtractionInvariant, PTL

\* A claim's evidence is the one of the draft it was made of, once, whatever
\* batches and sessions its key recurs in.
THEOREM ClaimsHaveOwnEvidence == ExtractionSpec => []EvidenceOnce
BY ExtractionInvariant, PTL DEF ClaimsInv

-----------------------------------------------------------------------------
(***************************************************************************)
(* A batch against its drafts, one by one                                  *)
(***************************************************************************)

\* The first of the positions s with this key.
Earliest(b, s, k) == CHOOSE i \in s : b[i].key = k /\ \A j \in s : b[j].key = k => i <= j

\* What the table is once the drafts at the positions s have been persisted.
Filled(b, table, s) ==
    [k \in DOMAIN table \cup {b[i].key : i \in s} |->
        IF k \in DOMAIN table THEN table[k] ELSE b[Earliest(b, s, k)]]

\* Such a position is the one.
LEMMA EarliestIs ==
    ASSUME NEW b, NEW s \in SUBSET Nat, NEW i \in s, \A j \in s : b[j].key = b[i].key => i <= j
    PROVE  Earliest(b, s, b[i].key) = i
<1> DEFINE first(l) == b[l].key = b[i].key /\ \A j \in s : b[j].key = b[i].key => l <= j
<1>1. first(i) /\ \A l \in s : first(l) => l = i
  OBVIOUS
<1>2. (CHOOSE l \in s : first(l)) = i
  <2> HIDE DEF first
  <2>1. QED
    BY <1>1
<1>3. QED
  BY <1>2 DEF Earliest

\* Persisting the draft at the last position is what the table lacks.
LEMMA FilledNext ==
    ASSUME NEW b, NEW table, NEW s \in SUBSET Nat, NEW x \in s, \A j \in s : j <= x
    PROVE  Filled(b, table, s) = PersistedOne(Filled(b, table, s \ {x}), b[x])
<1> DEFINE t == s \ {x}
           old == Filled(b, table, t)
           new == PersistedOne(old, b[x])
<1>1. DOMAIN old = DOMAIN table \cup {b[i].key : i \in t}
  BY DEF Filled
<1>2. DOMAIN Filled(b, table, s) = DOMAIN old \cup {b[x].key}
  BY <1>1 DEF Filled
<1>3. ASSUME NEW k \in DOMAIN old \cup {b[x].key}
      PROVE  Filled(b, table, s)[k] = IF k \in DOMAIN old THEN old[k] ELSE b[x]
  <2>1. CASE k \in DOMAIN table
    BY <1>1, <1>2, <2>1 DEF Filled
  <2>2. CASE k \notin DOMAIN table /\ k \in DOMAIN old
    <3>1. {j \in t : b[j].key = k} # {}
      BY <1>1, <2>2
    <3>2. PICK i \in {j \in t : b[j].key = k} : \A j \in {l \in t : b[l].key = k} : i <= j
      BY <3>1, LeastNatural
    <3>3. Earliest(b, t, k) = i
      BY <3>2, EarliestIs
    <3>4. Earliest(b, s, k) = i
      BY <3>2, EarliestIs
    <3>5. QED
      BY <1>1, <1>2, <2>2, <3>3, <3>4 DEF Filled
  <2>3. CASE k \notin DOMAIN table /\ k \notin DOMAIN old
    <3>1. k = b[x].key /\ \A j \in s : b[j].key = k => j = x
      BY <1>1, <2>3
    <3>2. Earliest(b, s, k) = x
      BY <3>1, EarliestIs
    <3>3. QED
      BY <1>2, <2>3, <3>2 DEF Filled
  <2>4. QED
    BY <2>1, <2>2, <2>3
<1>4. new = [k \in DOMAIN old \cup {b[x].key} |-> IF k \in DOMAIN old THEN old[k] ELSE b[x]]
  BY DEF PersistedOne
<1>5. Filled(b, table, s) = [k \in DOMAIN old \cup {b[x].key} |-> Filled(b, table, s)[k]]
  BY <1>2 DEF Filled
<1>6. QED
  <2> HIDE DEF old, new
  <2>1. [k \in DOMAIN old \cup {b[x].key} |-> Filled(b, table, s)[k]]
          = [k \in DOMAIN old \cup {b[x].key} |-> IF k \in DOMAIN old THEN old[k] ELSE b[x]]
    BY <1>3
  <2>2. QED
    BY <1>4, <1>5, <2>1 DEF new, old

\* The fold persists the drafts one after the other, from the first to the last.
LEMMA FoldedTable ==
    ASSUME NEW n \in Nat, NEW b, DOMAIN b = 1..n,
           NEW table, table = [k \in DOMAIN table |-> table[k]]
    PROVE  FoldLeft(PersistedOne, table, b) = Filled(b, table, 1..n)
<1> DEFINE D == 1..n
           one(h, s) == IF s = {} THEN table ELSE PersistedOne(h[s \ {Max(s)}], b[Max(s)])
           iter == CHOOSE h : h = [s \in SUBSET D |-> one(h, s)]
           g == [s \in SUBSET D |-> Filled(b, table, s)]
<1>1. FoldLeft(PersistedOne, table, b) = iter[D]
  BY DEF FoldLeft, MapThenFoldSet
<1>2. IsFiniteSet(D) /\ D \in SUBSET Nat
  BY FS_Interval
<1>3. ASSUME NEW s \in SUBSET D, s # {} PROVE Max(s) \in s /\ \A j \in s : j <= Max(s)
  <2>1. PICK m \in s : \A j \in s : j <= m
    BY <1>2, <1>3, GreatestNatural
  <2>2. QED
    BY <1>2, <2>1 DEF Max
<1>4. ASSUME NEW s \in SUBSET D PROVE g[s] = one(g, s)
  <2>1. CASE s = {}
    <3>1. Filled(b, table, {}) = [k \in DOMAIN table |-> table[k]]
      BY DEF Filled
    <3>2. QED
      BY <2>1, <3>1
  <2>2. CASE s # {}
    <3>1. Filled(b, table, s) = PersistedOne(Filled(b, table, s \ {Max(s)}), b[Max(s)])
      BY <1>2, <1>3, <2>2, FilledNext
    <3>2. s \ {Max(s)} \in SUBSET D
      OBVIOUS
    <3>3. QED
      BY <2>2, <3>1, <3>2
  <2>3. QED
    BY <2>1, <2>2
<1>5. g = [s \in SUBSET D |-> one(g, s)]
  <2> HIDE DEF one
  <2>1. g = [s \in SUBSET D |-> g[s]]
    OBVIOUS
  <2> HIDE DEF g
  <2>2. QED
    BY <1>4, <2>1
<1>6. iter = [s \in SUBSET D |-> one(iter, s)]
  <2> HIDE DEF g, one
  <2>1. QED
    BY <1>5
<1> DEFINE rank == [s \in SUBSET D |-> Cardinality(s)]
           G == {s \in SUBSET D : iter[s] = g[s]}
<1>7. rank \in [SUBSET D -> Nat]
  BY <1>2, FS_Subset, FS_CardinalityType
<1>8. ASSUME NEW s \in SUBSET D, \A t \in SUBSET D : rank[t] < rank[s] => t \in G
      PROVE  s \in G
  <2>1. CASE s = {}
    <3>1. iter[s] = table /\ g[s] = table
      BY <1>4, <1>6, <2>1
    <3>2. QED
      BY <3>1
  <2>2. CASE s # {}
    <3> DEFINE t == s \ {Max(s)}
    <3>1. t \in SUBSET D /\ rank[t] < rank[s]
      <4>1. Max(s) \in s
        BY <1>3, <2>2
      <4>2. IsFiniteSet(s)
        BY <1>2, FS_Subset
      <4>3. Cardinality(t) = Cardinality(s) - 1 /\ Cardinality(s) \in Nat
        BY <4>1, <4>2, FS_RemoveElement, FS_CardinalityType
      <4>4. QED
        BY <4>3
    <3>2. iter[t] = g[t]
      BY <1>8, <3>1
    <3>3. iter[s] = PersistedOne(iter[t], b[Max(s)]) /\ g[s] = PersistedOne(g[t], b[Max(s)])
      <4>1. iter[s] = one(iter, s)
        <5> HIDE DEF one, iter
        <5>1. QED
          BY <1>6
      <4>2. QED
        BY <1>4, <2>2, <4>1
    <3>4. iter[s] = g[s]
      <4> HIDE DEF iter, g, t
      <4>1. QED
        BY <3>2, <3>3
    <3>5. QED
      BY <3>4
  <2>3. QED
    BY <2>1, <2>2
<1>9. D \in G
  <2> HIDE DEF rank, G, D
  <2>1. SUBSET D \subseteq G
    BY <1>7, <1>8, RankInduction
  <2>2. QED
    BY <2>1
<1>10. QED
  BY <1>1, <1>9

\* A committed batch leaves the claims that persisting its drafts one after the
\* other would leave, whatever was found when the batch was looked up.
THEOREM BatchesAreSingles == ExtractionSpec => BatchLikeSingles
<1> DEFINE Like(s) == ~Idle(s) /\ work[s].op = "claims" /\ claims' # claims /\ work'[s] # work[s] =>
                          claims' = FoldLeft(PersistedOne, claims, work[s].batch)
<1>1. ASSUME ClaimsInv, GraphInv, NEW s \in Sessions, CommitClaims(s)
      PROVE  claims' = FoldLeft(PersistedOne, claims, work[s].batch)
  <2> DEFINE b       == work[s].batch
             known   == work[s].known
             created == Created(b, known)
  <2>1. /\ work[s] # None /\ work[s].op = "claims"
        /\ claims' = Added(claims, Rows(b, created))
        /\ {b[i].key : i \in created} \cap DOMAIN claims = {}
    BY <1>1 DEF CommitClaims, Idle, ClaimsAreFree
  <2>2. PICK n \in Nat : DOMAIN b = 1..n
    BY <1>1, <2>1 DEF ClaimsInv, BatchesLookedUp
  <2>3. known \subseteq DOMAIN claims
    BY <1>1, <2>1 DEF ClaimsInv, BatchesLookedUp
  <2>4. FoldLeft(PersistedOne, claims, b) = Filled(b, claims, 1..n)
    BY <1>1, <2>2, FoldedTable DEF ClaimsInv
  <2> HIDE DEF b, known
  <2>5. ASSUME NEW i \in 1..n, b[i].key \notin DOMAIN claims
        PROVE  LET e == Earliest(b, 1..n, b[i].key)
               IN  e \in created /\ b[e].key = b[i].key /\ Rows(b, created)[b[i].key] = b[e]
    <3> DEFINE k == b[i].key
    <3>1. PICK e \in {j \in 1..n : b[j].key = k} : \A j \in {l \in 1..n : b[l].key = k} : e <= j
      <4>1. {j \in 1..n : b[j].key = k} # {}
        OBVIOUS
      <4>2. {j \in 1..n : b[j].key = k} \in SUBSET Nat
        OBVIOUS
      <4> HIDE DEF k
      <4>3. QED
        BY <4>1, <4>2, LeastNatural
    <3>2. Earliest(b, 1..n, k) = e
      <4>1. b[e].key = k /\ \A j \in 1..n : b[j].key = b[e].key => e <= j
        BY <3>1
      <4>2. e \in 1..n /\ 1..n \in SUBSET Nat
        BY <3>1
      <4>3. Earliest(b, 1..n, b[e].key) = e
        <5> HIDE DEF k
        <5>1. QED
          BY <4>1, <4>2, EarliestIs
      <4>4. QED
        BY <4>1, <4>3
    <3>3. e \in created
      BY <2>2, <2>3, <2>5, <3>1 DEF Created
    <3>4. \A j \in created : b[j].key = k => j = e
      BY <2>2, <3>1 DEF Created
    <3>5. (CHOOSE j \in created : b[j].key = k /\ \A l \in created : b[l].key = k => j <= l) = e
      <4> DEFINE first(j) == b[j].key = k /\ \A l \in created : b[l].key = k => j <= l
      <4>1. first(e) /\ \A j \in created : first(j) => j = e
        BY <3>1, <3>3, <3>4
      <4> HIDE DEF first
      <4>2. (CHOOSE j \in created : first(j)) = e
        BY <3>3, <4>1
      <4>3. QED
        BY <4>2 DEF first
    <3>6. Rows(b, created)[k] = b[e]
      BY <3>1, <3>3, <3>5 DEF Rows
    <3>7. QED
      BY <3>1, <3>2, <3>3, <3>6
  <2>6. created \subseteq 1..n /\ DOMAIN Rows(b, created) = {b[i].key : i \in created}
    BY <2>2 DEF Created, Rows
  <2>7. DOMAIN claims \cup DOMAIN Rows(b, created) = DOMAIN claims \cup {b[i].key : i \in 1..n}
    BY <2>5, <2>6
  <2>8. ASSUME NEW k \in DOMAIN claims \cup {b[i].key : i \in 1..n}
        PROVE  (IF k \in DOMAIN Rows(b, created) THEN Rows(b, created)[k] ELSE claims[k])
                 = (IF k \in DOMAIN claims THEN claims[k] ELSE b[Earliest(b, 1..n, k)])
    <3>1. CASE k \in DOMAIN claims
      BY <2>1, <2>6, <3>1
    <3>2. CASE k \notin DOMAIN claims
      <4>1. PICK i \in 1..n : k = b[i].key
        BY <3>2
      <4>2. k \in DOMAIN Rows(b, created) /\ Rows(b, created)[k] = b[Earliest(b, 1..n, k)]
        BY <2>5, <2>6, <3>2, <4>1
      <4>3. QED
        BY <3>2, <4>2
    <3>3. QED
      BY <3>1, <3>2
  <2>9. Added(claims, Rows(b, created)) = Filled(b, claims, 1..n)
    <3> DEFINE new(k) == IF k \in DOMAIN Rows(b, created) THEN Rows(b, created)[k] ELSE claims[k]
               one(k) == IF k \in DOMAIN claims THEN claims[k] ELSE b[Earliest(b, 1..n, k)]
               all    == DOMAIN claims \cup {b[i].key : i \in 1..n}
    <3>1. Added(claims, Rows(b, created)) = [k \in all |-> new(k)]
      BY <2>7 DEF Added
    <3>2. Filled(b, claims, 1..n) = [k \in all |-> one(k)]
      BY DEF Filled
    <3>3. \A k \in all : new(k) = one(k)
      BY <2>8
    <3> HIDE DEF new, one, all
    <3>4. QED
      BY <3>1, <3>2, <3>3
  <2>10. QED
    BY <2>1, <2>4, <2>9 DEF b, known
<1>2. ASSUME ClaimsInv, GraphInv, [ExtractionNext]_allVars, NEW s \in Sessions
      PROVE  Like(s)
  <2> SUFFICES ASSUME claims' # claims, work'[s] # work[s]
               PROVE  claims' = FoldLeft(PersistedOne, claims, work[s].batch)
    OBVIOUS
  <2>1. PICK t \in Sessions : Start(t) \/ Finish(t)
    BY <1>2 DEF ExtractionNext, Worker, FetchBatch, ProcessFile, LinkAll, Override, Restart, Ask,
                Search, allVars, claimVars
  <2>2. CommitClaims(t)
    BY <2>1 DEF Start, Finish, AnswerKnown, BeginUpsert, PersistBatch, PersistStructural,
                MigrateRules, BeginClaims, RefuseClaims, claimVars
  <2>3. t = s
    BY <2>2 DEF CommitClaims
  <2>4. QED
    BY <1>1, <1>2, <2>2, <2>3
<1>3. ASSUME ClaimsInv, GraphInv, [ExtractionNext]_allVars
      PROVE  [\A s \in Sessions : Like(s)]_<<claims, work>>
  BY <1>2, <1>3
<1>4. QED
  BY <1>3, ExtractionInvariant, PTL DEF ExtractionSpec, BatchLikeSingles

-----------------------------------------------------------------------------
(***************************************************************************)
(* Searches while the graph grows                                          *)
(***************************************************************************)

\* A result that is committed takes no edge away.
LEMMA EdgesStay ==
    ASSUME NEW s \in Sessions, Finish(s)
    PROVE  DOMAIN edges \subseteq DOMAIN edges' /\ search' = search
<1>1. CASE CommitUpsert(s)
  <2>1. edges' = Inserted(edges, work[s].newEdges, NextRun)
    BY <1>1 DEF CommitUpsert
  <2>2. DOMAIN edges \subseteq DOMAIN edges'
    BY <2>1 DEF Inserted
  <2>3. search' = search
    BY <1>1 DEF Finish, searchVars, CommitUpsert, RefuseUpsert, CommitClaims, RefuseClaims
  <2>4. QED
    BY <2>2, <2>3
<1>2. CASE ~CommitUpsert(s)
  BY <1>2 DEF Finish, searchVars, graphVars, RefuseUpsert, CommitClaims, RefuseClaims
<1>3. QED
  BY <1>1, <1>2

\* A search stays sound while sessions store results between its queries.
THEOREM SearchInvariant == ExtractionSpec => []SearchInv
<1>1. ExtractionInit => SearchInv
  BY DEF ExtractionInit, SearchInit, SearchInv
<1>2. ASSUME SearchInv, GraphInv, [ExtractionNext]_allVars
      PROVE  SearchInv'
  <2>1. ASSUME search' = search, UNCHANGED edges PROVE SearchInv'
    BY <1>2, <2>1, SearchInvGrows
  <2>2. CASE Worker \/ Override \/ Restart
    BY <2>1, <2>2 DEF Worker, FetchBatch, ProcessFile, LinkAll, Override, Restart, graphVars, searchVars
  <2>3. CASE Ask
    <3>1. PICK q \in Searches : StartSearch(q)
      BY <2>3 DEF Ask
    <3>2. UNCHANGED edges
      BY <2>3 DEF Ask, graphVars
    <3>3. QED
      BY <3>1, <3>2, SearchInvStart
  <2>4. CASE Search
    <3>1. SearchStep /\ UNCHANGED edges
      BY <2>4 DEF Search, graphVars
    <3>2. IsFiniteSet(DOMAIN edges)
      BY <1>2 DEF GraphInv
    <3>3. QED
      BY <1>2, <3>1, <3>2, SearchInvStep
  <2>5. ASSUME NEW s \in Sessions, Start(s) PROVE SearchInv'
    BY <2>1, <2>5 DEF Start, AnswerKnown, BeginUpsert, PersistBatch, PersistStructural, MigrateRules,
                      BeginClaims, graphVars, searchVars
  <2>6. ASSUME NEW s \in Sessions, Finish(s) PROVE SearchInv'
    BY <1>2, <2>6, EdgesStay, SearchInvGrows
  <2>7. CASE UNCHANGED allVars
    BY <2>1, <2>7 DEF allVars, graphVars, searchVars
  <2>8. QED
    BY <1>2, <2>2, <2>3, <2>4, <2>5, <2>6, <2>7 DEF ExtractionNext
<1>3. QED
  BY <1>1, <1>2, ExtractionInvariant, PTL DEF ExtractionSpec

\* neighbors and related_tests answer one piece of the graph, within the depth
\* and the cap, and without a cap all that was within reach when they were asked,
\* however the graph grows between their queries.
THEOREM NeighborhoodsAreWhole == ExtractionSpec => []NeighborhoodIsWhole
BY SearchInvariant, NeighborsAreSound, PTL

\* find_path answers a path of existing edges, without a cap a shortest one, and
\* "not found" only if there was none, however the graph grows meanwhile.
THEOREM PathsAreHonest == ExtractionSpec => []PathAnswersAreHonest
BY SearchInvariant, PathsAreSound, PTL
=============================================================================
