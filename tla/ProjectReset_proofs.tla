------------------------- MODULE ProjectReset_proofs -------------------------
(***************************************************************************)
(* Proofs about emptying a project.  The runs start from one table and     *)
(* what it needs; here a purge starts from any content of the project the  *)
(* foreign keys allow, and Spec is one of the ways it can start.           *)
(***************************************************************************)
EXTENDS ProjectReset, FiniteInduction

\* Any rows, and any references between them that are set.
Content ==
    /\ purge \in Purges
    /\ \A t \in rows : t \in Tables /\ Needs(t) \subseteq rows
    /\ refs \subseteq rows \X rows
    /\ \A r \in refs : r[2] \in May(r[1])
    /\ todo = Statements(purge)
    /\ outcome = "running"

AnyContent == Content /\ [][Next]_vars

-----------------------------------------------------------------------------
(***************************************************************************)
(* The order of the tables                                                 *)
(***************************************************************************)

\* Where purge_analysis_outputs deletes each of its tables.
Place ==
    [rule_source_claims |-> 1, rule_evidence |-> 2, rule_coverage_assessments |-> 3,
     rule_trace_links |-> 4, rule_decisions |-> 5, rule_reviews |-> 6, rule_conflicts |-> 7,
     implementation_gaps |-> 8, runtime_log_evidence |-> 9, test_coverage_links |-> 10,
     coverage_lines |-> 11, coverage_branches |-> 12, coverage_files |-> 13,
     coverage_reports |-> 14, runtime_evidence_imports |-> 15, export_documents |-> 16,
     search_index_records |-> 17, rule_versions |-> 18, rule_relationships |-> 19,
     rule_relationship_suggestions |-> 20, ai_suggestions |-> 21, ai_task_runs |-> 22,
     rules |-> 23, analysis_versions |-> 24]

\* Deleted before the tables its rows refer to.
Ordered(t, k) == \A p \in (k.needs \cup k.may) \cap DOMAIN Place : Place[t] < Place[p]

LEMMA RuleTablesOrdered == \A t \in DOMAIN RuleTables \cap DOMAIN Place : Ordered(t, RuleTables[t])
BY DEF RuleTables, Refers, Ordered, Place

LEMMA ReviewTablesOrdered == \A t \in DOMAIN ReviewTables \cap DOMAIN Place : Ordered(t, ReviewTables[t])
BY DEF ReviewTables, Refers, Ordered, Place

LEMMA ScanTablesOrdered == \A t \in DOMAIN ScanTables \cap DOMAIN Place : Ordered(t, ScanTables[t])
BY DEF ScanTables, Refers, Ordered, Place

LEMMA SourceTablesOrdered == \A t \in DOMAIN SourceTables \cap DOMAIN Place : Ordered(t, SourceTables[t])
BY DEF SourceTables, Refers, Ordered, Place

LEMMA RunTablesOrdered == \A t \in DOMAIN RunTables \cap DOMAIN Place : Ordered(t, RunTables[t])
BY DEF RunTables, Refers, Ordered, Place

LEMMA AiTablesOrdered == \A t \in DOMAIN AiTables \cap DOMAIN Place : Ordered(t, AiTables[t])
BY DEF AiTables, Refers, Ordered, Place

LEMMA OtherTables ==
    \A keys \in {EventTables, TraceTables, AstTables, GraphTables, ClaimTables, ClusterTables, TestTables} :
        DOMAIN keys \cap DOMAIN Place = {}
BY DEF EventTables, TraceTables, AstTables, GraphTables, ClaimTables, ClusterTables, TestTables, Place

\* Among the tables purge_analysis_outputs deletes, parents come later.
LEMMA ParentsLater ==
    ASSUME NEW t \in DOMAIN Place, NEW p \in DOMAIN Place, p \in Needs(t) \cup May(t)
    PROVE  Place[t] < Place[p]
<1>1. PICK keys \in ForeignKeys : t \in DOMAIN keys /\ p \in keys[t].needs \cup keys[t].may
  BY DEF Needs, May, KeysOf
<1>2. Ordered(t, keys[t])
  BY <1>1, RuleTablesOrdered, ReviewTablesOrdered, ScanTablesOrdered, SourceTablesOrdered,
     RunTablesOrdered, AiTablesOrdered, OtherTables DEF ForeignKeys
<1>3. QED
  BY <1>1, <1>2 DEF Ordered

LEMMA EvidencePlaces ==
    /\ Len(EvidencePurge) = 15 /\ EvidencePurge \in Seq([table : DOMAIN Place, clears : {Row}])
    /\ \A i \in 1..15 : Place[EvidencePurge[i].table] = i
<1>1. DOMAIN EvidencePurge = 1..15 /\ Len(EvidencePurge) = 15
  BY DEF EvidencePurge, Deletes, Delete
<1>2. \A i \in 1..15 : EvidencePurge[i] \in [table : DOMAIN Place, clears : {Row}]
  BY DEF EvidencePurge, Deletes, Delete, Place
<1>3. \A i \in 1..15 : Place[EvidencePurge[i].table] = i
  BY DEF EvidencePurge, Deletes, Delete, Place
<1>4. EvidencePurge \in Seq([table : DOMAIN Place, clears : {Row}])
  <2>1. EvidencePurge = [i \in 1..15 |-> EvidencePurge[i]]
    BY <1>1 DEF EvidencePurge, Deletes
  <2>2. QED
    BY <1>2, <2>1
<1>5. QED
  BY <1>1, <1>3, <1>4

LEMMA OutputPlaces ==
    LET outputs == Deletes(<<"export_documents", "search_index_records">>)
    IN  /\ Len(outputs) = 2 /\ outputs \in Seq([table : DOMAIN Place, clears : {Row}])
        /\ \A i \in 1..2 : Place[outputs[i].table] = 15 + i
<1> DEFINE outputs == Deletes(<<"export_documents", "search_index_records">>)
<1>1. DOMAIN outputs = 1..2 /\ Len(outputs) = 2
  BY DEF Deletes, Delete
<1>2. \A i \in 1..2 : outputs[i] \in [table : DOMAIN Place, clears : {Row}]
  BY DEF Deletes, Delete, Place
<1>3. \A i \in 1..2 : Place[outputs[i].table] = 15 + i
  BY DEF Deletes, Delete, Place
<1>4. outputs = [i \in 1..2 |-> outputs[i]]
  BY <1>1 DEF Deletes
<1> HIDE DEF outputs
<1>5. outputs \in Seq([table : DOMAIN Place, clears : {Row}])
  BY <1>2, <1>4
<1>6. QED
  BY <1>1, <1>3, <1>5 DEF outputs

LEMMA RulePlaces ==
    /\ Len(RulesPurge) = 7 /\ RulesPurge \in Seq([table : DOMAIN Place, clears : {Row}])
    /\ \A i \in 1..7 : Place[RulesPurge[i].table] = 17 + i
<1>1. DOMAIN RulesPurge = 1..7 /\ Len(RulesPurge) = 7
  BY DEF RulesPurge, Deletes, Delete
<1>2. \A i \in 1..7 : RulesPurge[i] \in [table : DOMAIN Place, clears : {Row}]
  BY DEF RulesPurge, Deletes, Delete, Place
<1>3. \A i \in 1..7 : Place[RulesPurge[i].table] = 17 + i
  BY DEF RulesPurge, Deletes, Delete, Place
<1>4. RulesPurge = [i \in 1..7 |-> RulesPurge[i]]
  BY <1>1 DEF RulesPurge, Deletes
<1>5. RulesPurge \in Seq([table : DOMAIN Place, clears : {Row}])
  BY <1>2, <1>4
<1>6. QED
  BY <1>1, <1>3, <1>5

\* One list behind another.
LEMMA Joined ==
    ASSUME NEW S, NEW u \in Seq(S), NEW v \in Seq(S)
    PROVE  /\ u \o v \in Seq(S) /\ Len(u) \in Nat /\ Len(v) \in Nat
           /\ Len(u \o v) = Len(u) + Len(v)
           /\ \A i \in 1..Len(u) : (u \o v)[i] = u[i]
           /\ \A i \in 1..Len(v) : (u \o v)[Len(u) + i] = v[i]
OBVIOUS

\* The statements delete the tables in their places.
LEMMA StatementPlaces ==
    /\ Len(AnalysisPurge) = 24 /\ AnalysisPurge \in Seq([table : DOMAIN Place, clears : {Row}])
    /\ \A i \in 1..24 : Place[AnalysisPurge[i].table] = i
<1> DEFINE S == [table : DOMAIN Place, clears : {Row}]
           e == EvidencePurge
           x == Deletes(<<"export_documents", "search_index_records">>)
           r == RulesPurge
           u == e \o x
           v == u \o r
<1>1. /\ e \in Seq(S) /\ Len(e) = 15 /\ \A i \in 1..15 : Place[e[i].table] = i
      /\ x \in Seq(S) /\ Len(x) = 2 /\ \A i \in 1..2 : Place[x[i].table] = 15 + i
      /\ r \in Seq(S) /\ Len(r) = 7 /\ \A i \in 1..7 : Place[r[i].table] = 17 + i
  BY EvidencePlaces, OutputPlaces, RulePlaces
<1>2. AnalysisPurge = v
  BY DEF AnalysisPurge
<1> HIDE DEF e, x, r, S
<1>3a. u = e \o x /\ v = u \o r
  OBVIOUS
<1> HIDE DEF u, v
<1>3. /\ u \in Seq(S) /\ Len(u) = Len(e) + Len(x)
      /\ \A i \in 1..Len(e) : u[i] = e[i]
      /\ \A i \in 1..Len(x) : u[Len(e) + i] = x[i]
  <2>1. e \in Seq(S) /\ x \in Seq(S)
    BY <1>1
  <2>2. /\ e \o x \in Seq(S) /\ Len(e \o x) = Len(e) + Len(x)
        /\ \A i \in 1..Len(e) : (e \o x)[i] = e[i]
        /\ \A i \in 1..Len(x) : (e \o x)[Len(e) + i] = x[i]
    BY <2>1
  <2>3. QED
    BY <1>3a, <2>2, Zenon
<1>4. /\ v \in Seq(S) /\ Len(v) = Len(u) + Len(r)
      /\ \A i \in 1..Len(u) : v[i] = u[i]
      /\ \A i \in 1..Len(r) : v[Len(u) + i] = r[i]
  <2>1. u \in Seq(S) /\ r \in Seq(S)
    BY <1>1, <1>3
  <2>2. /\ u \o r \in Seq(S) /\ Len(u \o r) = Len(u) + Len(r)
        /\ \A i \in 1..Len(u) : (u \o r)[i] = u[i]
        /\ \A i \in 1..Len(r) : (u \o r)[Len(u) + i] = r[i]
    BY <2>1
  <2>3. QED
    BY <1>3a, <2>2, Zenon
<1>5. /\ Len(u) = 17 /\ Len(v) = 24
      /\ \A i \in 1..15 : v[i] = e[i]
      /\ \A i \in 1..2 : v[15 + i] = x[i]
      /\ \A i \in 1..7 : v[17 + i] = r[i]
  <2>1. Len(u) = 17
    BY <1>1, <1>3
  <2>2. Len(v) = 24
    BY <1>1, <1>4, <2>1
  <2>3. \A i \in 1..15 : v[i] = e[i]
    <3>1. \A i \in 1..15 : i \in 1..17
      OBVIOUS
    <3>2. QED
      BY <1>1, <1>3, <1>4, <2>1, <3>1
  <2>4. ASSUME NEW i \in 1..2 PROVE v[15 + i] = x[i]
    <3>1. 15 + i \in 1..17
      OBVIOUS
    <3>2. v[15 + i] = u[15 + i]
      BY <1>4, <2>1, <3>1
    <3>3. u[15 + i] = x[i]
      BY <1>1, <1>3
    <3>4. QED
      BY <3>2, <3>3
  <2>5. \A i \in 1..7 : v[17 + i] = r[i]
    BY <1>1, <1>4, <2>1
  <2>6. QED
    BY <2>1, <2>2, <2>3, <2>4, <2>5
<1>6. ASSUME NEW i \in 1..24 PROVE Place[v[i].table] = i
  <2>1. CASE i \in 1..15
    BY <1>1, <1>5, <2>1
  <2>2. CASE i \in 16..17
    <3>1. i - 15 \in 1..2 /\ 15 + (i - 15) = i
      BY <2>2
    <3>2. v[i] = x[i - 15] /\ Place[x[i - 15].table] = 15 + (i - 15)
      BY <1>1, <1>5, <3>1
    <3>3. QED
      BY <3>1, <3>2
  <2>3. CASE i \in 18..24
    <3>1. i - 17 \in 1..7 /\ 17 + (i - 17) = i
      BY <2>3
    <3>2. v[i] = r[i - 17] /\ Place[r[i - 17].table] = 17 + (i - 17)
      BY <1>1, <1>5, <3>1
    <3>3. QED
      BY <3>1, <3>2
  <2>4. QED
    BY <2>1, <2>2, <2>3
<1>7. QED
  BY <1>2, <1>4, <1>5, <1>6 DEF S

-----------------------------------------------------------------------------
(***************************************************************************)
(* Any content                                                             *)
(***************************************************************************)

LEMMA TypeStep == TypeOK /\ [Next]_vars => TypeOK'
<1> SUFFICES ASSUME TypeOK, [Next]_vars PROVE TypeOK'
  OBVIOUS
<1>1. ASSUME NEW s, DeleteRows(s) PROVE TypeOK'
  <2>1. CASE s.table \in rows
    <3>1. \A c \in rows : c # s.table => s.table \notin Needs(c) /\ <<c, s.table>> \notin refs
      BY <1>1, <2>1 DEF DeleteRows, Referrers
    <3>2. \A t \in rows' : t \in Tables /\ Needs(t) \subseteq rows'
      BY <1>1, <3>1 DEF DeleteRows, TypeOK
    <3>3. ASSUME NEW r \in refs' PROVE r \in rows' \X rows' /\ r[2] \in May(r[1])
      <4>1. r \in refs /\ r[1] # s.table
        BY <1>1 DEF DeleteRows
      <4>2. r \in rows \X rows /\ r[2] \in May(r[1])
        BY <4>1 DEF TypeOK
      <4>3. r = <<r[1], r[2]>> /\ r[1] \in rows /\ r[2] \in rows
        BY <4>2
      <4>4. r[2] # s.table
        BY <3>1, <4>1, <4>3
      <4>5. rows' = rows \ {s.table}
        BY <1>1 DEF DeleteRows
      <4>6. QED
        BY <4>1, <4>2, <4>3, <4>4, <4>5
    <3>4. QED
      BY <1>1, <3>2, <3>3 DEF DeleteRows, TypeOK
  <2>2. CASE s.table \notin rows
    <3>1. rows' = rows /\ refs' \subseteq refs /\ purge' = purge /\ outcome' = outcome
      BY <1>1, <2>2 DEF DeleteRows
    <3>2. QED
      BY <3>1 DEF TypeOK
  <2>3. QED
    BY <2>1, <2>2
<1>2. ASSUME NEW s, ClearReference(s) PROVE TypeOK'
  BY <1>2 DEF ClearReference, TypeOK
<1>3. ASSUME NEW s, Refuse(s) PROVE TypeOK'
  BY <1>3 DEF Refuse, TypeOK
<1>4. ASSUME Finish PROVE TypeOK'
  BY <1>4 DEF Finish, TypeOK
<1>5. ASSUME UNCHANGED vars PROVE TypeOK'
  BY <1>5 DEF vars, TypeOK
<1>6. QED
  BY <1>1, <1>2, <1>3, <1>4, <1>5 DEF Next

\* purge_analysis_outputs has emptied the tables in the places before the next.
Progress ==
    purge = "analysis" =>
        /\ todo \in Seq([table : DOMAIN Place, clears : {Row}])
        /\ Len(todo) <= 24
        /\ \A i \in 1..Len(todo) : Place[todo[i].table] = i + (24 - Len(todo))
        /\ \A t \in DOMAIN Place : Place[t] <= 24 - Len(todo) => t \notin rows

LEMMA ProgressStep == Progress /\ [Next]_vars => Progress'
<1> SUFFICES ASSUME Progress, [Next]_vars, purge = "analysis", purge' = "analysis" PROVE Progress'
  <2>1. ASSUME [Next]_vars PROVE purge' = purge
    <3>1. ASSUME NEW s, DeleteRows(s) \/ ClearReference(s) \/ Refuse(s) PROVE purge' = purge
      BY <3>1 DEF DeleteRows, ClearReference, Refuse
    <3>2. ASSUME Finish PROVE purge' = purge
      BY <3>2 DEF Finish
    <3>3. ASSUME UNCHANGED vars PROVE purge' = purge
      BY <3>3 DEF vars
    <3>4. QED
      BY <2>1, <3>1, <3>2, <3>3 DEF Next
  <2>2. QED
    BY <2>1 DEF Progress
<1> DEFINE S == [table : DOMAIN Place, clears : {Row}]
           n == Len(todo)
<1>1. /\ todo \in Seq(S) /\ n \in Nat /\ n <= 24
      /\ \A i \in 1..n : Place[todo[i].table] = i + (24 - n)
      /\ \A t \in DOMAIN Place : Place[t] <= 24 - n => t \notin rows
      /\ \A i \in 1..n : todo[i].clears = Row /\ todo[i].table \in DOMAIN Place
  <2>1. todo \in Seq(S)
    BY DEF Progress
  <2>2. n \in Nat /\ \A i \in 1..n : todo[i] \in S
    <3> HIDE DEF S
    <3>1. QED
      BY <2>1
  <2>3. \A i \in 1..n : todo[i].clears = Row /\ todo[i].table \in DOMAIN Place
    BY <2>2
  <2>4. QED
    BY <2>1, <2>2, <2>3 DEF Progress
<1> HIDE DEF S
<1>2. ASSUME NEW s, DeleteRows(s) PROVE Progress'
  <2>1. /\ todo # <<>> /\ s = Head(todo) /\ todo' = Tail(todo) /\ rows' = rows \ {s.table}
    BY <1>2 DEF DeleteRows, Step
  <2>2. /\ n # 0 /\ s = todo[1] /\ todo' \in Seq(S) /\ Len(todo') = n - 1
        /\ \A i \in 1..(n - 1) : todo'[i] = todo[i + 1]
    BY <1>1, <2>1
  <2> HIDE DEF n
  <2>3. \A i \in 1..(n - 1) : Place[todo'[i].table] = i + (24 - (n - 1))
    <3> SUFFICES ASSUME NEW i \in 1..(n - 1) PROVE Place[todo'[i].table] = i + (24 - (n - 1))
      OBVIOUS
    <3>1. i + 1 \in 1..n
      BY <1>1
    <3>2. Place[todo[i + 1].table] = (i + 1) + (24 - n)
      BY <1>1, <3>1
    <3>3. todo'[i] = todo[i + 1]
      BY <2>2
    <3>4. QED
      BY <1>1, <3>2, <3>3
  <2>4. \A t \in DOMAIN Place : Place[t] <= 24 - (n - 1) => t \notin rows'
    <3> SUFFICES ASSUME NEW t \in DOMAIN Place, Place[t] <= 24 - (n - 1) PROVE t \notin rows'
      OBVIOUS
    <3>1. Place[t] \in Int
      BY DEF Place
    <3>2. CASE Place[t] <= 24 - n
      BY <1>1, <2>1, <3>2
    <3>3. CASE Place[t] = 25 - n
      <4>1. 1 \in 1..n
        BY <1>1, <2>2
      <4>2. Place[s.table] = 1 + (24 - n) /\ s.table \in DOMAIN Place
        BY <1>1, <2>2, <4>1
      <4>3. Place[s.table] = Place[t]
        BY <1>1, <3>3, <4>2
      <4>4. s.table = t
        BY <4>2, <4>3 DEF Place
      <4>5. QED
        BY <2>1, <4>4
    <3>4. QED
      BY <1>1, <3>1, <3>2, <3>3
  <2>5. Len(todo') <= 24
    BY <1>1, <2>2
  <2>6. QED
    BY <2>2, <2>3, <2>4, <2>5 DEF Progress, S
<1>3. ASSUME NEW s, ClearReference(s) PROVE FALSE
  <2>1. todo # <<>> /\ s = Head(todo) /\ s.clears # Row
    BY <1>3 DEF ClearReference, Step
  <2>2. 1 \in 1..n /\ s = todo[1]
    BY <1>1, <2>1
  <2>3. QED
    BY <1>1, <2>1, <2>2
<1>4. ASSUME NEW s, Refuse(s) PROVE Progress'
  BY <1>4 DEF Refuse, Progress
<1>5. ASSUME Finish PROVE Progress'
  BY <1>5 DEF Finish, Progress
<1>6. ASSUME UNCHANGED vars PROVE Progress'
  BY <1>6 DEF vars, Progress
<1>7. QED
  BY <1>2, <1>3, <1>4, <1>5, <1>6 DEF Next

LEMMA TouchedPlaces ==
    ASSUME purge = "analysis"
    PROVE  Touched \subseteq DOMAIN Place
<1>1. Statements(purge) = AnalysisPurge
  BY DEF Statements
<1>2. \A i \in DOMAIN AnalysisPurge : AnalysisPurge[i].table \in DOMAIN Place
  <2> DEFINE S == [table : DOMAIN Place, clears : {Row}]
  <2>1. AnalysisPurge \in Seq(S)
    BY StatementPlaces
  <2>2. \A i \in DOMAIN AnalysisPurge : AnalysisPurge[i] \in S
    <3> HIDE DEF S
    <3>1. QED
      BY <2>1
  <2>3. QED
    BY <2>2
<1>3. QED
  BY <1>1, <1>2 DEF Touched

\* A purge is refused at a delete.
StoppedAt == outcome = "refused" => todo # <<>> /\ Head(todo).clears = Row

LEMMA StoppedAtStep == StoppedAt /\ [Next]_vars => StoppedAt'
<1> SUFFICES ASSUME StoppedAt, [Next]_vars PROVE StoppedAt'
  OBVIOUS
<1>1. ASSUME NEW s, DeleteRows(s) \/ ClearReference(s) PROVE StoppedAt'
  BY <1>1 DEF DeleteRows, ClearReference, Step, StoppedAt
<1>2. ASSUME NEW s, Refuse(s) PROVE StoppedAt'
  BY <1>2 DEF Refuse, Step, StoppedAt
<1>3. QED
  BY <1>1, <1>2 DEF Next, Finish, vars, StoppedAt

\* Whoever refers to the table the purge stops at is not one of its own.
LEMMA OrderHolds ==
    ASSUME TypeOK, Progress, StoppedAt
    PROVE  AnalysisOrderIsSafe
<1> SUFFICES ASSUME purge = "analysis", outcome = "refused",
                    NEW c \in Referrers(Head(todo).table) \cap Touched
             PROVE  FALSE
  BY DEF AnalysisOrderIsSafe, OrderIsSafe
<1> DEFINE t == Head(todo).table
           n == Len(todo)
<1>1. c \in rows /\ c # t /\ t \in Needs(c) \cup May(c) /\ c \in DOMAIN Place
  <2>1. c \in rows /\ c # t /\ (t \in Needs(c) \/ <<c, t>> \in refs)
    BY DEF Referrers
  <2>2. <<c, t>> \in refs => t \in May(c)
    BY DEF TypeOK
  <2>3. QED
    BY <2>1, <2>2, TouchedPlaces
<1>2. /\ n \in Nat /\ n # 0 /\ t \in DOMAIN Place /\ Place[t] = 1 + (24 - n)
      /\ \A x \in DOMAIN Place : Place[x] <= 24 - n => x \notin rows
  <2> DEFINE S == [table : DOMAIN Place, clears : {Row}]
  <2>1. todo \in Seq(S) /\ todo # <<>>
    BY DEF Progress, StoppedAt
  <2> HIDE DEF S
  <2>2. n \in Nat /\ n # 0 /\ Head(todo) = todo[1] /\ 1 \in 1..n /\ todo[1] \in S
    BY <2>1
  <2>3. todo[1] \in [table : DOMAIN Place, clears : {Row}]
    BY <2>2 DEF S
  <2>4. QED
    BY <2>2, <2>3 DEF Progress
<1>3. Place[c] < Place[t]
  <2> HIDE DEF t
  <2>1. QED
    BY <1>1, <1>2, ParentsLater
<1>4. Place[c] \in Int
  BY <1>1 DEF Place
<1> HIDE DEF t, n
<1>5. Place[c] <= 24 - n
  BY <1>2, <1>3, <1>4
<1>6. QED
  BY <1>1, <1>2, <1>5

\* The database's own promise, which the order of a purge rests on.
LEMMA NothingDangles == AnyContent => []TypeOK
<1>1. Content => TypeOK
  BY DEF Content, TypeOK
<1>2. QED
  BY <1>1, TypeStep, PTL DEF AnyContent

\* Whatever rows a project has, purge_analysis_outputs is never refused
\* because of a table that it empties itself.
THEOREM OrderFitsAnyContent == AnyContent => []AnalysisOrderIsSafe
<1>1. Content => Progress /\ StoppedAt
  <2> SUFFICES ASSUME Content PROVE Progress /\ StoppedAt
    OBVIOUS
  <2>1. StoppedAt
    BY DEF Content, StoppedAt
  <2>2. CASE purge = "analysis"
    <3>1. todo = AnalysisPurge
      BY <2>2 DEF Content, Statements
    <3>2. \A t \in DOMAIN Place : ~(Place[t] <= 0)
      BY DEF Place
    <3>3. Len(todo) = 24 /\ todo \in Seq([table : DOMAIN Place, clears : {Row}])
          /\ \A i \in 1..24 : Place[todo[i].table] = i
      BY <3>1, StatementPlaces
    <3>4. \A i \in 1..24 : i + (24 - 24) = i
      OBVIOUS
    <3>5. QED
      BY <2>1, <3>2, <3>3, <3>4 DEF Progress
  <2>3. CASE purge # "analysis"
    BY <2>1, <2>3 DEF Progress
  <2>4. QED
    BY <2>2, <2>3
<1>2. QED
  BY <1>1, NothingDangles, ProgressStep, StoppedAtStep, OrderHolds, PTL DEF AnyContent
-----------------------------------------------------------------------------
(***************************************************************************)
(* The order of the demo purge                                             *)
(***************************************************************************)

\* Where purge_demo_project_children deletes each of its tables; between them
\* it clears two references, at 47 and 48.
DemoPlace ==
    [ai_investigation_traces |-> 1, claim_cluster_memberships |-> 2,
     claim_embeddings |-> 3, claim_clusters |-> 4, source_claim_evidence |-> 5,
     source_claims |-> 6, composite_pipeline_runs |-> 7, bdd_step_links |-> 8,
     bdd_steps |-> 9, bdd_scenarios |-> 10, bdd_features |-> 11, test_assertions |-> 12,
     test_executions |-> 13, test_fixtures |-> 14, test_evidence_cases |-> 15,
     graph_observations |-> 16, graph_edges |-> 17, graph_hyperedges |-> 18,
     graph_communities |-> 19, graph_nodes |-> 20, graph_provider_runs |-> 21,
     semantic_observations |-> 22, analysis_manifest_files |-> 23,
     analysis_manifests |-> 24, rule_source_claims |-> 25, rule_evidence |-> 26,
     rule_coverage_assessments |-> 27, rule_trace_links |-> 28, rule_decisions |-> 29,
     rule_reviews |-> 30, rule_conflicts |-> 31, implementation_gaps |-> 32,
     runtime_log_evidence |-> 33, test_coverage_links |-> 34, coverage_lines |-> 35,
     coverage_branches |-> 36, coverage_files |-> 37, coverage_reports |-> 38,
     runtime_evidence_imports |-> 39, source_symbols |-> 40, test_cases |-> 41,
     source_files |-> 42, export_documents |-> 43, search_index_records |-> 44,
     audit_events |-> 45, ai_model_usage |-> 46, rule_versions |-> 49, rules |-> 50,
     analysis_versions |-> 51, scan_runs |-> 52, scan_configs |-> 53]

ClearsRun == SetNull("scan_configs", "scan_runs")
ClearsConfig == SetNull("source_locations", "scan_configs")

\* The references a parent of which is deleted first: two that the purge leaves
\* to refuse it, and the one it clears.
Backwards ==
    {<<"semantic_observations", "graph_nodes">>, <<"coverage_lines", "graph_nodes">>,
     <<"scan_configs", "scan_runs">>}

DemoOrdered(t, k) ==
    \A p \in (k.needs \cup k.may) \cap DOMAIN DemoPlace :
        p = t \/ DemoPlace[t] < DemoPlace[p] \/ <<t, p>> \in Backwards

LEMMA DemoRuleTables == \A t \in DOMAIN RuleTables \cap DOMAIN DemoPlace : DemoOrdered(t, RuleTables[t])
BY DEF RuleTables, Refers, DemoOrdered, DemoPlace, Backwards

LEMMA DemoReviewTables == \A t \in DOMAIN ReviewTables \cap DOMAIN DemoPlace : DemoOrdered(t, ReviewTables[t])
BY DEF ReviewTables, Refers, DemoOrdered, DemoPlace, Backwards

LEMMA DemoScanTables == \A t \in DOMAIN ScanTables \cap DOMAIN DemoPlace : DemoOrdered(t, ScanTables[t])
BY DEF ScanTables, Refers, DemoOrdered, DemoPlace, Backwards

LEMMA DemoSourceTables == \A t \in DOMAIN SourceTables \cap DOMAIN DemoPlace : DemoOrdered(t, SourceTables[t])
BY DEF SourceTables, Refers, DemoOrdered, DemoPlace, Backwards

LEMMA DemoRunTables == \A t \in DOMAIN RunTables \cap DOMAIN DemoPlace : DemoOrdered(t, RunTables[t])
BY DEF RunTables, Refers, DemoOrdered, DemoPlace, Backwards

LEMMA DemoEventTables == \A t \in DOMAIN EventTables \cap DOMAIN DemoPlace : DemoOrdered(t, EventTables[t])
BY DEF EventTables, Refers, DemoOrdered, DemoPlace, Backwards

LEMMA DemoAiTables == \A t \in DOMAIN AiTables \cap DOMAIN DemoPlace : DemoOrdered(t, AiTables[t])
BY DEF AiTables, Refers, DemoOrdered, DemoPlace, Backwards

LEMMA DemoTraceTables == \A t \in DOMAIN TraceTables \cap DOMAIN DemoPlace : DemoOrdered(t, TraceTables[t])
BY DEF TraceTables, Refers, DemoOrdered, DemoPlace, Backwards

LEMMA DemoAstTables == \A t \in DOMAIN AstTables \cap DOMAIN DemoPlace : DemoOrdered(t, AstTables[t])
BY DEF AstTables, Refers, DemoOrdered, DemoPlace, Backwards

LEMMA DemoGraphTables == \A t \in DOMAIN GraphTables \cap DOMAIN DemoPlace : DemoOrdered(t, GraphTables[t])
BY DEF GraphTables, Refers, DemoOrdered, DemoPlace, Backwards

LEMMA DemoClaimTables == \A t \in DOMAIN ClaimTables \cap DOMAIN DemoPlace : DemoOrdered(t, ClaimTables[t])
BY DEF ClaimTables, Refers, DemoOrdered, DemoPlace, Backwards

LEMMA DemoClusterTables == \A t \in DOMAIN ClusterTables \cap DOMAIN DemoPlace : DemoOrdered(t, ClusterTables[t])
BY DEF ClusterTables, Refers, DemoOrdered, DemoPlace, Backwards

LEMMA DemoTestTables == \A t \in DOMAIN TestTables \cap DOMAIN DemoPlace : DemoOrdered(t, TestTables[t])
BY DEF TestTables, Refers, DemoOrdered, DemoPlace, Backwards

LEMMA DemoParentsLater ==
    ASSUME NEW t \in DOMAIN DemoPlace, NEW p \in DOMAIN DemoPlace, p \in Needs(t) \cup May(t), p # t
    PROVE  DemoPlace[t] < DemoPlace[p] \/ <<t, p>> \in Backwards
<1>1. PICK keys \in ForeignKeys : t \in DOMAIN keys /\ p \in keys[t].needs \cup keys[t].may
  BY DEF Needs, May, KeysOf
<1>2. DemoOrdered(t, keys[t])
  BY <1>1, DemoRuleTables, DemoReviewTables, DemoScanTables, DemoSourceTables, DemoRunTables,
     DemoEventTables, DemoAiTables, DemoTraceTables, DemoAstTables, DemoGraphTables,
     DemoClaimTables, DemoClusterTables, DemoTestTables DEF ForeignKeys
<1>3. QED
  BY <1>1, <1>2 DEF DemoOrdered

\* What two tables refer to, of which references are cleared.
ClearedKeys(keys) ==
    /\ "scan_configs" \in DOMAIN keys => "scan_runs" \notin keys["scan_configs"].needs
    /\ "source_locations" \in DOMAIN keys =>
          keys["source_locations"].needs = {} /\ keys["source_locations"].may = {"scan_configs"}

LEMMA ClearedReferences ==
    /\ "scan_runs" \notin Needs("scan_configs")
    /\ Needs("source_locations") = {} /\ May("source_locations") \subseteq {"scan_configs"}
<1>1. ClearedKeys(RuleTables) /\ ClearedKeys(ReviewTables) /\ ClearedKeys(SourceTables)
  BY DEF ClearedKeys, RuleTables, ReviewTables, SourceTables
<1>2. ClearedKeys(ScanTables)
  BY DEF ClearedKeys, ScanTables, Refers
<1>3. ClearedKeys(RunTables) /\ ClearedKeys(EventTables) /\ ClearedKeys(AiTables) /\ ClearedKeys(TraceTables)
  BY DEF ClearedKeys, RunTables, EventTables, AiTables, TraceTables
<1>4. ClearedKeys(AstTables) /\ ClearedKeys(GraphTables) /\ ClearedKeys(ClaimTables)
  BY DEF ClearedKeys, AstTables, GraphTables, ClaimTables
<1>5. ClearedKeys(ClusterTables) /\ ClearedKeys(TestTables)
  BY DEF ClearedKeys, ClusterTables, TestTables
<1>6. \A keys \in ForeignKeys : ClearedKeys(keys)
  BY <1>1, <1>2, <1>3, <1>4, <1>5 DEF ForeignKeys
<1>7. QED
  BY <1>6 DEF ClearedKeys, Needs, May, KeysOf

\* What the demo purge does at a place.
DemoTables == DOMAIN DemoPlace \cup {"source_locations"}

Statement == [table : DemoTables, clears : {Row, "scan_runs", "scan_configs"}]

AtPlace(s, i) ==
    \/ s.clears = Row /\ s.table \in DOMAIN DemoPlace /\ DemoPlace[s.table] = i
    \/ i = 47 /\ s = ClearsRun
    \/ i = 48 /\ s = ClearsConfig

\* A part of the purge: n statements, after the first b.
Part(u, n, b) == u \in Seq(Statement) /\ Len(u) = n /\ \A i \in 1..n : AtPlace(u[i], b + i)

LEMMA PartsJoined ==
    ASSUME NEW u, NEW v, NEW n \in Nat, NEW m \in Nat, NEW b \in Nat, Part(u, n, b), Part(v, m, b + n)
    PROVE  Part(u \o v, n + m, b)
<1>1. u \in Seq(Statement) /\ v \in Seq(Statement) /\ Len(u) = n /\ Len(v) = m
  BY DEF Part
<1>2. /\ u \o v \in Seq(Statement) /\ Len(u \o v) = Len(u) + Len(v)
      /\ \A i \in 1..Len(u) : (u \o v)[i] = u[i]
      /\ \A i \in 1..Len(v) : (u \o v)[Len(u) + i] = v[i]
  <2> HIDE DEF Statement
  <2>1. QED
    BY <1>1
<1> DEFINE w == u \o v
<1>3. /\ w \in Seq(Statement) /\ Len(w) = n + m
      /\ \A i \in 1..n : w[i] = u[i]
      /\ \A i \in 1..m : w[n + i] = v[i]
  BY <1>1, <1>2
<1> HIDE DEF w
<1>4. ASSUME NEW i \in 1..(n + m) PROVE AtPlace(w[i], b + i)
  <2>1. CASE i \in 1..n
    BY <1>3, <2>1 DEF Part
  <2>2. CASE i \notin 1..n
    <3>1. i - n \in 1..m /\ n + (i - n) = i /\ (b + n) + (i - n) = b + i
      BY <2>2
    <3>2. w[n + (i - n)] = v[i - n]
      BY <1>3, <3>1
    <3>3. AtPlace(v[i - n], (b + n) + (i - n))
      BY <3>1 DEF Part
    <3>4. QED
      BY <3>1, <3>2, <3>3
  <2>3. QED
    BY <2>1, <2>2
<1>5. Part(w, n + m, b)
  BY <1>3, <1>4 DEF Part
<1>6. QED
  BY <1>5 DEF w

\* A list of deletes is a part if its tables have their places.
LEMMA DeletesArePart ==
    ASSUME NEW n \in Nat, NEW ts, DOMAIN ts = 1..n, NEW b \in Nat,
           \A i \in 1..n : ts[i] \in DOMAIN DemoPlace /\ DemoPlace[ts[i]] = b + i
    PROVE  Part(Deletes(ts), n, b)
<1> DEFINE u == Deletes(ts)
<1>1. u = [i \in 1..n |-> Delete(ts[i])]
  BY DEF Deletes
<1> HIDE DEF u
<1>2. \A i \in 1..n : Delete(ts[i]) \in Statement /\ AtPlace(Delete(ts[i]), b + i)
  <2> SUFFICES ASSUME NEW i \in 1..n PROVE Delete(ts[i]) \in Statement /\ AtPlace(Delete(ts[i]), b + i)
    OBVIOUS
  <2>1. ts[i] \in DOMAIN DemoPlace /\ DemoPlace[ts[i]] = b + i
    OBVIOUS
  <2>2. Delete(ts[i]) = [table |-> ts[i], clears |-> Row]
    BY DEF Delete
  <2>3. QED
    BY <2>1, <2>2 DEF Statement, DemoTables, AtPlace
<1>3. u \in Seq(Statement) /\ Len(u) = n /\ \A i \in 1..n : u[i] = Delete(ts[i])
  BY <1>1, <1>2
<1>4. Part(u, n, b)
  BY <1>2, <1>3 DEF Part
<1>5. QED
  BY <1>4 DEF u

LEMMA DemoPlaces == Part(DemoPurge, 53, 0)
<1>1. Part(ClaimsPurge, 15, 0)
  <2> DEFINE ts == <<"ai_investigation_traces", "claim_cluster_memberships", "claim_embeddings",
                     "claim_clusters", "source_claim_evidence", "source_claims",
                     "composite_pipeline_runs",
                     "bdd_step_links", "bdd_steps", "bdd_scenarios", "bdd_features",
                     "test_assertions", "test_executions", "test_fixtures", "test_evidence_cases">>
  <2>1. DOMAIN ts = 1..15 /\ \A i \in 1..15 : ts[i] \in DOMAIN DemoPlace /\ DemoPlace[ts[i]] = 0 + i
    BY DEF DemoPlace
  <2>2. ClaimsPurge = Deletes(ts)
    BY DEF ClaimsPurge
  <2> HIDE DEF ts
  <2>3. Part(Deletes(ts), 15, 0)
    BY <2>1, DeletesArePart
  <2>4. QED
    BY <2>2, <2>3
<1>2. Part(GraphPurge, 9, 15)
  <2> DEFINE ts == <<"graph_observations", "graph_edges", "graph_hyperedges", "graph_communities",
                     "graph_nodes", "graph_provider_runs", "semantic_observations",
                     "analysis_manifest_files", "analysis_manifests">>
  <2>1. DOMAIN ts = 1..9 /\ \A i \in 1..9 : ts[i] \in DOMAIN DemoPlace /\ DemoPlace[ts[i]] = 15 + i
    BY DEF DemoPlace
  <2>2. GraphPurge = Deletes(ts)
    BY DEF GraphPurge
  <2> HIDE DEF ts
  <2>3. Part(Deletes(ts), 9, 15)
    BY <2>1, DeletesArePart
  <2>4. QED
    BY <2>2, <2>3
<1>3. Part(EvidencePurge, 15, 24)
  <2> DEFINE ts == <<"rule_source_claims", "rule_evidence", "rule_coverage_assessments",
                     "rule_trace_links", "rule_decisions", "rule_reviews", "rule_conflicts",
                     "implementation_gaps", "runtime_log_evidence", "test_coverage_links",
                     "coverage_lines", "coverage_branches", "coverage_files", "coverage_reports",
                     "runtime_evidence_imports">>
  <2>1. DOMAIN ts = 1..15 /\ \A i \in 1..15 : ts[i] \in DOMAIN DemoPlace /\ DemoPlace[ts[i]] = 24 + i
    BY DEF DemoPlace
  <2>2. EvidencePurge = Deletes(ts)
    BY DEF EvidencePurge
  <2> HIDE DEF ts
  <2>3. Part(Deletes(ts), 15, 24)
    BY <2>1, DeletesArePart
  <2>4. QED
    BY <2>2, <2>3
<1>4. Part(SourcesPurge, 14, 39)
  <2> DEFINE ts == <<"source_symbols", "test_cases", "source_files", "export_documents",
                     "search_index_records", "audit_events", "ai_model_usage">>
             us == <<"rule_versions", "rules", "analysis_versions", "scan_runs", "scan_configs">>
             cs == <<ClearsRun, ClearsConfig>>
  <2>1. DOMAIN ts = 1..7 /\ \A i \in 1..7 : ts[i] \in DOMAIN DemoPlace /\ DemoPlace[ts[i]] = 39 + i
    BY DEF DemoPlace
  <2>2. DOMAIN us = 1..5 /\ \A i \in 1..5 : us[i] \in DOMAIN DemoPlace /\ DemoPlace[us[i]] = 48 + i
    BY DEF DemoPlace
  <2>3. Part(cs, 2, 46)
    <3>1. ClearsRun \in Statement /\ ClearsConfig \in Statement
      BY DEF ClearsRun, ClearsConfig, SetNull, Statement, DemoTables, DemoPlace
    <3>2. cs \in Seq(Statement) /\ Len(cs) = 2 /\ cs[1] = ClearsRun /\ cs[2] = ClearsConfig
      BY <3>1
    <3>3. AtPlace(ClearsRun, 46 + 1) /\ AtPlace(ClearsConfig, 46 + 2)
      BY DEF AtPlace
    <3> HIDE DEF cs
    <3>4. \A i \in 1..2 : i = 1 \/ i = 2
      OBVIOUS
    <3>5. QED
      BY <3>2, <3>3, <3>4 DEF Part
  <2>4. SourcesPurge = (Deletes(ts) \o cs) \o Deletes(us)
    BY DEF SourcesPurge, ClearsRun, ClearsConfig
  <2> HIDE DEF ts, us, cs
  <2>5. Part(Deletes(ts), 7, 39)
    BY <2>1, DeletesArePart
  <2>6. Part(Deletes(us), 5, 48)
    BY <2>2, DeletesArePart
  <2>7. Part(cs, 2, 39 + 7)
    BY <2>3
  <2>8. Part(Deletes(ts) \o cs, 7 + 2, 39)
    BY <2>5, <2>7, PartsJoined
  <2>9. Part(Deletes(us), 5, 39 + (7 + 2))
    BY <2>6
  <2>10. Part((Deletes(ts) \o cs) \o Deletes(us), (7 + 2) + 5, 39)
    BY <2>8, <2>9, PartsJoined
  <2>11. QED
    BY <2>4, <2>10
<1>5. Part(GraphPurge, 9, 0 + 15)
  BY <1>2
<1>6. Part(ClaimsPurge \o GraphPurge, 15 + 9, 0)
  BY <1>1, <1>5, PartsJoined
<1>7. Part(EvidencePurge, 15, 0 + (15 + 9))
  BY <1>3
<1>8. Part((ClaimsPurge \o GraphPurge) \o EvidencePurge, (15 + 9) + 15, 0)
  BY <1>6, <1>7, PartsJoined
<1>9. Part(SourcesPurge, 14, 0 + ((15 + 9) + 15))
  BY <1>4
<1>10. Part(((ClaimsPurge \o GraphPurge) \o EvidencePurge) \o SourcesPurge, ((15 + 9) + 15) + 14, 0)
  BY <1>8, <1>9, PartsJoined
<1>11. QED
  BY <1>10 DEF DemoPurge

\* The demo purge has emptied the tables in the places before the next, and
\* cleared the references it clears.
DemoProgress ==
    purge = "demo" =>
        /\ todo \in Seq(Statement)
        /\ Len(todo) <= 53
        /\ \A i \in 1..Len(todo) : AtPlace(todo[i], i + (53 - Len(todo)))
        /\ \A t \in DOMAIN DemoPlace : DemoPlace[t] <= 53 - Len(todo) => t \notin rows
        /\ 47 <= 53 - Len(todo) => <<"scan_configs", "scan_runs">> \notin refs
        /\ 48 <= 53 - Len(todo) => <<"source_locations", "scan_configs">> \notin refs

\* A step takes the first statement, or none.
LEMMA DemoProgressStep == DemoProgress /\ [Next]_vars => DemoProgress'
<1> SUFFICES ASSUME DemoProgress, [Next]_vars PROVE DemoProgress'
  OBVIOUS
<1> DEFINE n == Len(todo)
<1>1. ASSUME NEW s, DeleteRows(s) \/ ClearReference(s), purge' = "demo" PROVE DemoProgress'
  <2>1. /\ purge = "demo" /\ todo # <<>> /\ s = Head(todo) /\ todo' = Tail(todo)
        /\ rows' \subseteq rows /\ refs' \subseteq refs
        /\ s.clears = Row => s.table \notin rows'
        /\ s.clears # Row => <<s.table, s.clears>> \notin refs'
    BY <1>1 DEF DeleteRows, ClearReference, Step
  <2>2. /\ todo \in Seq(Statement) /\ n <= 53
        /\ \A i \in 1..n : AtPlace(todo[i], i + (53 - n))
        /\ \A t \in DOMAIN DemoPlace : DemoPlace[t] <= 53 - n => t \notin rows
        /\ 47 <= 53 - n => <<"scan_configs", "scan_runs">> \notin refs
        /\ 48 <= 53 - n => <<"source_locations", "scan_configs">> \notin refs
    BY <2>1 DEF DemoProgress
  <2>3. /\ n \in Nat /\ n # 0 /\ s = todo[1] /\ todo' \in Seq(Statement) /\ Len(todo') = n - 1
        /\ \A i \in 1..(n - 1) : todo'[i] = todo[i + 1]
    BY <2>1, <2>2
  <2> HIDE DEF n
  <2>4. \A i \in 1..(n - 1) : AtPlace(todo'[i], i + (53 - (n - 1)))
    <3> SUFFICES ASSUME NEW i \in 1..(n - 1) PROVE AtPlace(todo'[i], i + (53 - (n - 1)))
      OBVIOUS
    <3>1. i + 1 \in 1..n /\ (i + 1) + (53 - n) = i + (53 - (n - 1))
      BY <2>3
    <3>2. AtPlace(todo[i + 1], (i + 1) + (53 - n))
      BY <2>2, <3>1
    <3>3. QED
      BY <2>3, <3>1, <3>2
  <2>5. AtPlace(s, 54 - n)
    <3>1. 1 \in 1..n /\ 1 + (53 - n) = 54 - n
      BY <2>3
    <3>2. QED
      BY <2>2, <2>3, <3>1
  <2>6. \A t \in DOMAIN DemoPlace : DemoPlace[t] <= 53 - (n - 1) => t \notin rows'
    <3> SUFFICES ASSUME NEW t \in DOMAIN DemoPlace, DemoPlace[t] <= 53 - (n - 1) PROVE t \notin rows'
      OBVIOUS
    <3>1. DemoPlace[t] \in Int /\ DemoPlace[t] \notin {47, 48}
      BY DEF DemoPlace
    <3>2. CASE DemoPlace[t] <= 53 - n
      BY <2>1, <2>2, <3>2
    <3>3. CASE DemoPlace[t] = 54 - n
      <4>1. s.clears = Row /\ s.table \in DOMAIN DemoPlace /\ DemoPlace[s.table] = DemoPlace[t]
        BY <2>5, <3>1, <3>3 DEF AtPlace
      <4>2. s.table = t
        BY <4>1 DEF DemoPlace
      <4>3. QED
        BY <2>1, <4>1, <4>2
    <3>4. DemoPlace[t] <= 53 - n \/ DemoPlace[t] = 54 - n
      BY <2>3, <3>1
    <3>5. QED
      BY <3>2, <3>3, <3>4
  <2>7. 54 - n = 47 => <<"scan_configs", "scan_runs">> \notin refs'
    <3> SUFFICES ASSUME 54 - n = 47 PROVE <<"scan_configs", "scan_runs">> \notin refs'
      OBVIOUS
    <3>1. \A t \in DOMAIN DemoPlace : DemoPlace[t] # 47
      BY DEF DemoPlace
    <3>2. s = ClearsRun
      BY <2>5, <3>1 DEF AtPlace
    <3>3. s.table = "scan_configs" /\ s.clears = "scan_runs" /\ s.clears # Row
      BY <3>2 DEF ClearsRun, SetNull, Row
    <3>4. QED
      BY <2>1, <3>3
  <2>8. 54 - n = 48 => <<"source_locations", "scan_configs">> \notin refs'
    <3> SUFFICES ASSUME 54 - n = 48 PROVE <<"source_locations", "scan_configs">> \notin refs'
      OBVIOUS
    <3>1. \A t \in DOMAIN DemoPlace : DemoPlace[t] # 48
      BY DEF DemoPlace
    <3>2. s = ClearsConfig
      BY <2>5, <3>1 DEF AtPlace
    <3>3. s.table = "source_locations" /\ s.clears = "scan_configs" /\ s.clears # Row
      BY <3>2 DEF ClearsConfig, SetNull, Row
    <3>4. QED
      BY <2>1, <3>3
  <2>9. 47 <= 53 - (n - 1) => <<"scan_configs", "scan_runs">> \notin refs'
    BY <2>1, <2>2, <2>3, <2>7
  <2>10. 48 <= 53 - (n - 1) => <<"source_locations", "scan_configs">> \notin refs'
    BY <2>1, <2>2, <2>3, <2>8
  <2>11. Len(todo') <= 53
    BY <2>2, <2>3
  <2>12. QED
    BY <2>3, <2>4, <2>6, <2>9, <2>10, <2>11 DEF DemoProgress
<1>2. ASSUME NEW s, Refuse(s) PROVE DemoProgress'
  BY <1>2 DEF Refuse, DemoProgress
<1>3. ASSUME Finish PROVE DemoProgress'
  BY <1>3 DEF Finish, DemoProgress
<1>4. ASSUME UNCHANGED vars PROVE DemoProgress'
  BY <1>4 DEF vars, DemoProgress
<1>5. ASSUME purge' # "demo" PROVE DemoProgress'
  BY <1>5 DEF DemoProgress
<1>6. QED
  BY <1>1, <1>2, <1>3, <1>4, <1>5 DEF Next

LEMMA DemoTouched ==
    ASSUME purge = "demo"
    PROVE  Touched \subseteq DemoTables
<1>1. Statements(purge) = DemoPurge
  BY DEF Statements
<1>2. DemoPurge \in Seq(Statement)
  BY DemoPlaces DEF Part
<1>3. \A i \in DOMAIN DemoPurge : DemoPurge[i] \in Statement
  <2> HIDE DEF Statement
  <2>1. QED
    BY <1>2
<1>4. \A i \in DOMAIN DemoPurge : DemoPurge[i].table \in DemoTables
  BY <1>3 DEF Statement
<1>5. QED
  BY <1>1, <1>4 DEF Touched

\* Whoever refers to the table the demo purge stops at is not one of its own,
\* unless that table is graph_nodes.
LEMMA DemoOrderHolds ==
    ASSUME TypeOK, DemoProgress, StoppedAt
    PROVE  DemoOrderSafeButForNodes
<1> SUFFICES ASSUME purge = "demo", outcome = "refused" PROVE DemoOrderSafeButForNodes
  BY DEF DemoOrderSafeButForNodes
<1> DEFINE s == Head(todo)
           t == s.table
           n == Len(todo)
<1>1. /\ n \in Nat /\ n <= 53 /\ n # 0 /\ s \in Statement /\ s.clears = Row /\ AtPlace(s, 54 - n)
      /\ \A x \in DOMAIN DemoPlace : DemoPlace[x] <= 53 - n => x \notin rows
      /\ 47 <= 53 - n => <<"scan_configs", "scan_runs">> \notin refs
      /\ 48 <= 53 - n => <<"source_locations", "scan_configs">> \notin refs
  <2>1. /\ todo \in Seq(Statement) /\ todo # <<>> /\ n <= 53 /\ s.clears = Row
        /\ \A i \in 1..n : AtPlace(todo[i], i + (53 - n))
    BY DEF DemoProgress, StoppedAt
  <2>2. n \in Nat /\ n # 0 /\ s = todo[1] /\ 1 \in 1..n /\ s \in Statement
    BY <2>1
  <2>3. 1 + (53 - n) = 54 - n
    BY <2>2
  <2>4. AtPlace(s, 54 - n)
    BY <2>1, <2>2, <2>3
  <2>5. QED
    BY <2>1, <2>2, <2>4 DEF DemoProgress
<1> HIDE DEF n
<1>2. t \in DOMAIN DemoPlace /\ DemoPlace[t] = 54 - n
  BY <1>1 DEF AtPlace, ClearsRun, ClearsConfig, SetNull, Row
<1> HIDE DEF s, t
<1>3. ASSUME NEW c \in Referrers(t) \cap Touched
      PROVE  t = "graph_nodes" /\ c \in {"semantic_observations", "coverage_lines"}
  <2>1. /\ c \in rows /\ c # t /\ t \in Needs(c) \cup May(c)
        /\ (t \in Needs(c) \/ <<c, t>> \in refs)
    BY DEF Referrers, TypeOK
  <2>2. c \in DemoTables
    BY DemoTouched
  <2>3. CASE c = "source_locations"
    <3>1. t = "scan_configs" /\ t \notin Needs(c)
      BY <2>1, <2>3, ClearedReferences
    <3>2. QED
      BY <1>1, <1>2, <2>1, <2>3, <3>1 DEF DemoPlace
  <2>4. CASE c \in DOMAIN DemoPlace
    <3>1. DemoPlace[c] \in 1..53
      BY <2>4 DEF DemoPlace
    <3>2. ~(DemoPlace[c] < DemoPlace[t])
      <4>1. ~(DemoPlace[c] <= 53 - n)
        BY <1>1, <2>1, <2>4
      <4>2. QED
        BY <1>1, <1>2, <3>1, <4>1
    <3>3. <<c, t>> \in Backwards
      <4>1. t \in DOMAIN DemoPlace /\ t # c /\ t \in Needs(c) \cup May(c)
        BY <1>2, <2>1
      <4>2. QED
        BY <2>4, <3>2, <4>1, DemoParentsLater
    <3>4. ~(c = "scan_configs" /\ t = "scan_runs")
      <4> SUFFICES ASSUME c = "scan_configs", t = "scan_runs" PROVE FALSE
        OBVIOUS
      <4>1. 54 - n = 52
        BY <1>2 DEF DemoPlace
      <4>2. <<c, t>> \notin refs /\ t \notin Needs(c)
        BY <1>1, <4>1, ClearedReferences
      <4>3. QED
        BY <2>1, <4>2
    <3>5. QED
      BY <3>3, <3>4 DEF Backwards
  <2>5. QED
    BY <2>2, <2>3, <2>4 DEF DemoTables
<1>4. CASE t = "graph_nodes"
  <2>1. s = Delete("graph_nodes")
    BY <1>1, <1>4 DEF t, Statement, Delete
  <2>2. QED
    BY <1>3, <1>4, <2>1 DEF s, t, DemoOrderSafeButForNodes
<1>5. CASE t # "graph_nodes"
  BY <1>3, <1>5 DEF s, t, DemoOrderSafeButForNodes
<1>6. QED
  BY <1>4, <1>5

\* Whatever rows a project has, references between the tables it empties make
\* purge_demo_project_children refused at graph_nodes only.
THEOREM DemoOrderFitsAnyContent == AnyContent => []DemoOrderSafeButForNodes
<1>1. Content => DemoProgress /\ StoppedAt
  <2> SUFFICES ASSUME Content PROVE DemoProgress /\ StoppedAt
    OBVIOUS
  <2>1. StoppedAt
    BY DEF Content, StoppedAt
  <2>2. CASE purge = "demo"
    <3>1. todo = DemoPurge
      BY <2>2 DEF Content, Statements
    <3>2. todo \in Seq(Statement) /\ Len(todo) = 53 /\ \A i \in 1..53 : AtPlace(todo[i], 0 + i)
      BY <3>1, DemoPlaces DEF Part
    <3>3. \A i \in 1..53 : i + (53 - 53) = 0 + i
      OBVIOUS
    <3>4. \A t \in DOMAIN DemoPlace : ~(DemoPlace[t] <= 53 - 53)
      BY DEF DemoPlace
    <3>5. ~(47 <= 53 - 53) /\ ~(48 <= 53 - 53)
      OBVIOUS
    <3>6. QED
      BY <2>1, <3>2, <3>3, <3>4, <3>5 DEF DemoProgress
  <2>3. CASE purge # "demo"
    BY <2>1, <2>3 DEF DemoProgress
  <2>4. QED
    BY <2>2, <2>3
<1>2. QED
  BY <1>1, NothingDangles, DemoProgressStep, StoppedAtStep, DemoOrderHolds, PTL DEF AnyContent

-----------------------------------------------------------------------------
(***************************************************************************)
(* What the runs start from is content                                     *)
(***************************************************************************)

\* How many tables one above the other a row of this one needs.
Height(t) ==
    IF t \in {"bdd_step_links"} THEN 4
    ELSE IF t \in {"test_coverage_links", "ast_node_links", "bdd_steps"} THEN 3
    ELSE IF t \in {"coverage_lines", "coverage_branches", "analysis_manifest_files",
                   "ast_documents", "graph_edges", "source_claim_evidence",
                   "claim_cluster_memberships", "test_assertions", "test_executions",
                   "bdd_scenarios"} THEN 2
    ELSE IF t \in {"rule_versions", "rule_evidence", "rule_relationships",
                   "rule_relationship_suggestions", "rule_decisions", "rule_reviews",
                   "rule_trace_links", "rule_lineage", "semantic_observations",
                   "source_tree_nodes", "source_symbols", "coverage_files",
                   "rule_coverage_assessments", "analysis_manifests",
                   "composite_pipeline_runs", "runtime_event_links", "ai_suggestions",
                   "ai_investigation_traces", "ast_parse_runs", "ast_payload_blobs",
                   "graph_nodes", "graph_observations", "graph_communities",
                   "graph_hyperedges", "source_claims", "claim_clusters",
                   "claim_embeddings", "test_evidence_cases", "test_fixtures",
                   "bdd_features"} THEN 1
    ELSE 0

\* The tables that others refer to.
Parents ==
    {"rules", "rule_versions", "rule_evidence", "classification_overrides",
     "analysis_versions", "scan_configs", "source_locations", "scan_runs",
     "source_files", "source_symbols", "coverage_reports", "coverage_files",
     "coverage_lines", "test_cases", "runtime_evidence_imports", "analysis_manifests",
     "runtime_events", "ai_task_runs", "ast_parse_runs", "ast_payloads",
     "ast_documents", "graph_provider_runs", "graph_nodes", "graph_edges",
     "source_claims", "claim_clusters", "test_evidence_cases", "bdd_features",
     "bdd_scenarios", "bdd_steps"}

\* A table refers to tables, and stands above those it needs.
Above(t, k) ==
    /\ k.needs \cup k.may \subseteq Parents
    /\ \A p \in k.needs : Height(p) < Height(t)

LEMMA HeightType == \A t : Height(t) \in 0..4
BY DEF Height

LEMMA RuleTablesAbove == \A t \in DOMAIN RuleTables : Above(t, RuleTables[t])
BY DEF RuleTables, Refers, Above, Parents, Height

LEMMA ReviewTablesAbove == \A t \in DOMAIN ReviewTables : Above(t, ReviewTables[t])
BY DEF ReviewTables, Refers, Above, Parents, Height

LEMMA ScanTablesAbove == \A t \in DOMAIN ScanTables : Above(t, ScanTables[t])
BY DEF ScanTables, Refers, Above, Parents, Height

LEMMA SourceTablesAbove == \A t \in DOMAIN SourceTables : Above(t, SourceTables[t])
BY DEF SourceTables, Refers, Above, Parents, Height

LEMMA RunTablesAbove == \A t \in DOMAIN RunTables : Above(t, RunTables[t])
BY DEF RunTables, Refers, Above, Parents, Height

LEMMA EventTablesAbove == \A t \in DOMAIN EventTables : Above(t, EventTables[t])
BY DEF EventTables, Refers, Above, Parents, Height

LEMMA AiTablesAbove == \A t \in DOMAIN AiTables : Above(t, AiTables[t])
BY DEF AiTables, Refers, Above, Parents, Height

LEMMA TraceTablesAbove == \A t \in DOMAIN TraceTables : Above(t, TraceTables[t])
BY DEF TraceTables, Refers, Above, Parents, Height

LEMMA AstTablesAbove == \A t \in DOMAIN AstTables : Above(t, AstTables[t])
BY DEF AstTables, Refers, Above, Parents, Height

LEMMA GraphTablesAbove == \A t \in DOMAIN GraphTables : Above(t, GraphTables[t])
BY DEF GraphTables, Refers, Above, Parents, Height

LEMMA ClaimTablesAbove == \A t \in DOMAIN ClaimTables : Above(t, ClaimTables[t])
BY DEF ClaimTables, Refers, Above, Parents, Height

LEMMA ClusterTablesAbove == \A t \in DOMAIN ClusterTables : Above(t, ClusterTables[t])
BY DEF ClusterTables, Refers, Above, Parents, Height

LEMMA TestTablesAbove == \A t \in DOMAIN TestTables : Above(t, TestTables[t])
BY DEF TestTables, Refers, Above, Parents, Height

LEMMA ParentsAreTables == Parents \subseteq Tables
<1>1. {"rules", "rule_versions", "rule_evidence"} \subseteq DOMAIN RuleTables
  BY DEF RuleTables
<1>2. {"classification_overrides", "analysis_versions", "scan_configs",
      "source_locations", "scan_runs", "source_files"} \subseteq DOMAIN ScanTables
  BY DEF ScanTables
<1>3. {"source_symbols", "coverage_reports", "coverage_files", "coverage_lines",
      "test_cases"} \subseteq DOMAIN SourceTables
  BY DEF SourceTables
<1>4. {"runtime_evidence_imports", "analysis_manifests"} \subseteq DOMAIN RunTables
  BY DEF RunTables
<1>5. {"runtime_events"} \subseteq DOMAIN EventTables
  BY DEF EventTables
<1>6. {"ai_task_runs"} \subseteq DOMAIN AiTables
  BY DEF AiTables
<1>7. {"ast_parse_runs", "ast_payloads", "ast_documents"} \subseteq DOMAIN AstTables
  BY DEF AstTables
<1>8. {"graph_provider_runs", "graph_nodes", "graph_edges"} \subseteq DOMAIN GraphTables
  BY DEF GraphTables
<1>9. {"source_claims"} \subseteq DOMAIN ClaimTables
  BY DEF ClaimTables
<1>10. {"claim_clusters"} \subseteq DOMAIN ClusterTables
  BY DEF ClusterTables
<1>11. {"test_evidence_cases", "bdd_features", "bdd_scenarios", "bdd_steps"} \subseteq DOMAIN TestTables
  BY DEF TestTables
<1>12. \A g \in ForeignKeys : DOMAIN g \subseteq Tables
  BY DEF Tables
<1>13. QED
  BY <1>1, <1>2, <1>3, <1>4, <1>5, <1>6, <1>7, <1>8, <1>9, <1>10, <1>11, <1>12 DEF Parents, ForeignKeys

LEMMA TablesAbove ==
    ASSUME NEW t \in Tables
    PROVE  /\ Needs(t) \subseteq Tables /\ May(t) \subseteq Tables
           /\ \A p \in Needs(t) : Height(p) < Height(t)
<1>1. \A g \in ForeignKeys : \A x \in DOMAIN g : Above(x, g[x])
  BY RuleTablesAbove, ReviewTablesAbove, ScanTablesAbove, SourceTablesAbove, RunTablesAbove, EventTablesAbove, AiTablesAbove, TraceTablesAbove, AstTablesAbove, GraphTablesAbove, ClaimTablesAbove, ClusterTablesAbove, TestTablesAbove DEF ForeignKeys
<1>2. \A k \in KeysOf(t) : Above(t, k)
  BY <1>1 DEF KeysOf
<1>3. QED
  BY <1>2, ParentsAreTables DEF Needs, May, Above

\* A set of tables and what they need.
WithNeeds(ts) == ts \cup UNION {Needs(t) : t \in ts}

\* The tables of a set whose needs are missing are less than n high.
Open(ts, n) == ts \subseteq Tables /\ \A t \in ts : Needs(t) \subseteq ts \/ Height(t) < n

LEMMA OneLevel ==
    ASSUME NEW ts, NEW n \in Int, Open(ts, n)
    PROVE  ts \subseteq WithNeeds(ts) /\ Open(WithNeeds(ts), n - 1)
<1>1. ts \subseteq WithNeeds(ts) /\ \A t \in ts : Needs(t) \subseteq WithNeeds(ts)
  BY DEF WithNeeds
<1>2. ASSUME NEW x \in WithNeeds(ts), x \notin ts PROVE x \in Tables /\ Height(x) < n - 1
  <2>1. PICK t \in ts : x \in Needs(t)
    BY <1>2 DEF WithNeeds
  <2>2. t \in Tables /\ Height(t) < n
    BY <1>2, <2>1 DEF Open
  <2>3. x \in Tables /\ Height(x) < Height(t)
    BY <2>1, <2>2, TablesAbove
  <2>4. QED
    BY <2>2, <2>3, HeightType
<1>3. QED
  BY <1>1, <1>2 DEF Open

\* The recursion of WithParents.
Climbs(f, ts) ==
    f = [n \in 0..5 |-> IF n = 0 THEN ts ELSE f[n - 1] \cup UNION {Needs(t) : t \in f[n - 1]}]

LEMMA WithParentsIs ==
    ASSUME NEW ts
    PROVE  \E f : Climbs(f, ts) /\ WithParents(ts) = f[5]
<1> DEFINE s1 == WithNeeds(ts)
           s2 == WithNeeds(s1)
           s3 == WithNeeds(s2)
           s4 == WithNeeds(s3)
           s5 == WithNeeds(s4)
           g == [n \in 0..5 |-> IF n = 0 THEN ts ELSE IF n = 1 THEN s1 ELSE IF n = 2 THEN s2
                                ELSE IF n = 3 THEN s3 ELSE IF n = 4 THEN s4 ELSE s5]
           val(n) == IF n = 0 THEN ts ELSE WithNeeds(g[n - 1])
<1>1. Climbs(g, ts)
  <2>1. s2 = WithNeeds(s1) /\ s3 = WithNeeds(s2) /\ s4 = WithNeeds(s3) /\ s5 = WithNeeds(s4)
    OBVIOUS
  <2>2. s1 = WithNeeds(ts)
    OBVIOUS
  <2> HIDE DEF s1, s2, s3, s4, s5
  <2>3. \A n \in 0..5 : g[n] = val(n)
    BY <2>1, <2>2
  <2> HIDE DEF val
  <2>4. g = [n \in 0..5 |-> val(n)]
    BY <2>3
  <2>5. QED
    BY <2>4 DEF Climbs, val, WithNeeds
<1>2. QED
  <2> DEFINE up == CHOOSE f : f = [n \in 0..5 |->
                      IF n = 0 THEN ts ELSE f[n - 1] \cup UNION {Needs(t) : t \in f[n - 1]}]
  <2>1. WithParents(ts) = up[5]
    BY DEF WithParents
  <2>2. up = [n \in 0..5 |-> IF n = 0 THEN ts ELSE up[n - 1] \cup UNION {Needs(t) : t \in up[n - 1]}]
    BY <1>1 DEF Climbs
  <2> HIDE DEF up
  <2>3. Climbs(up, ts)
    BY <2>2 DEF Climbs
  <2>4. QED
    BY <2>1, <2>3

\* The tables a project has rows of have rows of all that they need.
LEMMA WithParentsCloses ==
    ASSUME NEW ts, ts \subseteq Tables
    PROVE  /\ ts \subseteq WithParents(ts) /\ WithParents(ts) \subseteq Tables
           /\ \A t \in WithParents(ts) : Needs(t) \subseteq WithParents(ts)
<1>1. PICK f : Climbs(f, ts) /\ WithParents(ts) = f[5]
  BY WithParentsIs
<1>2. f[0] = ts /\ \A n \in 1..5 : f[n] = WithNeeds(f[n - 1])
  <2>1. \A n \in 0..5 : f[n] = IF n = 0 THEN ts ELSE f[n - 1] \cup UNION {Needs(t) : t \in f[n - 1]}
    BY <1>1 DEF Climbs
  <2>2. QED
    BY <2>1 DEF WithNeeds
<1>3. f[1] = WithNeeds(f[0]) /\ f[2] = WithNeeds(f[1]) /\ f[3] = WithNeeds(f[2])
      /\ f[4] = WithNeeds(f[3]) /\ f[5] = WithNeeds(f[4])
  <2>1. \A n \in 1..5 : f[n] = WithNeeds(f[n - 1])
    BY <1>2
  <2>2. QED
    BY <2>1
<1>4. Open(f[0], 5)
  BY <1>2, HeightType DEF Open
<1>5. f[0] \subseteq f[1] /\ Open(f[1], 4)
  BY <1>3, <1>4, OneLevel
<1>6. f[1] \subseteq f[2] /\ Open(f[2], 3)
  BY <1>3, <1>5, OneLevel
<1>7. f[2] \subseteq f[3] /\ Open(f[3], 2)
  BY <1>3, <1>6, OneLevel
<1>8. f[3] \subseteq f[4] /\ Open(f[4], 1)
  BY <1>3, <1>7, OneLevel
<1>9. f[4] \subseteq f[5] /\ Open(f[5], 0)
  BY <1>3, <1>8, OneLevel
<1>10. \A t \in f[5] : Needs(t) \subseteq f[5]
  BY <1>9, HeightType DEF Open
<1>11. QED
  BY <1>1, <1>2, <1>5, <1>6, <1>7, <1>8, <1>9, <1>10 DEF Open

LEMMA InitIsContent == Init => Content
<1> SUFFICES ASSUME Init PROVE Content
  OBVIOUS
<1>1. PICK t \in Tables : \E parents \in SUBSET May(t) :
          /\ rows = WithParents({t} \cup parents)
          /\ refs = {t} \X parents
  BY DEF Init
<1>2. PICK parents \in SUBSET May(t) :
          /\ rows = WithParents({t} \cup parents)
          /\ refs = {t} \X parents
  BY <1>1
<1> DEFINE ts == {t} \cup parents
<1>3. ts \subseteq Tables
  BY <1>2, TablesAbove
<1>4. ts \subseteq rows /\ rows \subseteq Tables /\ \A x \in rows : Needs(x) \subseteq rows
  <2> HIDE DEF ts
  <2>1. QED
    BY <1>2, <1>3, WithParentsCloses DEF ts
<1>5. refs \subseteq rows \X rows /\ \A r \in refs : r[2] \in May(r[1])
  BY <1>2, <1>4
<1>6. QED
  BY <1>4, <1>5 DEF Init, Content

\* purge_analysis_outputs is never refused because of a table that it empties
\* itself.
THEOREM AnalysisOrderFits == Spec => []AnalysisOrderIsSafe
BY InitIsContent, OrderFitsAnyContent, PTL DEF Spec, AnyContent

\* References between its own tables refuse the demo purge at graph_nodes only:
\* a remedy of that one place makes its order right.
THEOREM DemoOrderFits == Spec => []DemoOrderSafeButForNodes
BY InitIsContent, DemoOrderFitsAnyContent, PTL DEF Spec, AnyContent
=============================================================================
