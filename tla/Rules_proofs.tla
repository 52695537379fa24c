---------------------------- MODULE Rules_proofs ----------------------------
(***************************************************************************)
(* The rule tables stay well formed, lineage explains every move of         *)
(* evidence, decisions stand, merges open no gap, the groups of duplicates  *)
(* are whole, and observations only corroborate: for any rules, rows,       *)
(* requests, sessions and bounds.                                          *)
(***************************************************************************)
EXTENDS Rules, FiniteInduction

\* What a transaction has read stays true of it: a superseding one knows its
\* old rule, and each row a merge is about to move belongs, as far as lineage
\* goes, to a rule that is merged.
WorkIsSound ==
    \A s \in Sessions :
        work[s] # None =>
            /\ work[s].op = "supersede" => work[s].from # {}
            /\ \A e \in work[s].rows :
                  /\ work[s].op = "merge" /\ owner[e] # None
                  /\ \E r \in work[s].from : LeadsTo(found[e], r)

AttachedSound ==
    \A e \in Rows :
        /\ owner[e] = None => found[e] = None
        /\ owner[e] # None => LeadsTo(found[e], owner[e])

DeprecatedSound ==
    \A r \in DOMAIN rules :
        rules[r].status = "deprecated" => r \in dropped \/ \E l \in lineage : l.from = r

ParentSound ==
    \A r \in DOMAIN rules :
        rules[r].parent # None => \E l \in audit \cap lineage : {l.from, l.to} = {r, rules[r].parent}

RulesInv == RulesTypeOK /\ WorkIsSound /\ AttachedSound /\ DeprecatedSound /\ ParentSound

-----------------------------------------------------------------------------
\* Rules are never deleted, and neither a request, a scan nor a review touches
\* what is not its own: the variables of RulesTypeOK, action by action.

LEMMA TypeInit == RulesInit => RulesTypeOK
BY RulesAssumption DEF RulesInit, RulesTypeOK, NewRule, RuleStatus, Rows

\* A request reads rules that exist.
LEMMA TypeBegin ==
    ASSUME RulesTypeOK, NEW s \in Sessions, NEW op,
           op \in [op : {"merge", "identity", "supersede"}, to : DOMAIN rules,
                   from : SUBSET DOMAIN rules, rows : SUBSET Rows],
           Begin(s, op)
    PROVE  RulesTypeOK'
BY DEF Begin, RulesTypeOK, Rows

LEMMA TypeCommit ==
    ASSUME RulesTypeOK, NEW s \in Sessions, Commit(s),
           work[s].op = "supersede" => work[s].from # {}
    PROVE  RulesTypeOK'
<1> DEFINE w == work[s]
<1>1. /\ w \in [op : {"merge", "identity", "supersede"}, to : DOMAIN rules,
                from : SUBSET DOMAIN rules, rows : SUBSET Rows]
      /\ rules' = Merged(w) /\ owner' = Moved(w) /\ lineage' = lineage \cup Lineage(w)
      /\ work' = [work EXCEPT ![s] = None] /\ found' = found
  BY DEF Commit, RulesTypeOK
<1> HIDE DEF w
<1>2. DOMAIN rules' = DOMAIN rules
  BY <1>1 DEF Merged
<1>3. \A r \in DOMAIN rules :
         rules'[r] \in [status : RuleStatus, retired : BOOLEAN,
                        parent : DOMAIN rules \cup {None}, fingerprint : Fingerprints]
  <2> TAKE r \in DOMAIN rules
  <2> DEFINE Rule  == [status : RuleStatus, retired : BOOLEAN,
                       parent : DOMAIN rules \cup {None}, fingerprint : Fingerprints]
             base  == IF r \in w.from THEN Deprecated(rules[r], w.op = "merge") ELSE rules[r]
             old   == CHOOSE o \in w.from : TRUE
  <2>1. rules[r] \in Rule
    BY DEF RulesTypeOK
  <2>2. base \in Rule
    BY <2>1 DEF Deprecated, RuleStatus
  <2>3. [base EXCEPT !.parent = w.to] \in Rule
    BY <2>2, <1>1
  <2>4. w.op = "supersede" => [base EXCEPT !.parent = old] \in Rule
    <3>1. w.op = "supersede" => old \in w.from
      BY DEF w
    <3>2. w.op = "supersede" => old \in DOMAIN rules
      BY <3>1, <1>1
    <3> HIDE DEF old, base
    <3>3. QED
      BY <3>2, <2>2
  <2>5. rules'[r] = IF w.op = "identity" /\ r \in w.from THEN [base EXCEPT !.parent = w.to]
                    ELSE IF w.op = "supersede" /\ r = w.to THEN [base EXCEPT !.parent = old] ELSE base
    BY <1>1 DEF Merged
  <2> HIDE DEF old, base
  <2>6. QED
    BY <2>2, <2>3, <2>4, <2>5
<1>4. rules' \in [DOMAIN rules' -> [status : RuleStatus, retired : BOOLEAN,
                                    parent : DOMAIN rules' \cup {None}, fingerprint : Fingerprints]]
  BY <1>1, <1>2, <1>3 DEF Merged
<1>5. {owner', found'} \subseteq [Rows -> DOMAIN rules' \cup {None}]
  BY <1>1, <1>2 DEF Moved, RulesTypeOK
<1>6. lineage' \subseteq [from : DOMAIN rules', to : DOMAIN rules', relation : {"supersedes", "merged_into"}]
  BY <1>1, <1>2 DEF Lineage, RulesTypeOK
<1>7. QED
  BY <1>1, <1>2, <1>4, <1>5, <1>6 DEF RulesTypeOK, Rows

\* The successor is a new rule; the old ones keep their rows.
LEMMA TypeRescan ==
    ASSUME RulesTypeOK, NEW r \in RuleIds, NEW print \in Fingerprints, Rescan(r, print)
    PROVE  RulesTypeOK'
<1> DEFINE Rule(D) == [status : RuleStatus, retired : BOOLEAN, parent : D \cup {None}, fingerprint : Fingerprints]
<1>1. PICK q \in DOMAIN rules :
         rules' = [p \in DOMAIN rules \cup {r} |->
                     IF p = r THEN NewRule(IF CarriesReview(rules[q], print) THEN rules[q].status
                                           ELSE "candidate", print)
                     ELSE rules[p]]
  BY DEF Rescan, Predecessors
<1>2. DOMAIN rules' = DOMAIN rules \cup {r}
  BY <1>1
<1>3. \A p \in DOMAIN rules : rules[p] \in Rule(DOMAIN rules')
  BY <1>2 DEF RulesTypeOK
<1>4. NewRule(IF CarriesReview(rules[q], print) THEN rules[q].status ELSE "candidate", print)
        \in Rule(DOMAIN rules')
  BY DEF NewRule, RulesTypeOK, RuleStatus
<1>5. rules' \in [DOMAIN rules' -> Rule(DOMAIN rules')]
  BY <1>1, <1>2, <1>3, <1>4
<1>6. UNCHANGED <<owner, found, lineage, work>> /\ DOMAIN rules \subseteq DOMAIN rules'
  BY <1>2 DEF Rescan
<1>7. /\ {owner', found'} \subseteq [Rows -> DOMAIN rules' \cup {None}]
      /\ lineage' \subseteq [from : DOMAIN rules', to : DOMAIN rules', relation : {"supersedes", "merged_into"}]
      /\ work' \in [Sessions -> {None} \cup
                      [op : {"merge", "identity", "supersede"}, to : DOMAIN rules',
                       from : SUBSET DOMAIN rules', rows : SUBSET Rows]]
  BY <1>6 DEF RulesTypeOK
<1>8. QED
  BY <1>2, <1>5, <1>7 DEF RulesTypeOK, Rows

LEMMA TypeReview ==
    ASSUME RulesTypeOK, NEW r \in RuleIds, NEW status \in ReviewOutcomes,
           Review(r, status)
    PROVE  RulesTypeOK'
<1>1. rules' = [rules EXCEPT ![r].status = status] /\ r \in DOMAIN rules
  BY DEF Review
<1>2. \A q \in DOMAIN rules :
         rules'[q] \in [status : RuleStatus, retired : BOOLEAN,
                        parent : DOMAIN rules \cup {None}, fingerprint : Fingerprints]
  BY <1>1 DEF RulesTypeOK, RuleStatus, ReviewOutcomes
<1>3. DOMAIN rules' = DOMAIN rules
  BY <1>1
<1>4. QED
  BY <1>1, <1>2, <1>3 DEF RulesTypeOK, Review, Rows

-----------------------------------------------------------------------------
\* Lineage only grows, so that what it leads to it leads to for good.

LEMMA LineageInit == RulesInit => WorkIsSound /\ AttachedSound /\ DeprecatedSound /\ ParentSound
BY RulesAssumption DEF RulesInit, WorkIsSound, AttachedSound, DeprecatedSound, ParentSound, NewRule, LeadsTo, Rows

LEMMA LineageBegin ==
    ASSUME RulesInv, NEW s \in Sessions, NEW op, Begin(s, op),
           op.op = "supersede" => op.from # {},
           \A e \in op.rows : op.op = "merge" /\ e \in Rows /\ owner[e] \in op.from /\ owner[e] # None
    PROVE  (WorkIsSound /\ AttachedSound /\ DeprecatedSound /\ ParentSound)'
<1>1. /\ work' = [work EXCEPT ![s] = op] /\ work \in [Sessions -> {None} \cup
            [op : {"merge", "identity", "supersede"}, to : DOMAIN rules,
             from : SUBSET DOMAIN rules, rows : SUBSET Rows]]
      /\ UNCHANGED <<rules, owner, lineage, audit, dropped, found>>
  BY DEF Begin, RulesInv, RulesTypeOK
<1>2. WorkIsSound'
  <2> SUFFICES ASSUME NEW t \in Sessions, work'[t] # None
               PROVE  /\ work'[t].op = "supersede" => work'[t].from # {}
                      /\ \A e \in work'[t].rows :
                            /\ work'[t].op = "merge" /\ owner[e] # None
                            /\ \E r \in work'[t].from : LeadsTo(found[e], r)
    BY <1>1 DEF WorkIsSound, LeadsTo
  <2>1. CASE t = s
    BY <1>1, <2>1 DEF RulesInv, AttachedSound
  <2>2. CASE t # s
    BY <1>1, <2>2 DEF RulesInv, WorkIsSound
  <2>3. QED
    BY <2>1, <2>2
<1>3. QED
  BY <1>1, <1>2 DEF RulesInv, AttachedSound, DeprecatedSound, ParentSound, LeadsTo

\* The rows of the merge led to a merged rule, and from there now to its target.
LEMMA LineageCommit ==
    ASSUME RulesInv, NEW s \in Sessions, Commit(s)
    PROVE  (WorkIsSound /\ AttachedSound /\ DeprecatedSound /\ ParentSound)'
<1> DEFINE w == work[s]
<1>1. /\ w \in [op : {"merge", "identity", "supersede"}, to : DOMAIN rules,
                from : SUBSET DOMAIN rules, rows : SUBSET Rows]
      /\ rules' = Merged(w) /\ owner' = Moved(w) /\ lineage' = lineage \cup Lineage(w)
      /\ audit' = audit \cup Audited(w) /\ work' = [work EXCEPT ![s] = None]
      /\ found' = found /\ dropped' = dropped
  BY DEF Commit, RulesInv, RulesTypeOK
<1>2. /\ w.op = "supersede" => w.from # {}
      /\ \A e \in w.rows : /\ w.op = "merge" /\ owner[e] # None
                           /\ \E r \in w.from : LeadsTo(found[e], r)
  BY DEF Commit, RulesInv, WorkIsSound
<1>3. w.to # None /\ work \in [Sessions -> {None} \cup
            [op : {"merge", "identity", "supersede"}, to : DOMAIN rules,
             from : SUBSET DOMAIN rules, rows : SUBSET Rows]]
  BY <1>1, RulesAssumption DEF RulesInv, RulesTypeOK
<1> HIDE DEF w
<1>4. \A r, q : LeadsTo(r, q) => LeadsTo(r, q)'
  BY <1>1 DEF LeadsTo
<1>5. WorkIsSound'
  <2> SUFFICES ASSUME NEW t \in Sessions, work'[t] # None
               PROVE  /\ work'[t].op = "supersede" => work'[t].from # {}
                      /\ \A e \in work'[t].rows :
                            /\ work'[t].op = "merge" /\ owner'[e] # None
                            /\ \E r \in work'[t].from : LeadsTo(found[e], r)'
    BY <1>1 DEF WorkIsSound
  <2>1. work'[t] = work[t] /\ work[t] # None
    BY <1>1, <1>3
  <2>2. ASSUME NEW e \in work[t].rows
        PROVE  /\ work[t].op = "merge" /\ owner'[e] # None
               /\ \E r \in work[t].from : LeadsTo(found[e], r)'
    <3>1. work[t].op = "merge" /\ owner[e] # None /\ e \in Rows
      BY <2>1, <2>2, <1>3 DEF RulesInv, WorkIsSound
    <3>2. PICK r \in work[t].from : LeadsTo(found[e], r)
      BY <2>1, <2>2 DEF RulesInv, WorkIsSound
    <3>3. LeadsTo(found[e], r)'
      BY <3>2, <1>1 DEF LeadsTo
    <3>4. QED
      BY <3>1, <3>2, <3>3, <1>1, <1>3 DEF Moved
  <2>3. QED
    BY <2>1, <2>2 DEF RulesInv, WorkIsSound
<1>6. AttachedSound'
  <2> SUFFICES ASSUME NEW e \in Rows
               PROVE  /\ owner'[e] = None => found[e] = None
                      /\ owner'[e] # None => LeadsTo(found[e], owner[e])'
    BY <1>1 DEF AttachedSound, LeadsTo
  <2>1. CASE e \in w.rows
    <3>1. PICK r \in w.from : LeadsTo(found[e], r)
      BY <2>1, <1>2
    <3>2. [from |-> r, to |-> w.to, relation |-> "merged_into"] \in lineage'
      BY <1>1, <1>2, <2>1 DEF Lineage
    <3>3. owner'[e] = w.to
      BY <1>1, <2>1 DEF Moved
    <3>4. QED
      BY <1>1, <1>3, <3>1, <3>2, <3>3 DEF LeadsTo
  <2>2. CASE e \notin w.rows
    BY <1>1, <2>2 DEF RulesInv, AttachedSound, Moved, LeadsTo
  <2>3. QED
    BY <2>1, <2>2
<1>7. ASSUME NEW r \in w.from
      PROVE  \E l \in Lineage(w) : l.from = r /\ l.to = w.to
  <2> DEFINE l == [from |-> r, to |-> w.to,
                   relation |-> IF w.op = "supersede" THEN "supersedes" ELSE "merged_into"]
  <2>1. l \in Lineage(w)
    BY DEF Lineage
  <2>2. QED
    BY <2>1
<1>8. DeprecatedSound'
  <2> SUFFICES ASSUME NEW r \in DOMAIN rules, r \notin w.from
               PROVE  rules'[r].status = rules[r].status
    BY <1>1, <1>7 DEF RulesInv, DeprecatedSound, Merged
  <2>1. QED
    BY <1>1 DEF Merged
<1>9. ParentSound'
  <2> SUFFICES ASSUME NEW r \in DOMAIN rules, rules'[r].parent # None
               PROVE  \E l \in audit' \cap lineage' : {l.from, l.to} = {r, rules'[r].parent}
    BY <1>1 DEF ParentSound, Merged
  <2>1. CASE w.op = "identity" /\ r \in w.from
    BY <1>1, <1>7, <2>1 DEF Merged, Audited
  <2>2. CASE w.op = "supersede" /\ r = w.to
    <3> DEFINE old  == CHOOSE o \in w.from : TRUE
               base == IF r \in w.from THEN Deprecated(rules[r], w.op = "merge") ELSE rules[r]
    <3>1. old \in w.from
      BY <1>2, <2>2
    <3>2. base \in [status : RuleStatus, retired : BOOLEAN,
                    parent : DOMAIN rules \cup {None}, fingerprint : Fingerprints]
      <4>1. rules[r] \in [status : RuleStatus, retired : BOOLEAN,
                          parent : DOMAIN rules \cup {None}, fingerprint : Fingerprints]
        BY DEF RulesInv, RulesTypeOK
      <4>2. QED
        BY <4>1 DEF Deprecated, RuleStatus
    <3>3. rules'[r] = [base EXCEPT !.parent = old]
      BY <1>1, <2>2 DEF Merged
    <3> HIDE DEF old, base
    <3>4. rules'[r].parent = old
      BY <3>2, <3>3
    <3>5. QED
      BY <1>1, <1>7, <2>2, <3>1, <3>4 DEF Audited
  <2>3. CASE ~(w.op = "identity" /\ r \in w.from) /\ ~(w.op = "supersede" /\ r = w.to)
    <3>1. rules'[r] = IF r \in w.from THEN Deprecated(rules[r], w.op = "merge") ELSE rules[r]
      BY <1>1, <2>3 DEF Merged
    <3>2. rules'[r].parent = rules[r].parent
      BY <1>1, <3>1 DEF Deprecated, RulesInv, RulesTypeOK
    <3>3. QED
      BY <3>2, <1>1 DEF RulesInv, ParentSound
  <2>4. QED
    BY <2>1, <2>2, <2>3
<1>10. QED
  BY <1>5, <1>6, <1>8, <1>9

LEMMA LineageAttach ==
    ASSUME RulesInv, NEW e \in Rows, NEW r \in RuleIds, Attach(e, r)
    PROVE  (WorkIsSound /\ AttachedSound /\ DeprecatedSound /\ ParentSound)'
<1>1. /\ owner[e] = None /\ r # None
      /\ owner' = [owner EXCEPT ![e] = r] /\ found' = [found EXCEPT ![e] = r]
      /\ UNCHANGED <<rules, lineage, audit, dropped, work>>
      /\ owner \in [Rows -> DOMAIN rules \cup {None}] /\ found \in [Rows -> DOMAIN rules \cup {None}]
  BY RulesAssumption DEF Attach, RulesInv, RulesTypeOK
<1>2. \A f \in Rows : f # e => owner'[f] = owner[f] /\ found'[f] = found[f]
  BY <1>1
<1>3. \A s \in Sessions : work[s] # None => work[s].rows \subseteq Rows
  BY DEF RulesInv, RulesTypeOK
<1>4. WorkIsSound'
  BY <1>1, <1>2, <1>3 DEF RulesInv, WorkIsSound, LeadsTo
<1>5. AttachedSound'
  BY <1>1, <1>2 DEF RulesInv, AttachedSound, LeadsTo
<1>6. QED
  BY <1>1, <1>4, <1>5 DEF RulesInv, DeprecatedSound, ParentSound

\* What is carried over is never a deprecation.
LEMMA LineageRescan ==
    ASSUME RulesInv, NEW r \in RuleIds, NEW print \in Fingerprints, Rescan(r, print)
    PROVE  (WorkIsSound /\ AttachedSound /\ DeprecatedSound /\ ParentSound)'
<1>1. PICK q \in DOMAIN rules :
         rules' = [p \in DOMAIN rules \cup {r} |->
                     IF p = r THEN NewRule(IF CarriesReview(rules[q], print) THEN rules[q].status
                                           ELSE "candidate", print)
                     ELSE rules[p]]
  BY DEF Rescan, Predecessors
<1>2. r \notin DOMAIN rules /\ UNCHANGED <<owner, lineage, audit, dropped, work, found>>
  BY DEF Rescan
<1>3. /\ \A p \in DOMAIN rules' : p # r => p \in DOMAIN rules /\ rules'[p] = rules[p]
      /\ rules'[r].status # "deprecated" /\ rules'[r].parent = None
  BY <1>1 DEF NewRule, CarriesReview
<1>4. WorkIsSound' /\ AttachedSound'
  BY <1>2 DEF RulesInv, WorkIsSound, AttachedSound, LeadsTo
<1>5. DeprecatedSound' /\ ParentSound'
  BY <1>2, <1>3 DEF RulesInv, DeprecatedSound, ParentSound
<1>6. QED
  BY <1>4, <1>5

LEMMA LineageReview ==
    ASSUME RulesInv, NEW r \in RuleIds, NEW status \in ReviewOutcomes,
           Review(r, status)
    PROVE  (WorkIsSound /\ AttachedSound /\ DeprecatedSound /\ ParentSound)'
<1>1. /\ rules' = [rules EXCEPT ![r].status = status] /\ r \in DOMAIN rules
      /\ UNCHANGED <<owner, lineage, audit, work, found>>
      /\ dropped \subseteq dropped' /\ (status = "deprecated" => r \in dropped')
  BY DEF Review
<1>2. /\ DOMAIN rules' = DOMAIN rules
      /\ \A q \in DOMAIN rules : /\ rules'[q].parent = rules[q].parent
                                 /\ rules'[q].status \in {rules[q].status, status}
                                 /\ q # r => rules'[q].status = rules[q].status
      /\ rules'[r].status = status
  BY <1>1 DEF RulesInv, RulesTypeOK
<1>3. WorkIsSound' /\ AttachedSound'
  BY <1>1 DEF RulesInv, WorkIsSound, AttachedSound, LeadsTo
<1>4. DeprecatedSound'
  BY <1>1, <1>2 DEF RulesInv, DeprecatedSound
<1>5. ParentSound'
  BY <1>1, <1>2 DEF RulesInv, ParentSound
<1>6. QED
  BY <1>3, <1>4, <1>5

-----------------------------------------------------------------------------
LEMMA RulesStep == ASSUME RulesInv, [RulesNext]_ruleVars PROVE RulesInv'
<1> DEFINE Sound == WorkIsSound /\ AttachedSound /\ DeprecatedSound /\ ParentSound
           Ops   == [op : {"merge", "identity", "supersede"}, to : DOMAIN rules,
                     from : SUBSET DOMAIN rules, rows : SUBSET Rows]
<1>1. RulesTypeOK /\ None \notin DOMAIN rules
  BY RulesAssumption DEF RulesInv, RulesTypeOK
<1>2. ASSUME NEW s \in Sessions, NEW to, NEW from, BeginMerge(s, to, from)
      PROVE  RulesInv'
  <2> DEFINE op == [op |-> "merge", to |-> to, from |-> from \ {to},
                    rows |-> {e \in Rows : owner[e] \in from \ {to}}]
  <2>1. op \in Ops /\ Begin(s, op)
    BY <1>2 DEF BeginMerge
  <2>2. \A e \in op.rows : op.op = "merge" /\ e \in Rows /\ owner[e] \in op.from /\ owner[e] # None
    BY <1>1, <2>1
  <2> HIDE DEF op
  <2>3. op.op = "supersede" => op.from # {}
    BY DEF op
  <2>4. QED
    BY <1>1, <2>1, <2>2, <2>3, TypeBegin, LineageBegin DEF RulesInv
<1>3. ASSUME NEW s \in Sessions, NEW to, NEW r, BeginIdentityMerge(s, to, r)
      PROVE  RulesInv'
  <2> DEFINE op == [op |-> "identity", to |-> to, from |-> {r}, rows |-> {}]
  <2>1. op \in Ops /\ Begin(s, op) /\ op.rows = {} /\ op.op # "supersede"
    BY <1>3 DEF BeginIdentityMerge
  <2> HIDE DEF op
  <2>2. QED
    BY <1>1, <2>1, TypeBegin, LineageBegin DEF RulesInv
<1>4. ASSUME NEW s \in Sessions, NEW to, NEW r, BeginSupersede(s, r, to)
      PROVE  RulesInv'
  <2> DEFINE op == [op |-> "supersede", to |-> to, from |-> {r}, rows |-> {}]
  <2>1. op \in Ops /\ Begin(s, op) /\ op.rows = {} /\ op.from # {}
    BY <1>4 DEF BeginSupersede
  <2> HIDE DEF op
  <2>2. QED
    BY <1>1, <2>1, TypeBegin, LineageBegin DEF RulesInv
<1>5. ASSUME NEW s \in Sessions, Commit(s) PROVE RulesInv'
  <2>1. work[s].op = "supersede" => work[s].from # {}
    BY <1>5 DEF Commit, RulesInv, WorkIsSound
  <2>2. QED
    BY <1>1, <1>5, <2>1, TypeCommit, LineageCommit DEF RulesInv
<1>6. ASSUME NEW s \in Sessions, Abort(s) PROVE RulesInv'
  <2>1. /\ work' = [work EXCEPT ![s] = None]
        /\ UNCHANGED <<rules, owner, lineage, audit, dropped, found>>
    BY <1>6 DEF Abort
  <2>2. \A t \in Sessions : work'[t] # None => work'[t] = work[t]
    BY <2>1 DEF RulesInv, RulesTypeOK
  <2>3. RulesTypeOK'
    BY <1>1, <2>1 DEF RulesTypeOK, Rows
  <2>4. WorkIsSound'
    BY <2>1, <2>2 DEF RulesInv, WorkIsSound, LeadsTo
  <2>5. QED
    BY <2>1, <2>3, <2>4 DEF RulesInv, AttachedSound, DeprecatedSound, ParentSound, LeadsTo
<1>7. ASSUME NEW e \in Rows, NEW r \in RuleIds, Attach(e, r) PROVE RulesInv'
  <2>1. RulesTypeOK'
    BY <1>1, <1>7 DEF Attach, RulesTypeOK, Rows
  <2>2. QED
    BY <1>7, <2>1, LineageAttach DEF RulesInv
<1>8. ASSUME NEW r \in RuleIds, NEW print \in Fingerprints, Rescan(r, print) PROVE RulesInv'
  BY <1>1, <1>8, TypeRescan, LineageRescan DEF RulesInv
<1>9. ASSUME NEW r \in RuleIds, NEW status \in ReviewOutcomes,
             Review(r, status)
      PROVE  RulesInv'
  BY <1>1, <1>9, TypeReview, LineageReview DEF RulesInv
<1>10. ASSUME UNCHANGED <<rules, owner, lineage, audit, dropped, work, found>> PROVE RulesInv'
  <2>1. RulesTypeOK'
    BY <1>1, <1>10 DEF RulesTypeOK, Rows
  <2>2. WorkIsSound' /\ AttachedSound'
    BY <1>10 DEF RulesInv, WorkIsSound, AttachedSound, LeadsTo, Rows
  <2>3. DeprecatedSound' /\ ParentSound'
    BY <1>10 DEF RulesInv, DeprecatedSound, ParentSound
  <2>4. QED
    BY <2>1, <2>2, <2>3 DEF RulesInv
<1>11. ASSUME Reclassify \/ Suggest
              \/ \E edge \in DOMAIN suggested, status \in {"accepted", "rejected"} : Decide(edge, status)
       PROVE  UNCHANGED <<rules, owner, lineage, audit, dropped, work, found>>
  BY <1>11 DEF Reclassify, Suggest, Decide
<1>12. QED
  BY <1>2, <1>3, <1>4, <1>5, <1>6, <1>7, <1>8, <1>9, <1>10, <1>11 DEF RulesNext, ruleVars

THEOREM RulesInvariant == RulesSpec => []RulesInv
<1>1. RulesInit => RulesInv
  BY TypeInit, LineageInit DEF RulesInv
<1>2. QED
  BY <1>1, RulesStep, PTL DEF RulesSpec

\* The rule tables stay well formed: rules, evidence, lineage and transactions
\* name rules there are.
THEOREM RulesAreTyped == RulesSpec => []RulesTypeOK
BY RulesInvariant, PTL DEF RulesInv

\* Lineage explains every move of evidence, every deprecation and every parent,
\* however merges, supersessions, scans and reviews overlap.
THEOREM LineageExplains == RulesSpec => []LineageIsSound
<1>1. RulesInv => LineageIsSound
  <2> SUFFICES ASSUME RulesInv PROVE LineageIsSound
    OBVIOUS
  <2>1. ASSUME NEW e \in Rows, owner[e] # found[e] PROVE LeadsTo(found[e], owner[e])
    BY <2>1 DEF RulesInv, AttachedSound
  <2>2. QED
    BY <2>1 DEF LineageIsSound, RulesInv, DeprecatedSound, ParentSound
<1>2. QED
  BY <1>1, RulesInvariant, PTL

-----------------------------------------------------------------------------
(***************************************************************************)
(* Decisions of reviewers                                                  *)
(***************************************************************************)

\* A review was about the fingerprint its rule still has, or about none.
BasisIsCurrent ==
    /\ basis \in [RuleIds -> Fingerprints \cup {None}]
    /\ \A r \in DOMAIN rules : basis[r] \in {rules[r].fingerprint, None}

DecisionsInv == RulesInv /\ BasisIsCurrent

\* What a step may do to decisions.
Standing ==
    /\ \A edge \in DOMAIN suggested :
          suggested[edge] = "rejected" => suggested'[edge] = "rejected"
    /\ \A r \in DOMAIN rules' \ DOMAIN rules :
          rules'[r].status = "approved" => basis'[r] \in {rules'[r].fingerprint, None}

\* What a later version carries over was decided on the same evidence.
LEMMA StandingRescan ==
    ASSUME DecisionsInv, NEW r \in RuleIds, NEW print \in Fingerprints, Rescan(r, print)
    PROVE  BasisIsCurrent' /\ Standing
<1>1. /\ DOMAIN rules \subseteq RuleIds
      /\ basis \in [RuleIds -> Fingerprints \cup {None}]
      /\ \A p \in DOMAIN rules : basis[p] \in {rules[p].fingerprint, None}
  BY DEF DecisionsInv, RulesInv, RulesTypeOK, BasisIsCurrent
<1>2. PICK q \in DOMAIN rules :
         LET carried == CarriesReview(rules[q], print)
         IN  /\ rules' = [p \in DOMAIN rules \cup {r} |->
                            IF p = r THEN NewRule(IF carried THEN rules[q].status ELSE "candidate", print)
                            ELSE rules[p]]
             /\ basis' = [basis EXCEPT ![r] = IF carried THEN basis[q] ELSE None]
  BY DEF Rescan, Predecessors
<1>3. r \notin DOMAIN rules /\ UNCHANGED suggested
  BY DEF Rescan
<1>4. CarriesReview(rules[q], print) => basis[q] \in {print, None}
  BY <1>1 DEF CarriesReview, MaterialEvidenceChanged
<1>5. DOMAIN rules' = DOMAIN rules \cup {r} /\ rules'[r].fingerprint = print
  BY <1>2 DEF NewRule
<1>6. basis'[r] \in {print, None}
  BY <1>1, <1>2, <1>4
<1>7. \A p \in DOMAIN rules : rules'[p] = rules[p] /\ basis'[p] = basis[p]
  BY <1>1, <1>2, <1>3
<1>8. basis' \in [RuleIds -> Fingerprints \cup {None}]
  BY <1>1, <1>2
<1>9. BasisIsCurrent'
  BY <1>1, <1>5, <1>6, <1>7, <1>8 DEF BasisIsCurrent
<1>10. QED
  BY <1>3, <1>5, <1>6, <1>9 DEF Standing

LEMMA BasisReview ==
    ASSUME DecisionsInv, NEW r \in RuleIds, NEW status \in ReviewOutcomes,
           Review(r, status)
    PROVE  BasisIsCurrent' /\ DOMAIN rules' = DOMAIN rules /\ suggested' = suggested
<1>1. /\ DOMAIN rules \subseteq RuleIds /\ r \in DOMAIN rules
      /\ rules[r].fingerprint \in Fingerprints
      /\ rules' = [rules EXCEPT ![r].status = status]
      /\ basis' = [basis EXCEPT ![r] = rules[r].fingerprint]
      /\ suggested' = suggested
  BY DEF Review, DecisionsInv, RulesInv, RulesTypeOK
<1>2. \A p \in DOMAIN rules : rules'[p].fingerprint = rules[p].fingerprint
  BY <1>1 DEF DecisionsInv, RulesInv, RulesTypeOK
<1>3. DOMAIN rules' = DOMAIN rules
  BY <1>1
<1>4. QED
  BY <1>1, <1>2, <1>3 DEF DecisionsInv, BasisIsCurrent

\* Merging and superseding leave fingerprints and reviews alone.
LEMMA BasisCommit ==
    ASSUME DecisionsInv, NEW s \in Sessions, Commit(s)
    PROVE  BasisIsCurrent' /\ DOMAIN rules' = DOMAIN rules /\ suggested' = suggested
<1> DEFINE w == work[s]
<1>1. rules' = Merged(w) /\ basis' = basis /\ suggested' = suggested
  BY DEF Commit
<1>2. \A r \in DOMAIN rules :
         Deprecated(rules[r], w.op = "merge").fingerprint = rules[r].fingerprint
      /\ rules[r] \in [status : RuleStatus, retired : BOOLEAN,
                       parent : DOMAIN rules \cup {None}, fingerprint : Fingerprints]
  BY DEF Deprecated, DecisionsInv, RulesInv, RulesTypeOK
<1> HIDE DEF w
<1>3. DOMAIN rules' = DOMAIN rules
  BY <1>1 DEF Merged
<1>4. \A r \in DOMAIN rules : rules'[r].fingerprint = rules[r].fingerprint
  BY <1>1, <1>2 DEF Merged, Deprecated
<1>5. QED
  BY <1>1, <1>3, <1>4 DEF DecisionsInv, BasisIsCurrent

\* The best candidates are none of the rejected edges.
LEMMA SuggestKeepsRejected ==
    ASSUME Suggest
    PROVE  \A edge \in DOMAIN suggested : suggested[edge] = "rejected" => suggested'[edge] = "rejected"
<1> DEFINE having(status) == {edge \in DOMAIN suggested : suggested[edge] = status}
           rejected == having("rejected")
           best == BestCandidates(Suggestions(DOMAIN rules, category, [r \in DOMAIN rules |-> RowsOf(r)]),
                                  having("accepted"), rejected)
           new  == {c.edge : c \in best}
<1>1. suggested' = [edge \in DOMAIN suggested \cup new |->
                      IF edge \in new THEN "pending" ELSE suggested[edge]]
  BY DEF Suggest
<1>2. \A edge \in new : edge \notin rejected
  BY DEF BestCandidates
<1> HIDE DEF new
<1>3. \A edge \in DOMAIN suggested \ new : suggested'[edge] = suggested[edge]
  BY <1>1
<1>4. QED
  BY <1>2, <1>3

LEMMA DecisionsStep == ASSUME DecisionsInv, [RulesNext]_ruleVars PROVE BasisIsCurrent' /\ Standing
<1>1. ASSUME BasisIsCurrent', DOMAIN rules' = DOMAIN rules, suggested' = suggested
      PROVE  BasisIsCurrent' /\ Standing
  BY <1>1 DEF Standing
<1>2. ASSUME UNCHANGED <<rules, basis>> PROVE BasisIsCurrent' /\ DOMAIN rules' = DOMAIN rules
  BY <1>2 DEF DecisionsInv, BasisIsCurrent
<1>3. ASSUME NEW r \in RuleIds, NEW print \in Fingerprints, Rescan(r, print)
      PROVE  BasisIsCurrent' /\ Standing
  BY <1>3, StandingRescan
<1>4. ASSUME NEW r \in RuleIds, NEW status \in ReviewOutcomes,
             Review(r, status)
      PROVE  BasisIsCurrent' /\ Standing
  BY <1>1, <1>4, BasisReview
<1>5. ASSUME NEW s \in Sessions, Commit(s) PROVE BasisIsCurrent' /\ Standing
  BY <1>1, <1>5, BasisCommit
<1>6. ASSUME Suggest PROVE BasisIsCurrent' /\ Standing
  BY <1>2, <1>6, SuggestKeepsRejected DEF Suggest, Standing
<1>7. ASSUME NEW edge \in DOMAIN suggested, NEW status, Decide(edge, status)
      PROVE  BasisIsCurrent' /\ Standing
  <2>1. /\ suggested[edge] = "pending" /\ suggested' = [suggested EXCEPT ![edge] = status]
        /\ UNCHANGED <<rules, basis>>
    BY <1>7 DEF Decide
  <2>2. \A other \in DOMAIN suggested :
           suggested[other] = "rejected" => suggested'[other] = "rejected"
    BY <2>1
  <2>3. QED
    BY <1>2, <2>1, <2>2 DEF Standing
<1>8. ASSUME NEW s \in Sessions, NEW op, Begin(s, op)
      PROVE  BasisIsCurrent' /\ Standing
  BY <1>1, <1>2, <1>8 DEF Begin
<1>9. ASSUME NEW s \in Sessions, NEW to, NEW from,
             BeginMerge(s, to, from) \/ BeginIdentityMerge(s, to, from) \/ BeginSupersede(s, from, to)
      PROVE  BasisIsCurrent' /\ Standing
  BY <1>8, <1>9 DEF BeginMerge, BeginIdentityMerge, BeginSupersede
<1>10. ASSUME \/ \E s \in Sessions : Abort(s)
              \/ \E e \in Rows, r \in RuleIds : Attach(e, r)
              \/ Reclassify \/ UNCHANGED ruleVars
       PROVE  BasisIsCurrent' /\ Standing
  <2>1. UNCHANGED <<rules, basis, suggested>>
    BY <1>10 DEF Abort, Attach, Reclassify, ruleVars
  <2>2. QED
    BY <1>1, <1>2, <2>1
<1>11. QED
  BY <1>3, <1>4, <1>5, <1>6, <1>7, <1>9, <1>10 DEF RulesNext

\* A rejected suggestion stays rejected, and an approval that a later version
\* carries over was given on the fingerprint it has there, or before there
\* were any: through any number of versions, merges and reviews.
THEOREM DecisionsAlwaysStand == RulesSpec => DecisionsStand
<1>1. RulesInit => BasisIsCurrent
  BY DEF RulesInit, BasisIsCurrent
<1>2. DecisionsStand <=> [][Standing]_ruleVars
  BY DEF DecisionsStand, Standing
<1>3. ASSUME RulesInv, BasisIsCurrent, [RulesNext]_ruleVars PROVE BasisIsCurrent' /\ Standing
  BY <1>3, DecisionsStep DEF DecisionsInv
<1>4. QED
  BY <1>1, <1>2, <1>3, RulesInvariant, PTL DEF RulesSpec

-----------------------------------------------------------------------------
(***************************************************************************)
(* Gaps of merged rules                                                    *)
(***************************************************************************)

\* What rows that are put together lack, some part with a need for it lacks.
LEMMA GapsOfParts ==
    ASSUME NEW all, NEW parts, \A p \in parts : p \subseteq all,
           \A e \in all : \E p \in parts : e \in p,
           NEW g \in GapTypes(all, {}, FALSE, FALSE)
    PROVE  \E p \in parts : g \in GapTypes(p, {}, FALSE, FALSE)
<1>1. \A types : \A p \in parts : OfType(p, types) \subseteq OfType(all, types)
  BY DEF OfType
<1>2. \A types : OfType(all, types) # {} => \E p \in parts : OfType(p, types) # {}
  BY DEF OfType
<1>3. CASE g = "missing_implementation"
  <2>1. OfType(all, IntentSources) # {} /\ OfType(all, Implementation) = {}
    BY <1>3 DEF GapTypes
  <2>2. PICK p \in parts : OfType(p, IntentSources) # {}
    BY <1>2, <2>1
  <2>3. OfType(p, Implementation) = {}
    BY <1>1, <2>1
  <2>4. g \in GapTypes(p, {}, FALSE, FALSE)
    BY <1>3, <2>2, <2>3 DEF GapTypes
  <2>5. QED
    BY <2>4
<1>4. CASE g # "missing_implementation"
  <2>1. OfType(all, Implementation) # {}
    BY <1>4 DEF GapTypes
  <2>2. PICK p \in parts : OfType(p, Implementation) # {}
    BY <1>2, <2>1
  <2>3. g = "missing_test" => OfType(p, Tests) = {}
    BY <1>1, <2>2 DEF GapTypes
  <2>4. g = "missing_intent" => OfType(p, IntentSources) = {}
    BY <1>1, <2>2 DEF GapTypes
  <2>5. g \in GapTypes(p, {}, FALSE, FALSE)
    BY <1>4, <2>2, <2>3, <2>4 DEF GapTypes
  <2>6. QED
    BY <2>5
<1>5. QED
  BY <1>3, <1>4

\* A merge gives its primary no gap that neither it nor a merged rule had, unless
\* their evidence changed while it ran: for any rules, rows and overlaps.
THEOREM MergesAddNoGap == RulesSpec => MergingAddsNoGap
<1> DEFINE gaps(own, r) == GapTypes({e \in Rows : own[e] = r}, {}, FALSE, FALSE)
           w(s) == work[s]
           Filling(s) == w(s).rows = {e \in Rows : owner[e] \in w(s).from} =>
                             gaps(owner', w(s).to) \subseteq UNION {gaps(owner, r) : r \in w(s).from \cup {w(s).to}}
           Merging == \A s \in Sessions :
                         work[s] # None /\ work'[s] = None /\ owner' # owner => Filling(s)
<1>1. ASSUME NEW s \in Sessions, Commit(s) PROVE Filling(s)
  <2> SUFFICES ASSUME w(s).rows = {e \in Rows : owner[e] \in w(s).from}
               PROVE  gaps(owner', w(s).to) \subseteq UNION {gaps(owner, r) : r \in w(s).from \cup {w(s).to}}
    OBVIOUS
  <2> DEFINE to    == w(s).to
             rs    == w(s).from \cup {to}
             all   == {e \in Rows : owner'[e] = to}
             parts == {{e \in Rows : owner[e] = r} : r \in rs}
  <2>1. owner' = [e \in Rows |-> IF e \in w(s).rows THEN to ELSE owner[e]]
    BY <1>1 DEF Commit, Moved
  <2>2. \A e \in Rows : owner'[e] = to <=> owner[e] \in rs
    BY <2>1
  <2>3. \A p \in parts : p \subseteq all
    BY <2>2
  <2>4. \A e \in all : \E p \in parts : e \in p
    <3> TAKE e \in all
    <3>1. owner[e] \in rs /\ e \in {f \in Rows : owner[f] = owner[e]}
      BY <2>2
    <3>2. {f \in Rows : owner[f] = owner[e]} \in parts
      BY <3>1
    <3>3. QED
      BY <3>1, <3>2
  <2>5. SUFFICES \A g \in gaps(owner', to) : \E r \in rs : g \in gaps(owner, r)
    <3> HIDE DEF gaps
    <3>1. QED
      OBVIOUS
  <2> TAKE g \in gaps(owner', to)
  <2>6. \A p \in parts : \E r \in rs : p = {e \in Rows : owner[e] = r}
    OBVIOUS
  <2>7. g \in GapTypes(all, {}, FALSE, FALSE)
    OBVIOUS
  <2> HIDE DEF all, parts
  <2>8. \E p \in parts : g \in GapTypes(p, {}, FALSE, FALSE)
    BY <2>3, <2>4, <2>7, GapsOfParts
  <2>9. QED
    BY <2>6, <2>8
<1>2. ASSUME RulesInv, [RulesNext]_ruleVars, NEW s \in Sessions,
             work[s] # None, work'[s] = None, owner' # owner
      PROVE  Filling(s)
  <2>1. work \in [Sessions -> {None} \cup
                    [op : {"merge", "identity", "supersede"}, to : DOMAIN rules,
                     from : SUBSET DOMAIN rules, rows : SUBSET Rows]]
    BY <1>2 DEF RulesInv, RulesTypeOK
  <2>2. PICK t \in Sessions : Commit(t)
    BY <1>2 DEF RulesNext, ruleVars, BeginMerge, BeginIdentityMerge, BeginSupersede, Begin, Abort,
                Attach, Rescan, Review, Reclassify, Suggest, Decide
  <2>3. t = s
    BY <1>2, <2>1, <2>2 DEF Commit
  <2>4. QED
    BY <1>1, <2>2, <2>3
<1>3. ASSUME RulesInv, [RulesNext]_ruleVars PROVE [Merging]_ruleVars
  BY <1>2, <1>3
<1>4. MergingAddsNoGap <=> [][Merging]_ruleVars
  BY DEF MergingAddsNoGap
<1>5. QED
  BY <1>3, <1>4, RulesInvariant, PTL DEF RulesSpec
-----------------------------------------------------------------------------
(***************************************************************************)
(* Groups of duplicates                                                    *)
(***************************************************************************)

\* A listing of candidates names every one of them at one position.
LEMMA ListingIsWhole ==
    ASSUME NEW S, IsFiniteSet(S), NEW order \in SetToSeqs(S)
    PROVE  \E n \in Nat : /\ order \in [1..n -> S] /\ Len(order) = n
                          /\ \A i, j \in 1..n : i # j => order[i] # order[j]
                          /\ \A r \in S : \E i \in 1..n : order[i] = r
<1> DEFINE n == Cardinality(S)
<1>1. n \in Nat
  BY FS_CardinalityType
<1>2. order \in [1..n -> S] /\ \A i, j \in 1..n : i # j => order[i] # order[j]
  BY DEF SetToSeqs
<1>3. order \in Seq(S) /\ Len(order) = n
  <2>1. \A k \in Nat : \A f \in [1..k -> S] : f \in Seq(S) /\ Len(f) = k
    OBVIOUS
  <2> HIDE DEF n
  <2>2. QED
    BY <1>1, <1>2, <2>1
<1>4. order \in Injection(1..n, S)
  <2> HIDE DEF n
  <2>1. QED
    BY <1>2 DEF Injection, IsInjective
<1>5. Cardinality(1..n) = n
  <2> HIDE DEF n
  <2>1. n >= 0 /\ 1 \in Int /\ n \in Int
    BY <1>1
  <2>2. Cardinality(1..n) = IF 1 > n THEN 0 ELSE n - 1 + 1
    BY <2>1, FS_Interval
  <2>3. QED
    BY <2>1, <2>2
<1>6. order \in Surjection(1..n, S)
  BY <1>4, <1>5, FS_Injection
<1> HIDE DEF n
<1>7. QED
  BY <1>1, <1>2, <1>3, <1>6 DEF Surjection

\* What has been found of a set of candidates listed in an order, the first i of
\* them looked at.
GroupsAre(S, order, i, groups) ==
    /\ groups \subseteq [primary : S, members : SUBSET S]
    /\ \A g, h \in groups : g # h => g.members \cap h.members = {}
    /\ \A k \in 1..i : \A q \in S :
          q # order[k] /\ Similar(order[k], q) =>
              order[k] \in UNION {g.members : g \in groups} \/ q \in UNION {g.members : g \in groups}
    /\ \A g \in groups : g.members \subseteq DuplicatesOf(g.primary, S)

LEMMA SimilarIsSymmetric == \A r, q : Similar(r, q) <=> Similar(q, r)
<1>1. \A r, q : TextOf[r].terms \cap TextOf[q].terms = TextOf[q].terms \cap TextOf[r].terms
  OBVIOUS
<1>2. \A r, q : TextOf[r].terms \cup TextOf[q].terms = TextOf[q].terms \cup TextOf[r].terms
  OBVIOUS
<1>3. QED
  BY <1>1, <1>2 DEF Similar

\* Looking at one more candidate keeps the groups so.
LEMMA GroupedStep ==
    ASSUME NEW S, IsFiniteSet(S), NEW n \in Nat, NEW order \in [1..n -> S], Len(order) = n,
           \A j \in S : \E k \in 1..n : order[k] = j,
           NEW i \in 1..n, NEW groups, GroupsAre(S, order, i - 1, groups)
    PROVE  GroupsAre(S, order, i, Grouped(order, i, groups))
<1> DEFINE seen == UNION {g.members : g \in groups}
           r == order[i]
           members == MembersFrom(order, i, seen)
           new == [primary |-> r, members |-> members]
           after == Grouped(order, i, groups)
<1>1. r \in S /\ r \in members /\ members \subseteq S
  BY DEF MembersFrom
<1>2. \A q \in members : q = r \/ (q \notin seen /\ Similar(r, q))
  BY DEF MembersFrom
<1>3. \A k \in (i + 1)..n : order[k] \notin seen /\ Similar(r, order[k]) => order[k] \in members
  BY DEF MembersFrom
<1>4. after = IF r \notin seen /\ Cardinality(members) > 1 THEN groups \cup {new} ELSE groups
  BY DEF Grouped, StartsGroup
<1> HIDE DEF members, after
<1>5. ASSUME NEW k \in 1..(i - 1), NEW q \in S, q # order[k], Similar(order[k], q)
      PROVE  order[k] \in seen \/ q \in seen
  BY <1>5 DEF GroupsAre
<1>6. CASE r \notin seen /\ Cardinality(members) > 1
  <2>1. after = groups \cup {new}
    BY <1>4, <1>6
  <2>2. UNION {g.members : g \in after} = seen \cup members
    <3>1. new.members = members
      OBVIOUS
    <3> HIDE DEF new
    <3>2. QED
      BY <2>1, <3>1
  <2>3. after \subseteq [primary : S, members : SUBSET S]
    BY <1>1, <2>1 DEF GroupsAre
  <2>4. \A g, h \in after : g # h => g.members \cap h.members = {}
    <3>1. \A g \in groups : g.members \cap members = {}
      BY <1>2, <1>6
    <3>2. QED
      BY <2>1, <3>1 DEF GroupsAre
  <2>5. \A k \in 1..i : \A q \in S :
           q # order[k] /\ Similar(order[k], q) => order[k] \in seen \cup members \/ q \in seen \cup members
    <3>1. \A k \in 1..i : k = i \/ k \in 1..(i - 1)
      OBVIOUS
    <3>2. QED
      BY <1>1, <1>5, <3>1
  <2>6. \A g \in after : g.members \subseteq DuplicatesOf(g.primary, S)
    BY <1>1, <1>2, <2>1 DEF GroupsAre, DuplicatesOf
  <2>7. QED
    BY <2>2, <2>3, <2>4, <2>5, <2>6 DEF GroupsAre, after
<1>7. CASE ~(r \notin seen /\ Cardinality(members) > 1)
  <2>1. after = groups
    BY <1>4, <1>7
  <2>2. ASSUME NEW q \in S, q # r, Similar(r, q), r \notin seen, q \notin seen
        PROVE  FALSE
    <3>1. PICK k \in 1..n : order[k] = q
      OBVIOUS
    <3>2. CASE k \in 1..(i - 1)
      BY <1>1, <1>5, <2>2, <3>1, <3>2, SimilarIsSymmetric
    <3>3. CASE k = i
      BY <2>2, <3>1, <3>3
    <3>4. CASE k \in (i + 1)..n
      <4>1. {r, q} \subseteq members
        BY <1>1, <1>3, <2>2, <3>1, <3>4
      <4>2. IsFiniteSet(members) /\ Cardinality(members) \in Nat
        BY <1>1, FS_Subset, FS_CardinalityType
      <4>3. Cardinality(members) # 0 /\ Cardinality(members) # 1
        <5>1. Cardinality(members) = 1 => \E x : members = {x}
          BY <4>2, FS_Singleton
        <5>2. QED
          BY <2>2, <4>1, <4>2, <5>1, FS_EmptySet
      <4>4. QED
        BY <1>7, <2>2, <4>2, <4>3
    <3>5. QED
      BY <3>2, <3>3, <3>4
  <2>3. \A k \in 1..i : \A q \in S :
           q # order[k] /\ Similar(order[k], q) => order[k] \in seen \/ q \in seen
    <3>1. \A k \in 1..i : k = i \/ k \in 1..(i - 1)
      OBVIOUS
    <3>2. QED
      BY <1>5, <2>2, <3>1
  <2>4. QED
    BY <2>1, <2>3 DEF GroupsAre, after
<1>8. QED
  BY <1>6, <1>7

\* The groups are what looking at the candidates one after the other leaves.
LooksThrough(after, order, n) ==
    /\ DuplicateGroups(order) = after[n]
    /\ after[0] = {}
    /\ \A i \in 1..n : after[i] = Grouped(order, i, after[i - 1])

LEMMA GroupsFollow ==
    ASSUME NEW S, NEW n \in Nat, NEW order \in [1..n -> S], Len(order) = n
    PROVE  \E after : LooksThrough(after, order, n)
<1> DEFINE X == 0..n
           V == SUBSET [primary : S, members : SUBSET S]
           rank == [i \in X |-> i]
           prev == [i \in X |-> IF i = 0 THEN 0 ELSE i - 1]
           first == [i \in X |-> {}]
           next == [i \in X |-> [groups \in V |-> IF i = 0 THEN {} ELSE Grouped(order, i, groups)]]
           After(g) == g = [i \in 0..Len(order) |-> IF i = 0 THEN {} ELSE Grouped(order, i, g[i - 1])]
<1>1. \A i \in 1..n, groups \in V : Grouped(order, i, groups) \in V
  <2> TAKE i \in 1..n, groups \in V
  <2>1. MembersFrom(order, i, UNION {g.members : g \in groups}) \subseteq S
    BY DEF MembersFrom
  <2>2. QED
    BY <2>1 DEF Grouped
<1>2. /\ rank \in [X -> 0..n] /\ prev \in [X -> X]
      /\ \A x \in X : rank[x] # 0 => rank[prev[x]] < rank[x]
  OBVIOUS
<1>3. first \in [X -> V] /\ next \in [X -> [V -> V]]
  <2>1. \A i \in X : i = 0 \/ i \in 1..n
    OBVIOUS
  <2>2. {} \in V
    OBVIOUS
  <2> HIDE DEF V
  <2>3. QED
    BY <1>1, <2>1, <2>2
<1>4. \E g \in [X -> V] : \A x \in X :
         g[x] = IF rank[x] = 0 THEN first[x] ELSE next[x][g[prev[x]]]
  <2>1. RecursionOn(X, n, rank, prev, V, first, next)
    <3> HIDE DEF X, V, rank, prev, first, next
    <3>1. X = 0..n
      BY DEF X
    <3>2. QED
      BY <1>2, <1>3 DEF RecursionOn
  <2> HIDE DEF X, V, rank, prev, first, next
  <2>2. QED
    BY <2>1, BoundedRecursion
<1>5. PICK g \in [X -> V] : \A x \in X :
         g[x] = IF rank[x] = 0 THEN first[x] ELSE next[x][g[prev[x]]]
  BY <1>4
<1>6. \A i \in X : g[i] = IF i = 0 THEN {} ELSE Grouped(order, i, g[i - 1])
  <2> TAKE i \in X
  <2>1. prev[i] \in X /\ g[prev[i]] \in V /\ rank[i] = i
    BY <1>2
  <2>2. i # 0 => next[i][g[prev[i]]] = Grouped(order, i, g[prev[i]]) /\ prev[i] = i - 1
    <3> HIDE DEF V
    <3>1. QED
      BY <2>1
  <2>3. QED
    BY <1>5, <2>1, <2>2
<1>7. After(g)
  <2> HIDE DEF V
  <2>1. QED
    BY <1>5, <1>6
<1> DEFINE after == CHOOSE h : After(h)
<1>8. After(after)
  <2> HIDE DEF After
  <2>1. QED
    BY <1>7
<1>9. DuplicateGroups(order) = after[n]
  BY DEF DuplicateGroups
<1> HIDE DEF after
<1>10. after[0] = {} /\ \A i \in 1..n : after[i] = Grouped(order, i, after[i - 1])
  <2>1. \A i \in 0..n : after[i] = IF i = 0 THEN {} ELSE Grouped(order, i, after[i - 1])
    BY <1>8
  <2>2. 0 \in 0..n /\ \A i \in 1..n : i \in 0..n /\ i # 0
    OBVIOUS
  <2> HIDE DEF After
  <2>3. QED
    BY <2>1, <2>2
<1>11. QED
  BY <1>9, <1>10 DEF LooksThrough

\* However many candidates there are, their groups are disjoint, part of what a
\* search from the primary finds, and leave no similar pair outside.
THEOREM NoDuplicateIsMissed == RulesSpec => []GroupsMissNothing
<1>1. ASSUME NEW S, IsFiniteSet(S), NEW order \in SetToSeqs(S)
      PROVE  LET groups == DuplicateGroups(order)
                 seen   == UNION {g.members : g \in groups}
             IN  /\ \A g, h \in groups : g # h => g.members \cap h.members = {}
                 /\ \A r, q \in S : r # q /\ Similar(r, q) => r \in seen \/ q \in seen
                 /\ \A g \in groups : g.members \subseteq DuplicatesOf(g.primary, S)
  <2>1. PICK n \in Nat : /\ order \in [1..n -> S] /\ Len(order) = n
                         /\ \A i, j \in 1..n : i # j => order[i] # order[j]
                         /\ \A r \in S : \E i \in 1..n : order[i] = r
    BY <1>1, ListingIsWhole
  <2>2. PICK after : LooksThrough(after, order, n)
    <3>1. order \in [1..n -> S] /\ Len(order) = n
      BY <2>1
    <3>2. QED
      BY <3>1, GroupsFollow
  <2> DEFINE G == {i \in Nat : i <= n => GroupsAre(S, order, i, after[i])}
  <2>3. 0 \in G
    BY <2>2 DEF GroupsAre, LooksThrough
  <2>4. ASSUME NEW i \in Nat, i \in G PROVE i + 1 \in G
    <3>1. SUFFICES ASSUME i + 1 <= n PROVE GroupsAre(S, order, i + 1, after[i + 1])
      OBVIOUS
    <3>2. i + 1 \in 1..n /\ (i + 1) - 1 = i
      BY <3>1
    <3>3. GroupsAre(S, order, i, after[i])
      BY <2>4, <3>1
    <3>4. GroupsAre(S, order, i + 1, Grouped(order, i + 1, after[i]))
      BY <1>1, <2>1, <3>2, <3>3, GroupedStep
    <3>5. QED
      BY <2>2, <3>2, <3>4 DEF LooksThrough
  <2> HIDE DEF G
  <2>5. Nat \subseteq G
    BY <2>3, <2>4, NatSetInduction
  <2>6. GroupsAre(S, order, n, DuplicateGroups(order))
    BY <2>1, <2>2, <2>5 DEF G, LooksThrough
  <2>7. QED
    BY <2>1, <2>6 DEF GroupsAre
<1>2. ASSUME RulesTypeOK, NEW project PROVE IsFiniteSet(Candidates(project))
  <2>1. Candidates(project) \subseteq RuleIds
    BY <1>2 DEF RulesTypeOK, Candidates
  <2>2. QED
    BY <2>1, RulesAssumption, FS_Subset
<1>3. RulesTypeOK => GroupsMissNothing
  BY <1>1, <1>2 DEF GroupsMissNothing
<1>4. QED
  BY <1>3, RulesAreTyped, PTL

-----------------------------------------------------------------------------
(***************************************************************************)
(* What observations add to a confidence                                   *)
(***************************************************************************)

\* The fold of the library is a sum.
LEMMA SumIsSum ==
    ASSUME NEW S, IsFiniteSet(S), NEW w, \A e \in S : w[e] \in Int
    PROVE  \E g : /\ SumsOf(g, S, [e \in S |-> w[e]])
                  /\ SumFunctionOnSet(w, S) = g[S]
<1> DEFINE v == [e \in S |-> w[e]]
           byLib(h, s) == IF s = {} THEN 0
                          ELSE w[CHOOSE x \in s : TRUE] + h[s \ {CHOOSE x \in s : TRUE}]
           byV(h, s) == IF s = {} THEN 0 ELSE h[s \ {Picked(s)}] + v[Picked(s)]
           By(h) == h = [s \in SUBSET S |-> byLib(h, s)]
           iter == CHOOSE h : h = [s \in SUBSET S |-> IF s = {} THEN 0
                          ELSE w[CHOOSE x \in s : TRUE] + h[s \ {CHOOSE x \in s : TRUE}]]
<1>1. SumFunctionOnSet(w, S) = iter[S]
  BY DEF SumFunctionOnSet, FoldFunctionOnSet, MapThenFoldSet
<1>2. v \in [S -> Int]
  OBVIOUS
<1>3. PICK g : SumsOf(g, S, v)
  BY <1>2, SumsExist
<1>4. \A s \in SUBSET S : g[s] \in Int
  BY <1>2, <1>3, SumsAreNumbers
<1>5. \A s \in SUBSET S : byV(g, s) = byLib(g, s)
  <2> TAKE s \in SUBSET S
  <2>1. CASE s = {}
    BY <2>1
  <2>2. CASE s # {}
    <3>1. Picked(s) \in s /\ Picked(s) = CHOOSE x \in s : TRUE
      BY <2>2 DEF Picked
    <3>2. v[Picked(s)] = w[Picked(s)] /\ w[Picked(s)] \in Int /\ g[s \ {Picked(s)}] \in Int
      BY <1>4, <3>1
    <3>3. QED
      BY <2>2, <3>1, <3>2
  <2>3. QED
    BY <2>1, <2>2
<1>6. By(g)
  <2>1. g = [s \in SUBSET S |-> byV(g, s)]
    BY <1>3 DEF SumsOf
  <2> HIDE DEF byV, byLib
  <2>2. QED
    BY <1>5, <2>1
<1>7. By(iter)
  <2>1. \E h : By(h)
    BY <1>6
  <2>2. QED
    BY <2>1
<1>8. SUBSET S \subseteq {s \in SUBSET S : iter[s] = g[s]}
  <2> DEFINE rank == [s \in SUBSET S |-> Cardinality(s)]
             G == {s \in SUBSET S : iter[s] = g[s]}
  <2>1. \A s \in SUBSET S : IsFiniteSet(s) /\ Cardinality(s) \in Nat
    BY FS_CardinalityType, FS_Subset
  <2>2. ASSUME NEW s \in SUBSET S, \A t \in SUBSET S : rank[t] < rank[s] => t \in G
        PROVE  s \in G
    <3>1. iter[s] = byLib(iter, s) /\ g[s] = byLib(g, s)
      <4> HIDE DEF byLib, iter
      <4>1. QED
        BY <1>6, <1>7
    <3>2. CASE s = {}
      BY <3>1, <3>2
    <3>3. CASE s # {}
      <4> DEFINE x == CHOOSE y \in s : TRUE
                 t == s \ {x}
      <4>1. x \in s
        BY <3>3
      <4>2. t \in SUBSET S /\ Cardinality(t) = Cardinality(s) - 1
        BY <2>1, <4>1, FS_RemoveElement
      <4>3. iter[s] = w[x] + iter[t] /\ g[s] = w[x] + g[t]
        <5> HIDE DEF iter
        <5>1. QED
          BY <3>1, <3>3
      <4> HIDE DEF x, t, iter
      <4>4. rank[t] < rank[s]
        BY <2>1, <4>2
      <4>5. QED
        BY <2>2, <4>2, <4>3, <4>4
    <3>4. QED
      BY <3>2, <3>3
  <2>3. rank \in [SUBSET S -> Nat]
    BY <2>1
  <2> HIDE DEF G, rank
  <2>4. SUBSET S \subseteq G
    BY <2>2, <2>3, RankInduction
  <2>5. QED
    BY <2>4 DEF G
<1>9. iter[S] = g[S]
  <2> HIDE DEF iter
  <2>1. QED
    BY <1>8
<1>10. QED
  BY <1>1, <1>3, <1>9

\* A quotient of a number between multiples of the divisor.
LEMMA DivBounds ==
    ASSUME NEW a \in Int, NEW n \in Nat, n > 0, NEW hi \in Nat, 0 * n <= a, a <= hi * n
    PROVE  a \div n \in 0..hi
<1> DEFINE q == a \div n
<1>1. q \in Int /\ q * n <= a /\ a < (q + 1) * n
  OBVIOUS
<1>2. q >= 0 
  <2>1. SUFFICES ASSUME q <= -1 PROVE FALSE
    BY <1>1
  <2> HIDE DEF q
  <2>2. (q + 1) * n <= 0 * n
    BY <1>1, <2>1
  <2>3. QED
    BY <1>1, <2>2
<1>3. q <= hi
  <2>1. SUFFICES ASSUME q >= hi + 1 PROVE FALSE
    BY <1>1
  <2> HIDE DEF q
  <2>2. q * n >= (hi + 1) * n
    BY <1>1, <2>1
  <2>3. QED
    BY <1>1, <2>2
<1>4. QED
  BY <1>1, <1>2, <1>3

\* The mean of scores between 0 and a bound is between them, or 0 of no scores.
LEMMA MeanBounds ==
    ASSUME NEW S \in SUBSET DOMAIN RowOf, NEW w, NEW hi \in Nat,
           \A e \in S : w[e] \in 0..hi
    PROVE  Mean(S, w) \in 0..hi /\ (S = {} => Mean(S, w) = 0)
<1>1. IsFiniteSet(S)
  BY RowsAssumption, FS_Subset
<1>2. PICK g : /\ SumsOf(g, S, [e \in S |-> w[e]])
               /\ SumFunctionOnSet(w, S) = g[S]
  BY <1>1, SumIsSum
<1> DEFINE v == [e \in S |-> w[e]]
<1>3. v \in [S -> Int] /\ \A e \in S : 0 <= v[e] /\ v[e] <= hi
  OBVIOUS
<1>4. SumsOf(g, S, v)
  BY <1>2
<1> HIDE DEF v
<1>5. \A s \in SUBSET S : g[s] \in Int /\ 0 * Cardinality(s) <= g[s] /\ g[s] <= hi * Cardinality(s)
  BY <1>1, <1>3, <1>4, SumsBounded
<1>6. Cardinality(S) \in Nat /\ (S # {} => Cardinality(S) > 0)
  BY <1>1, FS_CardinalityType, FS_EmptySet
<1>7. S # {} => g[S] \div Cardinality(S) \in 0..hi
  <2> DEFINE n == Cardinality(S)
             a == g[S]
  <2>1. a \in Int /\ n \in Nat /\ 0 * n <= a /\ a <= hi * n
    BY <1>5, <1>6
  <2> HIDE DEF n, a
  <2>2. n > 0 => a \div n \in 0..hi
    BY <2>1, DivBounds
  <2>3. QED
    BY <1>6, <2>2 DEF n, a
<1>8. QED
  BY <1>2, <1>7 DEF Mean

LEMMA MeanType ==
    ASSUME NEW S \in SUBSET DOMAIN RowOf, NEW w, \A e \in S : w[e] \in Int
    PROVE  Mean(S, w) \in Int
<1>1. IsFiniteSet(S)
  BY RowsAssumption, FS_Subset
<1>2. PICK g : /\ SumsOf(g, S, [e \in S |-> w[e]])
               /\ SumFunctionOnSet(w, S) = g[S]
  BY <1>1, SumIsSum
<1>3. g[S] \in Int
  <2> DEFINE v == [e \in S |-> w[e]]
  <2>1. v \in [S -> Int]
    OBVIOUS
  <2>2. SumsOf(g, S, v)
    BY <1>2
  <2> HIDE DEF v
  <2>3. QED
    BY <1>1, <2>1, <2>2, SumsAreNumbers
<1>4. Cardinality(S) \in Nat /\ (S # {} => Cardinality(S) > 0)
  BY <1>1, FS_CardinalityType, FS_EmptySet
<1>5. \A a \in Int, n \in Nat : n > 0 => a \div n \in Int
  OBVIOUS
<1>6. S # {} => g[S] \div Cardinality(S) \in Int
  BY <1>3, <1>4, <1>5
<1>7. QED
  BY <1>2, <1>6 DEF Mean

\* A product of shares is a share, of no more than a share that is a factor.
LEMMA TimesBounds ==
    ASSUME NEW a \in 0..One, NEW b \in Int, NEW hi \in Nat, b <= hi
    PROVE  /\ Times(a, b) \in Int /\ Times(a, b) <= hi
           /\ b >= 0 => Times(a, b) >= 0
<1>1. a * b \in Int /\ a * b <= One * hi
  <2>1. a * b <= a * hi
    BY DEF One
  <2>2. a * hi <= One * hi
    BY DEF One
  <2>3. a * b \in Int /\ a * hi \in Int /\ One * hi \in Int
    BY DEF One
  <2>4. QED
    BY <2>1, <2>2, <2>3
<1>2. b >= 0 => a * b >= 0
  BY DEF One
<1> DEFINE c == a * b
<1>3. c \in Int /\ c <= 10000 * hi /\ (b >= 0 => c >= 0)
  BY <1>1, <1>2 DEF One
<1> HIDE DEF c
<1>4. c \div 10000 \in Int /\ c \div 10000 <= hi /\ (b >= 0 => c \div 10000 >= 0)
  BY <1>3
<1>5. QED
  BY <1>4 DEF Times, One, c

LEMMA TimesShares == \A a, b \in 0..One : Times(a, b) \in 0..One
<1> TAKE a, b \in 0..One
<1>1. One \in Nat /\ b \in Int /\ b <= One /\ b >= 0
  BY DEF One
<1> HIDE DEF One
<1>2. Times(a, b) \in Int /\ Times(a, b) <= One /\ Times(a, b) >= 0
  BY <1>1, TimesBounds
<1>3. QED
  BY <1>1, <1>2

LEMMA UnitType == \A x \in Int : ToUnit(x) \in 0..One
BY SMTT(30) DEF ToUnit, Greatest, Least, One

LEMMA WeightType == \A t : WeightFor(t) \in Int
<1> TAKE t
<1>1. CASE t \in DOMAIN Overrides
  BY <1>1, RowsAssumption DEF WeightFor
<1>2. CASE t \notin DOMAIN Overrides /\ t \in DOMAIN DefaultSourceWeights
  <2>1. DefaultSourceWeights[t] \in Int
    BY <1>2 DEF DefaultSourceWeights
  <2>2. QED
    BY <1>2, <2>1 DEF WeightFor
<1>3. CASE t \notin DOMAIN Overrides /\ t \notin DOMAIN DefaultSourceWeights
  BY <1>3 DEF WeightFor, One
<1>4. QED
  BY <1>1, <1>2, <1>3

\* A row weighs at most what its source type does.
LEMMA WeightedBounds ==
    ASSUME NEW e \in DOMAIN RowOf
    PROVE  /\ Weighted[e] \in 0..One
           /\ \A hi \in Nat : WeightFor(RowOf[e].type) <= hi => Weighted[e] <= hi
<1> DEFINE share == ToUnit(AsShare(RowOf[e].score))
           weight == WeightFor(RowOf[e].type)
           x == Times(share, weight)
<1>1. AsShare(RowOf[e].score) \in Int
  <2>1. RowOf[e].score \in Int
    BY RowsAssumption
  <2>2. \A y \in Int : AsShare(y) \in Int
    BY DEF AsShare, One
  <2>3. QED
    BY <2>1, <2>2
<1>2. share \in 0..One /\ weight \in Int
  BY <1>1, UnitType, WeightType
<1>3. Weighted[e] = ToUnit(x)
  BY DEF Weighted
<1> HIDE DEF share, weight
<1>4. x \in Int
  <2>1. \E hi \in Nat : weight <= hi
    <3>1. CASE weight >= 0
      BY <1>2, <3>1
    <3>2. CASE weight < 0
      <4>1. 0 \in Nat /\ weight <= 0
        BY <1>2, <3>2
      <4>2. QED
        BY <4>1
    <3>3. QED
      BY <1>2, <3>1, <3>2
  <2>2. QED
    BY <1>2, <2>1, TimesBounds
<1>5. \A hi \in Nat : weight <= hi => x <= hi
  BY <1>2, TimesBounds
<1> HIDE DEF x
<1>6. QED
  <2>1. ToUnit(x) \in 0..One
    BY <1>4, UnitType
  <2>2. \A y \in Int, hi \in Nat : y <= hi => ToUnit(y) <= hi
    BY DEF ToUnit, Greatest, Least, One
  <2>3. \A hi \in Nat : weight <= hi => ToUnit(x) <= hi
    BY <1>4, <1>5, <2>2
  <2>4. QED
    BY <1>3, <2>1, <2>3 DEF weight

\* A score of an AST observation is not negative.
LEMMA AstScoreBounds ==
    ASSUME NEW e \in DOMAIN RowOf, RowOf[e].type = "ast"
    PROVE  AstScore[e] \in 0..One
<1> DEFINE row    == RowOf[e]
           factor == ResolutionFactor(row.resolution)
           inner  == Times(row.score, row.quality)
           score  == Times(inner, factor)
<1>1. row.score \in 0..One /\ row.quality \in 0..One
  BY RowsAssumption
<1>2. factor \in 0..One
  BY DEF ResolutionFactor, One
<1>3. AstScore[e] = IF row.parserError THEN score \div 2 ELSE score
  BY DEF AstScore
<1>5. inner \in 0..One
  BY <1>1, TimesShares
<1> HIDE DEF inner, factor
<1>6. score \in 0..One
  BY <1>2, <1>5, TimesShares
<1> HIDE DEF score
<1>7. score \div 2 \in 0..One
  BY <1>6 DEF One
<1>8. QED
  BY <1>3, <1>6, <1>7

\* The numbers from 0 to One, and those of a boost.
Shares == 0..One
Boosts == 0..1500

LEMMA SharesAre == \A x \in Shares : x \in Int /\ 0 <= x /\ x <= 10000
BY DEF Shares, One

\* What one kind of rows says about the implementation.
LEMMA PartBounds ==
    ASSUME NEW rows \in SUBSET Rows
    PROVE  /\ \A types : /\ Mean(OfType(rows, types), Weighted) \in Shares
                         /\ OfType(rows, types) = {} => Mean(OfType(rows, types), Weighted) = 0
           /\ AstConfidence(rows) \in Shares /\ AstConfidence(rows) <= 7000
           /\ OfType(rows, {"ast"}) = {} => AstConfidence(rows) = 0
<1>0. /\ \A types : OfType(rows, types) \in SUBSET DOMAIN RowOf
      /\ One \in Nat
  BY DEF OfType, Rows, One
<1>1. \A types : /\ Mean(OfType(rows, types), Weighted) \in 0..One
                 /\ OfType(rows, types) = {} => Mean(OfType(rows, types), Weighted) = 0
  BY <1>0, WeightedBounds, MeanBounds
<1>2. /\ Mean(OfType(rows, {"ast"}), AstScore) \in 0..One
      /\ OfType(rows, {"ast"}) = {} => Mean(OfType(rows, {"ast"}), AstScore) = 0
  <2>1. \A e \in OfType(rows, {"ast"}) : AstScore[e] \in 0..One
    BY <1>0, AstScoreBounds DEF OfType
  <2>2. QED
    BY <1>0, <2>1, MeanBounds
<1>3. AstConfidence(rows) \in 0..7000 /\ (OfType(rows, {"ast"}) = {} => AstConfidence(rows) = 0)
  <2> DEFINE m == Mean(OfType(rows, {"ast"}), AstScore)
  <2>1. m \in 0..10000 /\ (OfType(rows, {"ast"}) = {} => m = 0)
    BY <1>2, SMTT(90) DEF One
  <2>2. AstConfidence(rows) = Least(Times(m, 7000), 7000)
    BY DEF AstConfidence
  <2> HIDE DEF m
  <2>3. Times(m, 7000) \in 0..7000 /\ (m = 0 => Times(m, 7000) = 0)
    BY <2>1 DEF Times, One
  <2>4. QED
    BY <2>1, <2>2, <2>3, SMTT(90) DEF Least
<1>4. AstConfidence(rows) \in Shares /\ AstConfidence(rows) <= 7000
  <2>1. PICK c \in 0..7000 : c = AstConfidence(rows)
    BY <1>3
  <2>2. c \in Shares
    BY DEF Shares, One
  <2>3. c <= 7000
    OBVIOUS
  <2>4. QED
    BY <2>1, <2>2, <2>3
<1>5. QED
  BY <1>1, <1>3, <1>4 DEF Shares

\* Beside evidence of its own, the implementation's confidence is that of the
\* evidence and two boosts, of static analysis and of AST observations.
Boost(x) == Least(Times(x, 2500), 1500)

LEMMA BoostBounds == (\A x \in Shares : Boost(x) \in Boosts) /\ Boost(0) = 0
<1>1. Boost(0) = 0
  BY DEF Boost, Least, Times, One
<1>2. ASSUME NEW x \in Shares PROVE Boost(x) \in Boosts
  <2>1. x \in 0..10000
    BY DEF Shares, One
  <2>2. (x * 2500) \div 10000 \in Nat
    BY <2>1
  <2>3. QED
    BY <2>2 DEF Boost, Boosts, Least, Times, One
<1>3. QED
  BY <1>1, <1>2

LEMMA ConfidenceIsBoosted ==
    ASSUME NEW rows \in SUBSET Rows, OfType(rows, Implementation) # {}
    PROVE  ImplementationConfidence(rows) =
             ToUnit(ToUnit(Mean(OfType(rows, Implementation), Weighted)
                           + Boost(Mean(OfType(rows, {"static_analysis"}), Weighted)))
                    + Boost(AstConfidence(rows)))
<1> DEFINE m == Mean(OfType(rows, Implementation), Weighted)
           x == Mean(OfType(rows, {"static_analysis"}), Weighted)
           y == AstConfidence(rows)
<1>1. m \in Shares /\ x \in Shares /\ y \in Shares /\ (OfType(rows, {"ast"}) = {} => y = 0)
  BY PartBounds
<1>2. WithStatic(rows) = m + Boost(x)
  BY DEF WithStatic, Boost
<1>3. ImplementationConfidence(rows) =
         IF OfType(rows, {"ast"}) = {} THEN ToUnit(m + Boost(x))
         ELSE ToUnit(ToUnit(m + Boost(x)) + Boost(y))
  BY <1>2 DEF ImplementationConfidence, Boost
<1> HIDE DEF m, x, y
<1>4. Boost(x) \in Boosts /\ (y = 0 => Boost(y) = 0)
  BY <1>1, BoostBounds
<1>5. ToUnit(m + Boost(x)) \in Shares
  <2>1. m + Boost(x) \in Int
    <3>1. m \in Int
      BY <1>1, SharesAre
    <3>2. Boost(x) \in Int
      BY <1>4 DEF Boosts
    <3>3. QED
      BY <3>1, <3>2
  <2>2. QED
    BY <2>1, UnitType DEF Shares
<1>6. \A z \in Shares : ToUnit(z + 0) = z
  BY SharesAre DEF ToUnit, Greatest, Least, One
<1>7. QED
  BY <1>1, <1>3, <1>4, <1>5, <1>6 DEF m, x, y

\* Taking observations away does not raise it.
LEMMA ObservationsAdd ==
    ASSUME NEW rows \in SUBSET Rows, OfType(rows, Implementation) # {},
           NEW types \in SUBSET {"static_analysis", "ast"}
    PROVE  ImplementationConfidence(rows \ OfType(rows, types)) <= ImplementationConfidence(rows)
<1> DEFINE rest == rows \ OfType(rows, types)
           Static(s) == Mean(OfType(s, {"static_analysis"}), Weighted)
           m  == Mean(OfType(rows, Implementation), Weighted)
<1>1. OfType(rest, Implementation) = OfType(rows, Implementation)
  BY DEF OfType, Implementation
<1>2. \A t : OfType(rest, {t}) = {} \/ OfType(rest, {t}) = OfType(rows, {t})
  BY DEF OfType
<1>3. rest \in SUBSET Rows
  OBVIOUS
<1>4. Static(rest) = 0 \/ Static(rest) = Static(rows)
  <2>1. OfType(rest, {"static_analysis"}) = {} => Static(rest) = 0
    <3>1. \A some \in SUBSET Rows : \A kinds :
             OfType(some, kinds) = {} => Mean(OfType(some, kinds), Weighted) = 0
      BY PartBounds
    <3>2. QED
      BY <1>3, <3>1
  <2>2. \/ OfType(rest, {"static_analysis"}) = {}
        \/ OfType(rest, {"static_analysis"}) = OfType(rows, {"static_analysis"})
    BY <1>2
  <2>3. QED
    BY <2>1, <2>2
<1>5. AstConfidence(rest) = 0 \/ AstConfidence(rest) = AstConfidence(rows)
  <2>1. OfType(rest, {"ast"}) = OfType(rows, {"ast"}) => AstConfidence(rest) = AstConfidence(rows)
    BY DEF AstConfidence
  <2>2. OfType(rest, {"ast"}) = {} => AstConfidence(rest) = 0
    BY <1>3, PartBounds
  <2>3. OfType(rest, {"ast"}) = {} \/ OfType(rest, {"ast"}) = OfType(rows, {"ast"})
    BY <1>2
  <2>4. QED
    BY <2>1, <2>2, <2>3
<1>6. m \in Shares /\ Static(rows) \in Shares /\ AstConfidence(rows) \in Shares
  BY PartBounds
<1>7. /\ ImplementationConfidence(rows) = ToUnit(ToUnit(m + Boost(Static(rows))) + Boost(AstConfidence(rows)))
      /\ ImplementationConfidence(rest) = ToUnit(ToUnit(m + Boost(Static(rest))) + Boost(AstConfidence(rest)))
  BY <1>1, <1>3, ConfidenceIsBoosted
<1> DEFINE x0 == Boost(Static(rest))
           x1 == Boost(Static(rows))
           y0 == Boost(AstConfidence(rest))
           y1 == Boost(AstConfidence(rows))
<1>8. x1 \in Boosts /\ y1 \in Boosts /\ (x0 = 0 \/ x0 = x1) /\ (y0 = 0 \/ y0 = y1)
  <2>1. Boost(0) = 0 /\ x1 \in Boosts /\ y1 \in Boosts
    BY <1>6, BoostBounds
  <2>2. QED
    BY <1>4, <1>5, <2>1
<1> HIDE DEF x0, x1, y0, y1, m, rest
<1>9. x0 \in Int /\ x1 \in Int /\ x0 <= x1
  BY <1>8, SMTT(30) DEF Boosts
<1>10. y0 \in Int /\ y1 \in Int /\ y0 <= y1
  BY <1>8, SMTT(30) DEF Boosts
<1>11. ToUnit(ToUnit(m + x0) + y0) <= ToUnit(ToUnit(m + x1) + y1)
  <2>1. m \in Int
    BY <1>6, SharesAre
  <2>2. QED
    BY <1>9, <1>10, <2>1 DEF ToUnit, Greatest, Least, One
<1>12. QED
  BY <1>7, <1>11 DEF x0, x1, y0, y1, rest

LEMMA TimesType == \A a, b \in Int : Times(a, b) \in Int
<1> TAKE a, b \in Int
<1>1. PICK c \in Int : c = a * b
  OBVIOUS
<1>2. QED
  BY <1>1 DEF Times, One

\* The parts of a confidence are shares.
LEMMA ConfidencesAreShares ==
    ASSUME NEW rows \in SUBSET Rows
    PROVE  /\ ImplementationConfidence(rows) \in Shares
           /\ TestConfidence(rows) \in Shares
           /\ DocumentationConfidence(rows) \in Shares
           /\ RuntimeConfidence(rows) \in Shares
           /\ CoverageConfidence(rows) \in Shares
<1>1. \A x \in Int : ToUnit(x) \in Shares
  BY UnitType DEF Shares
<1>2. \A x, y \in Shares : Greatest(x, y) \in Shares
  BY DEF Greatest
<1>3. \A types : OfType(rows, types) \in SUBSET DOMAIN RowOf
  BY DEF OfType, Rows
<1>4. \A e \in DOMAIN RowOf : Weighted[e] \in Shares
  BY WeightedBounds DEF Shares
<1>5. \A x \in Shares : x \in Int
  BY SharesAre
<1>6. ImplementationConfidence(rows) \in Shares
  <2>1. \A types : Mean(OfType(rows, types), Weighted) \in Int
    BY PartBounds, <1>5
  <2>2. \A x \in Int : Least(x, 1500) \in Int
    BY DEF Least
  <2>3. 8000 \in Int /\ 2500 \in Int
    OBVIOUS
  <2>4. Alone(rows) \in Int
    BY <2>1, <2>3, TimesType DEF Alone
  <2>5. Least(Times(Mean(OfType(rows, {"static_analysis"}), Weighted), 2500), 1500) \in Int
    BY <2>1, <2>2, <2>3, TimesType
  <2>6. \A x, y \in Int : x + y \in Int
    OBVIOUS
  <2>7. WithStatic(rows) \in Int
    <3>1. OfType(rows, Implementation) = {} => WithStatic(rows) = Alone(rows)
      BY DEF WithStatic
    <3>2. OfType(rows, Implementation) # {} =>
             WithStatic(rows) = Mean(OfType(rows, Implementation), Weighted)
                + Least(Times(Mean(OfType(rows, {"static_analysis"}), Weighted), 2500), 1500)
      BY DEF WithStatic
    <3>3. QED
      BY <2>1, <2>4, <2>5, <2>6, <3>1, <3>2
  <2>8. AstConfidence(rows) \in Shares /\ AstConfidence(rows) \in Int
    BY PartBounds, <1>5
  <2>9. ToUnit(WithStatic(rows)) \in Shares
    BY <1>1, <2>7
  <2>10. ToUnit(ToUnit(WithStatic(rows)) + Least(Times(AstConfidence(rows), 2500), 1500)) \in Shares
    <3>1. Least(Times(AstConfidence(rows), 2500), 1500) \in Int
      BY <2>2, <2>3, <2>8, TimesType
    <3>2. ToUnit(WithStatic(rows)) + Least(Times(AstConfidence(rows), 2500), 1500) \in Int
      BY <1>5, <2>6, <2>9, <3>1
    <3>3. QED
      BY <1>1, <3>2
  <2>11. Greatest(ToUnit(WithStatic(rows)), AstConfidence(rows)) \in Shares
    BY <1>2, <2>8, <2>9
  <2>12. QED
    BY <2>9, <2>10, <2>11 DEF ImplementationConfidence
<1>7. CoverageConfidence(rows) \in Shares
  <2> DEFINE scores == [e \in DOMAIN RowOf |-> AsShare(RowOf[e].score)]
  <2>1. \A y \in Int : AsShare(y) \in Int
    BY DEF AsShare, One
  <2>2. \A e \in DOMAIN RowOf : scores[e] \in Int
    BY <2>1, RowsAssumption
  <2> HIDE DEF scores
  <2>3. Mean(OfType(rows, {"coverage"}), scores) \in Int
    BY <1>3, <2>2, MeanType
  <2>4. QED
    BY <1>1, <2>3 DEF CoverageConfidence, scores
<1>8. TestConfidence(rows) \in Shares
  <2>1. CountedTests(rows) \in SUBSET DOMAIN RowOf
    BY <1>3 DEF CountedTests
  <2>2. \A x \in Shares : Times(x, 7500) \in Shares /\ Times(x, 6000) \in Shares
    <3>1. 7500 \in Shares /\ 6000 \in Shares
      BY DEF Shares, One
    <3>2. QED
      BY <3>1, TimesShares DEF Shares
  <2>3. \A e \in DOMAIN RowOf : TestScore[e] \in Int
    BY <1>4, <1>5, <2>2 DEF TestScore
  <2>4. ToUnit(Mean(CountedTests(rows), TestScore)) \in Shares
    BY <1>1, <2>1, <2>3, MeanType
  <2>5. QED
    BY <1>2, <1>7, <2>2, <2>4 DEF TestConfidence
<1>9. DocumentationConfidence(rows) \in Shares
  <2>1. \A x \in Shares : Times(x, 4000) \in Shares /\ Times(x, 8500) \in Shares
    <3>1. 4000 \in Shares /\ 8500 \in Shares
      BY DEF Shares, One
    <3>2. QED
      BY <3>1, TimesShares DEF Shares
  <2>2. \A e \in DOMAIN RowOf : DocScore[e] \in Int
    BY <1>4, <1>5, <2>1 DEF DocScore
  <2>3. Mean(OfType(rows, Docs \cup {"code_comment"}), DocScore) \in Int
    BY <1>3, <2>2, MeanType
  <2>4. QED
    BY <1>1, <2>3 DEF DocumentationConfidence
<1>10. RuntimeConfidence(rows) \in Shares
  <2> DEFINE scores == [e \in DOMAIN RowOf |-> IF RowOf[e].score >= 5000 THEN 7000 ELSE 4500]
  <2>1. \A e \in DOMAIN RowOf : scores[e] \in Int
    OBVIOUS
  <2> HIDE DEF scores
  <2>2. Mean(OfType(rows, {"runtime"}), scores) \in Int
    BY <1>3, <2>1, MeanType
  <2>3. QED
    BY <1>1, <2>2 DEF RuntimeConfidence, scores
<1>11. QED
  BY <1>6, <1>7, <1>8, <1>9, <1>10

\* What the parts are together.
Together(i, t, d, r, c) ==
    ToUnit(Times(i, 3500) + Times(t, 2500) + Times(d, 1500) + Times(r, 1000) + Times(c, 1000))

LEMMA BaseIsShare == ASSUME NEW rows \in SUBSET Rows PROVE BaseConfidence(rows) \in Shares
<1>1. \A x \in Shares : x \in Int
  BY SharesAre
<1>2. \A i, t, d, r, c \in Int : Together(i, t, d, r, c) \in Shares
  <2> TAKE i, t, d, r, c \in Int
  <2>1. /\ Times(i, 3500) \in Int /\ Times(t, 2500) \in Int /\ Times(d, 1500) \in Int
        /\ Times(r, 1000) \in Int /\ Times(c, 1000) \in Int
    <3>1. \A x \in Int : Times(x, 3500) \in Int
      BY TimesType
    <3>2. \A x \in Int : Times(x, 2500) \in Int
      BY TimesType
    <3>3. \A x \in Int : Times(x, 1500) \in Int
      BY TimesType
    <3>4. \A x \in Int : Times(x, 1000) \in Int
      BY TimesType
    <3>5. QED
      BY <3>1, <3>2, <3>3, <3>4
  <2>2. \A u, v, w, x, y \in Int : u + v + w + x + y \in Int
    OBVIOUS
  <2>3. QED
    BY <2>1, <2>2, UnitType DEF Together, Shares
<1>3. BaseConfidence(rows) =
         Together(ImplementationConfidence(rows), TestConfidence(rows), DocumentationConfidence(rows),
                  RuntimeConfidence(rows), CoverageConfidence(rows))
  BY DEF BaseConfidence, Together
<1>4. QED
  BY <1>1, <1>2, <1>3, ConfidencesAreShares

\* Numbers up to one.
UpTo(n) == 0..n

LEMMA ShareUpTo == Shares = UpTo(10000)
BY DEF Shares, UpTo, One

LEMMA MeanUpTo ==
    ASSUME NEW S \in SUBSET DOMAIN RowOf, NEW w, NEW hi \in Nat, \A e \in S : w[e] \in UpTo(hi)
    PROVE  Mean(S, w) \in UpTo(hi)
BY MeanBounds DEF UpTo

LEMMA TimesUpTo ==
    /\ \A x \in UpTo(8750) : Times(x, 8000) \in UpTo(7000)
    /\ \A x \in UpTo(10000) : Times(x, 6000) \in UpTo(6000)
    /\ \A x \in UpTo(5825) : Times(x, 4000) \in UpTo(2330)
<1>1. ASSUME NEW x \in UpTo(8750) PROVE Times(x, 8000) \in UpTo(7000)
  BY DEF Times, One, UpTo
<1>2. ASSUME NEW x \in UpTo(10000) PROVE Times(x, 6000) \in UpTo(6000)
  BY DEF Times, One, UpTo
<1>3. ASSUME NEW x \in UpTo(5825) PROVE Times(x, 4000) \in UpTo(2330)
  BY DEF Times, One, UpTo
<1>4. QED
  BY <1>1, <1>2, <1>3

LEMMA UnitUpTo ==
    /\ \A x \in UpTo(7000) : ToUnit(x) = x
    /\ \A x \in UpTo(2330) : ToUnit(x) = x
    /\ \A x \in UpTo(6000) : Greatest(ToUnit(0), x) = x
    /\ \A x, y \in UpTo(7000) : Greatest(x, y) \in UpTo(7000)
<1>1. ASSUME NEW x \in UpTo(7000) PROVE ToUnit(x) = x
  BY DEF ToUnit, Greatest, Least, One, UpTo
<1>2. ASSUME NEW x \in UpTo(2330) PROVE ToUnit(x) = x
  BY DEF ToUnit, Greatest, Least, One, UpTo
<1>3. ASSUME NEW x \in UpTo(6000) PROVE Greatest(ToUnit(0), x) = x
  BY DEF ToUnit, Greatest, Least, One, UpTo
<1>4. ASSUME NEW x \in UpTo(7000), NEW y \in UpTo(7000) PROVE Greatest(x, y) \in UpTo(7000)
  BY DEF Greatest
<1>5. QED
  BY <1>1, <1>2, <1>3, <1>4

LEMMA TogetherBelow ==
    \A i \in UpTo(7000), t \in UpTo(6000), d \in UpTo(2330), r \in UpTo(7000), c \in UpTo(10000) :
        Together(i, t, d, r, c) \in UpTo(5999)
<1> TAKE i \in UpTo(7000), t \in UpTo(6000), d \in UpTo(2330), r \in UpTo(7000), c \in UpTo(10000)
<1> DEFINE sum == Times(i, 3500) + Times(t, 2500) + Times(d, 1500) + Times(r, 1000) + Times(c, 1000)
<1>1. sum \in UpTo(5999)
  BY SMTT(90) DEF Times, One, UpTo
<1> HIDE DEF sum
<1>2. PICK x \in UpTo(5999) : x = sum
  BY <1>1
<1>3. ToUnit(x) = x
  BY SMTT(60) DEF ToUnit, Greatest, Least, One, UpTo
<1>4. Together(i, t, d, r, c) = ToUnit(sum)
  BY DEF Together, sum
<1>5. QED
  BY <1>2, <1>3, <1>4

\* A row weighs no more than its type, whose weight is below a bound.
LEMMA WeightedUpTo ==
    ASSUME NEW rows \in SUBSET Rows, NEW type, NEW hi \in Nat, WeightFor(type) <= hi
    PROVE  \A e \in OfType(rows, {type}) : Weighted[e] \in UpTo(hi)
<1> TAKE e \in OfType(rows, {type})
<1>1. e \in DOMAIN RowOf /\ RowOf[e].type = type
  BY DEF OfType, Rows
<1>2. Weighted[e] \in 0..One /\ Weighted[e] <= hi
  BY <1>1, WeightedBounds
<1>3. PICK x \in 0..One : x = Weighted[e]
  BY <1>2
<1>4. x \in Int /\ 0 <= x /\ x <= hi
  <2>1. x <= hi
    BY <1>2, <1>3
  <2>2. x \in Int /\ 0 <= x
    BY DEF One
  <2>3. QED
    BY <2>1, <2>2
<1>5. x \in UpTo(hi)
  BY <1>4 DEF UpTo
<1>6. QED
  BY <1>3, <1>5

\* What only machines observed stays below 0.6, unless a project gives static
\* analysis or comments more weight than hand-written documents have by default.
LEMMA ObservedBase ==
    ASSUME NEW rows \in SUBSET Rows, OfType(rows, Observations) = rows,
           WeightFor("static_analysis") <= 8750, WeightFor("code_comment") <= 5825
    PROVE  BaseConfidence(rows) \in UpTo(5999)
<1>1. \A e \in rows : e \in DOMAIN RowOf /\ RowOf[e].type \in Observations
  BY DEF OfType, Rows
<1>2. OfType(rows, Implementation) = {} /\ CountedTests(rows) = {}
  BY <1>1 DEF OfType, CountedTests, Implementation, Tests, Observations
<1>3. OfType(rows, Docs \cup {"code_comment"}) = OfType(rows, {"code_comment"})
  BY <1>1 DEF OfType, Docs, Observations
<1>4. \A types : OfType(rows, types) \in SUBSET DOMAIN RowOf
  BY <1>1 DEF OfType
<1>5. 8750 \in Nat /\ 5825 \in Nat /\ 2330 \in Nat /\ 7000 \in Nat
  OBVIOUS
<1>6. ImplementationConfidence(rows) \in UpTo(7000)
  <2>1. Alone(rows) \in UpTo(7000)
    BY <1>4, <1>5, WeightedUpTo, MeanUpTo, TimesUpTo DEF Alone
  <2>2. WithStatic(rows) = Alone(rows)
    BY <1>2 DEF WithStatic
  <2>3. AstConfidence(rows) \in UpTo(7000)
    <3>1. PICK a \in 0..One : a = AstConfidence(rows) /\ a <= 7000
      BY PartBounds DEF Shares
    <3>2. a \in UpTo(7000)
      <4>1. a \in Int /\ 0 <= a
        BY DEF One
      <4>2. a <= 7000
        BY <3>1
      <4>3. QED
        BY <4>1, <4>2 DEF UpTo
    <3>3. QED
      BY <3>1, <3>2
  <2>4. ToUnit(WithStatic(rows)) \in UpTo(7000)
    BY <2>1, <2>2, UnitUpTo
  <2>5. \/ ImplementationConfidence(rows) = ToUnit(WithStatic(rows))
        \/ ImplementationConfidence(rows) = Greatest(ToUnit(WithStatic(rows)), AstConfidence(rows))
    BY <1>2 DEF ImplementationConfidence
  <2>6. QED
    BY <2>3, <2>4, <2>5, UnitUpTo
<1>7. CoverageConfidence(rows) \in UpTo(10000)
  BY ConfidencesAreShares, ShareUpTo
<1>8. TestConfidence(rows) \in UpTo(6000)
  <2>1. TestConfidence(rows) = Greatest(ToUnit(0), Times(CoverageConfidence(rows), 6000))
    BY <1>2 DEF TestConfidence, Mean
  <2>2. QED
    BY <1>7, <2>1, TimesUpTo, UnitUpTo
<1>9. DocumentationConfidence(rows) \in UpTo(2330)
  <2>1. \A e \in OfType(rows, {"code_comment"}) : DocScore[e] \in UpTo(2330)
    <3> TAKE e \in OfType(rows, {"code_comment"})
    <3>1. DocScore[e] = Times(Weighted[e], 4000)
      BY <1>4 DEF DocScore, OfType
    <3>2. Weighted[e] \in UpTo(5825)
      BY <1>5, WeightedUpTo
    <3>3. QED
      BY <3>1, <3>2, TimesUpTo
  <2>2. Mean(OfType(rows, {"code_comment"}), DocScore) \in UpTo(2330)
    BY <1>4, <1>5, <2>1, MeanUpTo
  <2>3. QED
    BY <1>3, <2>2, UnitUpTo DEF DocumentationConfidence
<1>10. RuntimeConfidence(rows) \in UpTo(7000)
  <2> DEFINE scores == [e \in DOMAIN RowOf |-> IF RowOf[e].score >= 5000 THEN 7000 ELSE 4500]
  <2>1. 7000 \in UpTo(7000) /\ 4500 \in UpTo(7000)
    BY DEF UpTo
  <2>2. \A e \in OfType(rows, {"runtime"}) : scores[e] \in UpTo(7000)
    BY <1>4, <2>1
  <2> HIDE DEF scores
  <2>3. Mean(OfType(rows, {"runtime"}), scores) \in UpTo(7000)
    BY <1>4, <1>5, <2>2, MeanUpTo
  <2>4. RuntimeConfidence(rows) = ToUnit(Mean(OfType(rows, {"runtime"}), scores))
    BY DEF RuntimeConfidence, scores
  <2>5. QED
    BY <2>3, <2>4, UnitUpTo
<1>11. BaseConfidence(rows) =
         Together(ImplementationConfidence(rows), TestConfidence(rows), DocumentationConfidence(rows),
                  RuntimeConfidence(rows), CoverageConfidence(rows))
  BY DEF BaseConfidence, Together
<1>12. QED
  BY <1>6, <1>7, <1>8, <1>9, <1>10, <1>11, TogetherBelow

\* Conflicts and a status only lower a confidence, except what a human approved.
LEMMA OverallBelow ==
    ASSUME NEW rows \in SUBSET Rows, NEW status, NEW conflicts \in BOOLEAN, NEW human \in BOOLEAN,
           ~human, BaseConfidence(rows) \in UpTo(5999)
    PROVE  OverallConfidence(rows, status, conflicts, human) < 6000
<1>1. PICK b \in UpTo(5999) : b = BaseConfidence(rows)
  OBVIOUS
<1> DEFINE agreed == IF conflicts THEN Times(b, 5500) ELSE b
<1>2. agreed < 6000 /\ Times(agreed, 2500) < 6000
  BY DEF Times, One, UpTo
<1>3. \/ OverallConfidence(rows, status, conflicts, human) = Times(agreed, 2500)
      \/ OverallConfidence(rows, status, conflicts, human) = agreed
  BY <1>1 DEF OverallConfidence
<1>4. QED
  BY <1>2, <1>3

LEMMA ApprovedBound ==
    ASSUME NEW rows \in SUBSET Rows, NEW c \in BOOLEAN
    PROVE  Greatest(IF c THEN Times(BaseConfidence(rows), 5500) ELSE BaseConfidence(rows), 6000) >= 6000
<1>1. PICK b \in Shares : b = BaseConfidence(rows)
  BY BaseIsShare
<1>2. Greatest(IF c THEN Times(b, 5500) ELSE b, 6000) >= 6000
  BY DEF Greatest, Times, Shares, One
<1>3. QED
  BY <1>1, <1>2

\* Observations corroborate and never confirm, in every state: if no project
\* raises the weights of static analysis above 0.875 and of comments above 0.58.
\* They are 0.6 and 0.35 by default.
THEOREM ObservationsCorroborate ==
    ASSUME WeightFor("static_analysis") <= 8750, WeightFor("code_comment") <= 5825
    PROVE  RulesSpec => []ObservationsOnlyCorroborate
<1>1. ObservationsOnlyCorroborate
  <2> SUFFICES ASSUME NEW r \in DOMAIN rules
               PROVE  LET rows    == RowsOf(r)
                          human   == rules[r].status = "approved" /\ r \in approvals
                          score(c) == OverallConfidence(rows, rules[r].status, c, human)
                          without(types) == ImplementationConfidence(rows \ OfType(rows, types))
                      IN  /\ OfType(rows, Implementation) # {} =>
                                \A types \in SUBSET {"static_analysis", "ast"} :
                                    without(types) <= ImplementationConfidence(rows)
                          /\ OfType(rows, Observations) = rows /\ ~human => \A c \in BOOLEAN : score(c) < 6000
                          /\ human => \A c \in BOOLEAN : score(c) >= 6000
    BY DEF ObservationsOnlyCorroborate
  <2> DEFINE rows  == RowsOf(r)
             human == rules[r].status = "approved" /\ r \in approvals
  <2>1. rows \in SUBSET Rows /\ human \in BOOLEAN
    BY DEF RowsOf
  <2>2. OfType(rows, Implementation) # {} =>
           \A types \in SUBSET {"static_analysis", "ast"} :
               ImplementationConfidence(rows \ OfType(rows, types)) <= ImplementationConfidence(rows)
    <3> HIDE DEF rows
    <3>1. QED
      BY <2>1, ObservationsAdd
  <2>3. ASSUME OfType(rows, Observations) = rows, ~human, NEW c \in BOOLEAN
        PROVE  OverallConfidence(rows, rules[r].status, c, human) < 6000
    <3> HIDE DEF rows, human
    <3>1. BaseConfidence(rows) \in UpTo(5999)
      BY <2>1, <2>3, ObservedBase
    <3>2. QED
      BY <2>1, <2>3, <3>1, OverallBelow
  <2>4. ASSUME human, NEW c \in BOOLEAN
        PROVE  OverallConfidence(rows, rules[r].status, c, human) >= 6000
    <3>1. rules[r].status = "approved"
      BY <2>4
    <3> HIDE DEF rows, human
    <3>2. OverallConfidence(rows, rules[r].status, c, human) =
             Greatest(IF c THEN Times(BaseConfidence(rows), 5500) ELSE BaseConfidence(rows), 6000)
      BY <2>4, <3>1 DEF OverallConfidence
    <3>3. QED
      BY <2>1, <3>2, ApprovedBound
  <2>5. QED
    BY <2>2, <2>3, <2>4
<1>2. QED
  BY <1>1, PTL
=============================================================================
