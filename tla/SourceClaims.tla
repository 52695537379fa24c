---------------------------- MODULE SourceClaims ----------------------------
(***************************************************************************)
(* Source claims and their evidence (claims/claim_service.py): persist_claim*)
(* stores one draft and commits, persist_claims a worker's batch in the     *)
(* caller's transaction; drafts come from providers, from the structural    *)
(* graph and from the rules of earlier versions.                           *)
(*                                                                         *)
(* A draft is [key, from, node, edges, confidence]: two drafts have one key *)
(* when they agree on provider, path, line and text (claim_canonical_key),  *)
(* and may differ in all else.  The key is unique: a session that inserts   *)
(* one another session committed since it looked is refused.               *)
(***************************************************************************)
EXTENDS GraphSearch

CONSTANTS
    Batches,    \* the batches (sequences of drafts) that providers hand in
    OldRules,   \* the rules migrated to claims: [name, score], in query order
    Pattern,    \* node -> kind of structural pattern, or None
    ClaimOf     \* node -> the key of a structural claim about it

ASSUME BatchesAssumption == \A batch \in Batches : batch \in Seq(Range(batch))

VARIABLES
    claims,     \* key -> the draft the row was made of
    evidence    \* key -> sequence of the drafts whose evidence was inserted

claimVars == <<claims, evidence>>

ClaimsInit == claims = <<>> /\ evidence = <<>>

-----------------------------------------------------------------------------
(***************************************************************************)
(* Drafts                                                                  *)
(***************************************************************************)

\* extract_structural_claims_from_graph: one draft for each node with a pattern,
\* in any order, citing (up to 20 of) the edges at the node now.
StructuralDraft(n) ==
    [key |-> ClaimOf[n], from |-> "structural_graph", node |-> n,
     edges |-> {e \in DOMAIN edges : n \in Ends(e)}, confidence |-> 50]

StructuralBatches ==
    LET found == {n \in DOMAIN nodes : Pattern[n] # None}
    IN  {[i \in DOMAIN order |-> StructuralDraft(order[i])] : order \in SetToSeqs(found)}

\* The draft migrate_heuristic_rules_to_claims makes of a rule: a rule without a
\* score counts as 25, and no score lifts the claim above 45 percent.
HeuristicDraft(rule) ==
    LET score == IF rule.score \in {None, 0} THEN 25 ELSE rule.score
    IN  [key |-> <<"heuristic", rule.name>>, from |-> "heuristic", node |-> None, edges |-> {},
         confidence |-> IF score > 45 THEN 45 ELSE score]

-----------------------------------------------------------------------------
(***************************************************************************)
(* Operations                                                              *)
(***************************************************************************)

\* persist_claim on a table: an existing claim is kept as it is.
PersistedOne(table, draft) ==
    [k \in DOMAIN table \cup {draft.key} |-> IF k \in DOMAIN table THEN table[k] ELSE draft]

\* persist_claims: the first draft of each key that had no row when the batch
\* looked becomes a row.
CreatedEach(batch, known) == {i \in DOMAIN batch : batch[i].key \notin known}
Created(batch, known) ==
    {i \in DOMAIN batch :
        batch[i].key \notin known /\ \A j \in 1..(i - 1) : batch[j].key # batch[i].key}

RowsLast(batch, created) ==
    [k \in {batch[i].key : i \in created} |->
        batch[CHOOSE i \in DOMAIN batch : batch[i].key = k /\ \A j \in DOMAIN batch : batch[j].key = k => i >= j]]
Rows(batch, created) ==
    [k \in {batch[i].key : i \in created} |->
        batch[CHOOSE i \in created : batch[i].key = k /\ \A j \in created : batch[j].key = k => i <= j]]

\* Every draft of created adds its evidence to the row of its key.
EvidenceRows(batch, created) ==
    [k \in {batch[i].key : i \in created} |->
        [n \in 1..Cardinality({i \in created : batch[i].key = k}) |->
            batch[CHOOSE i \in created : batch[i].key = k
                    /\ Cardinality({j \in created : batch[j].key = k /\ j < i}) = n - 1]]]

\* What a session knows when it starts on a batch; the batches it has left are
\* those of a migration, which persists and commits rule after rule.
Looking(batch, left, table) ==
    [op |-> "claims", batch |-> batch, known |-> DOMAIN table, left |-> left]

BeginClaims(s, batch, left) ==
    /\ Idle(s)
    /\ work' = [work EXCEPT ![s] = Looking(batch, left, claims)]
    /\ UNCHANGED <<nodes, edges, observations, providerRuns, returned, search, claims, evidence>>

PersistBatch(s) == \E batch \in Batches : BeginClaims(s, batch, <<>>)

PersistStructural(s) == \E batch \in StructuralBatches : batch # <<>> /\ BeginClaims(s, batch, <<>>)

MigrateRules(s) ==
    LET drafts == [i \in DOMAIN OldRules |-> HeuristicDraft(OldRules[i])]
    IN  drafts # <<>> /\ BeginClaims(s, <<Head(drafts)>>, Tail(drafts))

\* The unique key of source_claims.
ClaimsAreFree(w) ==
    {w.batch[i].key : i \in Created(w.batch, w.known)} \cap DOMAIN claims = {}

Added(table, rows) ==
    [k \in DOMAIN table \cup DOMAIN rows |-> IF k \in DOMAIN rows THEN rows[k] ELSE table[k]]

CommitClaims(s) ==
    LET w == work[s]
        created == Created(w.batch, w.known)
    IN  /\ ~Idle(s) /\ w.op = "claims" /\ ClaimsAreFree(w)
        /\ claims' = Added(claims, Rows(w.batch, created))
        /\ evidence' = Added(evidence, EvidenceRows(w.batch, created))
        /\ work' = [work EXCEPT ![s] =
                       IF w.left = <<>> THEN None
                       ELSE Looking(<<Head(w.left)>>, Tail(w.left), claims')]
        /\ UNCHANGED <<nodes, edges, observations, providerRuns, returned, search>>

RefuseClaims(s) ==
    /\ ~Idle(s) /\ work[s].op = "claims" /\ ~ClaimsAreFree(work[s])
    /\ work' = [work EXCEPT ![s] = None]
    /\ UNCHANGED <<nodes, edges, observations, providerRuns, returned, search, claims, evidence>>

-----------------------------------------------------------------------------
(***************************************************************************)
(* Properties                                                              *)
(***************************************************************************)

\* "The first draft wins and later duplicates return that same row without
\* adding duplicate evidence": the evidence of a claim comes from the draft the
\* claim was made of, once, in whatever batches and sessions its key recurs.
EvidenceOnce ==
    DOMAIN evidence = DOMAIN claims /\ \A k \in DOMAIN claims : evidence[k] = <<claims[k]>>

\* A batch leaves the claims that persisting its drafts one after the other
\* would leave.
BatchLikeSingles ==
    [][\A s \in Sessions :
          ~Idle(s) /\ work[s].op = "claims" /\ claims' # claims /\ work'[s] # work[s] =>
              claims' = FoldLeft(PersistedOne, claims, work[s].batch)]_<<claims, work>>
=============================================================================
