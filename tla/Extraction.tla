----------------------------- MODULE Extraction -----------------------------
(***************************************************************************)
(* Extraction of one analysis version: a worker pages through the eligible *)
(* files (source_file_repository.py), ingests the feature files and links   *)
(* their steps, while sessions store graph results and claims, and a reader *)
(* searches the graph.                                                     *)
(*                                                                         *)
(* The loop around the repository's batch query is the caller's: it asks    *)
(* for the batch after the last path it got until a batch is empty.  While  *)
(* it runs, an override may classify a file anew.                           *)
(***************************************************************************)
EXTENDS BddFeatures

CONSTANTS
    Files,          \* the paths of the inventory, as numbers in path order
    BatchSize,
    FeatureAt,      \* file -> the feature file it is, or None
    MaxOps,         \* bound on the operations of sessions
    InitialTexts,   \* the texts the feature files may have at first
    MaxSearches,    \* bound on the searches
    MaxOverrides    \* bound on changes of classification or text while it runs

VARIABLES
    eligible,   \* the files whose classification is eligible for extraction
    content,    \* feature file -> its text
    cursor,     \* the last path the worker got, None before the first batch
    batch,      \* the files of the batch still to do, in path order
    attempted,  \* files the worker has got
    linked,     \* whether it has linked the steps
    ops,        \* operations of sessions started so far
    asked,      \* searches started so far
    overrides

workerVars == <<eligible, content, cursor, batch, attempted, linked, overrides>>

allVars == <<graphVars, searchVars, claimVars, bddVars, workerVars, ops, asked>>

ASSUME FilesAssumption ==
    /\ Files \in SUBSET Nat /\ IsFiniteSet(Files)
    /\ FeatureAt \in [Files -> FeatureFiles \cup {None}]

ASSUME InitialTextsAssumption == InitialTexts \subseteq Texts

ExtractionInit ==
    /\ GraphInit /\ SearchInit /\ ClaimsInit /\ BddInit
    /\ eligible = Files
    /\ content \in [FeatureFiles -> InitialTexts]
    /\ cursor = None /\ batch = {} /\ attempted = {} /\ linked = FALSE /\ ops = 0 /\ asked = 0 /\ overrides = 0

-----------------------------------------------------------------------------
(***************************************************************************)
(* The worker                                                              *)
(***************************************************************************)

\* list_eligible_for_extraction_batch: the next files in path order.
NextBatchInclusive ==
    LET rest == {f \in eligible : cursor = None \/ f >= cursor}
    IN  {f \in rest : Cardinality({g \in rest : g < f}) < BatchSize}
NextBatch ==
    LET rest == {f \in eligible : cursor = None \/ f > cursor}
    IN  {f \in rest : Cardinality({g \in rest : g < f}) < BatchSize}

FetchBatch ==
    /\ batch = {} /\ NextBatch # {} /\ ~linked /\ search = None
    /\ batch' = NextBatch /\ cursor' = Max(NextBatch)
    /\ attempted' = attempted \cup NextBatch
    /\ UNCHANGED <<graphVars, searchVars, claimVars, bddVars, eligible, content, linked, overrides, ops, asked>>

ProcessFile ==
    /\ batch # {}
    /\ batch' = batch \ {Min(batch)}
    /\ LET f == FeatureAt[Min(batch)]
       IN  IF f = None THEN UNCHANGED bddVars ELSE IngestFeature(f, content[f])
    /\ UNCHANGED <<graphVars, searchVars, claimVars, eligible, content, cursor, attempted, linked, overrides, ops, asked>>

\* With no file left the worker links the steps.
LinkAll ==
    /\ batch = {} /\ NextBatch = {} /\ ~linked
    /\ LinkSteps /\ linked' = TRUE
    /\ UNCHANGED <<graphVars, searchVars, claimVars, eligible, content, cursor, batch, attempted,
                   overrides, ops, asked>>

Worker == FetchBatch \/ ProcessFile \/ LinkAll

\* A file gets another classification or another text.
Override ==
    /\ overrides < MaxOverrides /\ asked = 0 /\ overrides' = overrides + 1
    /\ \/ \E f \in Files :
             eligible' = (IF f \in eligible THEN eligible \ {f} ELSE eligible \cup {f})
          /\ UNCHANGED content
       \/ \E f \in FeatureFiles, text \in Texts :
             text # content[f] /\ content' = [content EXCEPT ![f] = text]
          /\ UNCHANGED eligible
    /\ UNCHANGED <<graphVars, searchVars, claimVars, bddVars, cursor, batch, attempted, linked, ops, asked>>

\* The next extraction of the version starts from the first path.
Restart ==
    /\ linked /\ linked' = FALSE
    /\ overrides > 0 /\ ops < MaxOps /\ ops' = ops + 1
    /\ cursor' = None /\ attempted' = {}
    /\ UNCHANGED <<graphVars, searchVars, claimVars, bddVars, eligible, content, batch, overrides, asked>>

-----------------------------------------------------------------------------
(***************************************************************************)
(* Everyone else                                                           *)
(***************************************************************************)

Start(s) ==
    /\ ops < MaxOps /\ ops' = ops + 1
    /\ \/ /\ \E p \in Payloads : AnswerKnown(s, p) \/ BeginUpsert(s, p)
          /\ UNCHANGED <<searchVars, claimVars>>
       \/ PersistBatch(s) \/ PersistStructural(s) \/ MigrateRules(s)
       \/ \E draft \in ScenarioDrafts : BeginClaims(s, <<draft>>, <<>>)
    /\ UNCHANGED <<bddVars, workerVars, asked>>

Finish(s) ==
    /\ \/ (CommitUpsert(s) \/ RefuseUpsert(s)) /\ UNCHANGED <<searchVars, claimVars>>
       \/ CommitClaims(s) \/ RefuseClaims(s)
    /\ UNCHANGED <<bddVars, workerVars, ops, asked>>

\* Searches share no table with the worker and with overrides, so their steps
\* commute: as a bound, the reader asks before the worker starts, the worker waits
\* for it, and no behavior has both a search and an override.
Ask ==
    /\ cursor = None /\ overrides = 0 /\ asked < MaxSearches /\ asked' = asked + 1
    /\ \E q \in Searches : StartSearch(q)
    /\ UNCHANGED <<graphVars, claimVars, bddVars, workerVars, ops>>

Search ==
    /\ SearchStep
    /\ UNCHANGED <<graphVars, claimVars, bddVars, workerVars, ops, asked>>

ExtractionNext ==
    \/ Worker \/ Override \/ Restart \/ Ask \/ Search
    \/ \E s \in Sessions : Start(s) \/ Finish(s)

\* The worker and the reader go on while they have work; no session need ever
\* start or finish an operation.
ExtractionSpec ==
    ExtractionInit /\ [][ExtractionNext]_allVars /\ WF_allVars(Worker) /\ WF_allVars(Search)

-----------------------------------------------------------------------------
(***************************************************************************)
(* Properties                                                              *)
(***************************************************************************)

\* Each table's keys are keys the program makes, and what the worker still has
\* to do it has got.
ExtractionTypeOK ==
    /\ eligible \subseteq Files /\ attempted \subseteq Files
    /\ cursor \in Files \cup {None} /\ batch \subseteq attempted
    /\ DOMAIN nodes \subseteq UNION {NodeKeys(p) : p \in Payloads}
    /\ DOMAIN edges \subseteq UNION {EdgeKeys(p) : p \in Payloads}
    /\ Range(nodes) \cup Range(edges) \subseteq DOMAIN providerRuns
    /\ \A f \in FeatureFiles : features[f] # None => features[f].text \in Texts

\* "Uses keyset pagination on path so every eligible file is eventually
\* attempted": an extraction gets every file that is eligible while it runs,
\* whatever becomes of the files around it.
EveryFileAttempted ==
    \A f \in Files : cursor = None ~> f \in attempted \/ f \notin eligible
=============================================================================
