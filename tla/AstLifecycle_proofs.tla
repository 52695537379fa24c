------------------------- MODULE AstLifecycle_proofs -------------------------
(***************************************************************************)
(* For every set of versions, files, contents, trees and sessions: the     *)
(* store stays well-formed and its links and documents decodable.  When    *)
(* operations do not overlap (Serial), the active version is never         *)
(* superseded and retention leaves building and ready versions alone.      *)
(***************************************************************************)
EXTENDS AstLifecycle, TLAPS, FiniteSetTheorems

\* What the store keeps, whatever the sessions do.
StoreInv == StoreTypeOK /\ LinksResolve /\ PersistedDocumentsDecode

-----------------------------------------------------------------------------
(***************************************************************************)
(* The store's operations, one lemma each                                  *)
(***************************************************************************)

\* The size of a tree is a natural number.
LEMMA CountIsNat ==
    ASSUME NEW t \in Trees
    PROVE  Cardinality(t) \in Nat
  BY TreesAssumption, FS_CardinalityType

\* Documents and trees the step leaves as they are decode as before.
LEMMA DecodesKept ==
    ASSUME NEW d, Decodes(d), d \in DOMAIN docs', docs'[d] = docs[d],
           PayloadOf(d) \in DOMAIN payloads',
           payloads'[PayloadOf(d)] = payloads[PayloadOf(d)]
    PROVE  /\ Decodes(d)'
           /\ TreeOf(d)' = TreeOf(d)
           /\ PayloadOf(d)' = PayloadOf(d)
  BY DEF Decodes, TreeOf, PayloadOf, Stored

\* Creating a run changes nothing a document or a link depends on.
LEMMA CreateRunKeeps ==
    ASSUME StoreInv, NEW v \in Versions, CreateRun(v)
    PROVE  StoreInv'
  BY DEF StoreInv, CreateRun, StoreTypeOK, LinksResolve, PersistedDocumentsDecode,
         Decodes, TreeOf, PayloadOf, Stored

\* A new payload has no document yet.
LEMMA CreatePayloadKeeps ==
    ASSUME StoreInv, NEW p \in PayloadId, CreatePayload(p)
    PROVE  StoreInv'
  <1> USE DEF StoreInv
  <1>1. \A q \in DOMAIN payloads : q \in DOMAIN payloads' /\ payloads'[q] = payloads[q]
    BY DEF CreatePayload
  <1>2. /\ docs' = docs /\ links' = links /\ runs' = runs
        /\ Stored' = Stored
        /\ \A d \in Stored : PayloadOf(d) \in DOMAIN payloads
    BY DEF CreatePayload, StoreTypeOK, Stored
  <1>3. \A d : Decodes(d) => Decodes(d)' /\ TreeOf(d)' = TreeOf(d)
    BY <1>1, <1>2 DEF Decodes, TreeOf, PayloadOf, Stored
  <1>4. StoreTypeOK'
    BY <1>1, <1>2 DEF CreatePayload, StoreTypeOK, PayloadOf, Stored
  <1>5. LinksResolve'
    BY <1>2, <1>3 DEF LinksResolve
  <1>6. PersistedDocumentsDecode'
    BY <1>2, <1>3 DEF PersistedDocumentsDecode
  <1> QED BY <1>4, <1>5, <1>6

\* No link that stays touches the deleted document: it was not a target, and
\* the links from it are deleted.
LEMMA DeleteDocumentKeeps ==
    ASSUME StoreInv, NEW d \in DocId, DeleteDocument(d)
    PROVE  StoreInv'
  <1> USE DEF StoreInv
  <1>1. /\ Stored' = Stored \ {d} /\ payloads' = payloads /\ runs' = runs
        /\ \A e \in Stored \ {d} : docs'[e] = docs[e]
    BY DEF DeleteDocument, Stored
  <1>2. \A e \in Stored \ {d} : (Decodes(e) => Decodes(e)') /\ TreeOf(e)' = TreeOf(e)
                                    /\ PayloadOf(e)' = PayloadOf(e)
    BY <1>1 DEF Decodes, TreeOf, PayloadOf, Stored
  <1>3. \A l \in links' : l \in links /\ l.from # d /\ l.to # d
    BY DEF DeleteDocument, Deletable
  <1>4. StoreTypeOK'
    BY <1>1, <1>2, <1>3 DEF StoreTypeOK
  <1>5. LinksResolve'
    BY <1>2, <1>3 DEF LinksResolve, Decodes
  <1>6. PersistedDocumentsDecode'
    BY <1>1, <1>2 DEF PersistedDocumentsDecode
  <1> QED BY <1>4, <1>5, <1>6

\* The same for a replacement, which starts again with a count of 0.
LEMMA ReplaceDocumentKeeps ==
    ASSUME StoreInv, NEW d \in DocId, NEW c \in Contents, ReplaceDocument(d, c)
    PROVE  StoreInv'
  <1> USE DEF StoreInv
  <1>1. /\ Stored' = Stored \cup {d} /\ payloads' = payloads /\ runs' = runs
        /\ \A e \in Stored \ {d} : docs'[e] = docs[e]
        /\ docs'[d] = [content |-> c, count |-> 0]
    BY DEF ReplaceDocument, Stored
  <1>2. \A e \in Stored \ {d} : (Decodes(e) => Decodes(e)') /\ TreeOf(e)' = TreeOf(e)
                                    /\ PayloadOf(e)' = PayloadOf(e)
    BY <1>1 DEF Decodes, TreeOf, PayloadOf, Stored
  <1>3. \A l \in links' : l \in links /\ l.from # d /\ l.to # d
    BY DEF ReplaceDocument, Deletable
  <1>4. docs'[d] \in Document /\ d[1] \in runs /\ PayloadOf(d)' \in DOMAIN payloads
    BY <1>1 DEF ReplaceDocument, Document, PayloadOf
  <1>5. StoreTypeOK'
    BY <1>1, <1>2, <1>3, <1>4 DEF StoreTypeOK
  <1>6. LinksResolve'
    BY <1>2, <1>3 DEF LinksResolve, Decodes
  <1>7. PersistedDocumentsDecode'
    BY <1>1, <1>2 DEF PersistedDocumentsDecode
  <1> QED BY <1>5, <1>6, <1>7

\* Packing a payload again changes no tree, so every document that decoded
\* still does; the packed one decodes with its new count.
LEMMA PersistPackedKeeps ==
    ASSUME StoreInv, NEW d \in DocId, NEW t \in Trees, PersistPacked(d, t)
    PROVE  StoreInv'
  <1> USE DEF StoreInv
  <1>1. /\ d \in Stored /\ Stored' = Stored /\ links' = links /\ runs' = runs
        /\ \A e \in Stored : docs[e] \in Document /\ PayloadOf(e) \in DOMAIN payloads
    BY DEF PersistPacked, Stored, StoreTypeOK
  <1>2. /\ docs' = [docs EXCEPT ![d] = [docs[d] EXCEPT !.count = Cardinality(t)]]
        /\ payloads' = [payloads EXCEPT ![PayloadOf(d)] = t]
        /\ TreeOf(d) \in {NoBlob, t}
    BY DEF PersistPacked, Writable
  <1>3. \A e \in Stored : /\ docs'[e].content = docs[e].content
                          /\ docs'[e] \in Document
                          /\ PayloadOf(e)' = PayloadOf(e)
    BY <1>1, <1>2, CountIsNat DEF Document, PayloadOf, Stored
  <1>4. \A e \in Stored \ {d} : docs'[e] = docs[e]
    BY <1>2 DEF Stored
  <1>5. docs'[d].count = Cardinality(t)
    BY <1>1, <1>2 DEF Document, Stored
  <1>6. TreeOf(d)' = t /\ t # NoBlob
    BY <1>1, <1>2, <1>3, TreesAssumption DEF TreeOf
  <1>7. \A e \in Stored : TreeOf(e) # NoBlob => TreeOf(e)' = TreeOf(e)
    BY <1>1, <1>2, <1>3 DEF TreeOf
  <1>8. \A e \in Stored : Decodes(e) => Decodes(e)' /\ TreeOf(e)' = TreeOf(e)
    <2> SUFFICES ASSUME NEW e \in Stored, Decodes(e) PROVE Decodes(e)' /\ TreeOf(e)' = TreeOf(e)
      OBVIOUS
    <2>1. CASE e = d
      BY <2>1, <1>1, <1>5, <1>6, <1>7 DEF Decodes
    <2>2. CASE e # d
      BY <2>2, <1>1, <1>4, <1>7 DEF Decodes
    <2> QED BY <2>1, <2>2
  <1>9. StoreTypeOK'
    <2>1. DOMAIN payloads' = DOMAIN payloads
          /\ \A p \in DOMAIN payloads' : payloads'[p] \in Trees \cup {NoBlob}
      BY <1>2 DEF StoreTypeOK
    <2> QED BY <2>1, <1>1, <1>3 DEF StoreTypeOK
  <1>10. LinksResolve'
    BY <1>1, <1>8 DEF LinksResolve, StoreTypeOK
  <1>11. PersistedDocumentsDecode'
    <2> SUFFICES ASSUME NEW e \in Stored, docs'[e].count > 0 PROVE Decodes(e)'
      BY <1>1 DEF PersistedDocumentsDecode
    <2>1. CASE e = d
      BY <2>1, <1>1, <1>5, <1>6 DEF Decodes
    <2>2. CASE e # d
      BY <2>2, <1>4, <1>8 DEF PersistedDocumentsDecode
    <2> QED BY <2>1, <2>2
  <1> QED BY <1>9, <1>10, <1>11

\* A link is added only between nodes that were just decoded.
LEMMA AddLinkKeeps ==
    ASSUME StoreInv, NEW l \in Link, AddLink(l)
    PROVE  StoreInv'
  <1> USE DEF StoreInv
  <1>1. /\ docs' = docs /\ payloads' = payloads /\ runs' = runs /\ links' = links \cup {l}
        /\ l.from \in Stored /\ l.to \in Stored
    BY DEF AddLink, Decodes
  <1>2. \A d : /\ Decodes(d)' <=> Decodes(d)
               /\ TreeOf(d)' = TreeOf(d)
               /\ PayloadOf(d)' = PayloadOf(d)
    BY <1>1 DEF Decodes, TreeOf, PayloadOf, Stored
  <1>3. StoreTypeOK'
    BY <1>1, <1>2 DEF StoreTypeOK, Stored
  <1>4. LinksResolve'
    BY <1>1, <1>2 DEF LinksResolve, AddLink
  <1>5. PersistedDocumentsDecode'
    BY <1>1, <1>2 DEF PersistedDocumentsDecode, Stored
  <1> QED BY <1>3, <1>4, <1>5

\* A document that stays keeps its payload, because the payload is referred
\* to; a link that stays keeps both its documents.
LEMMA DeleteExpiredKeeps ==
    ASSUME StoreInv, NEW expired, NEW protected, DeleteExpired(expired, protected)
    PROVE  StoreInv'
  <1> USE DEF StoreInv
  <1> DEFINE gone == {d \in Stored : d[1] \in expired} \ protected
             kept == Stored \ gone
  <1>1. /\ Stored' = kept
        /\ links' = LinksLeft(gone)
        /\ DOMAIN payloads' = DOMAIN payloads \ Orphaned(gone)
        /\ \A p \in DOMAIN payloads' : payloads'[p] = payloads[p]
        /\ runs' = runs \ (expired \ {d[1] : d \in kept})
        /\ \A d \in kept : docs'[d] = docs[d]
    BY DEF DeleteExpired, Stored
  <1>2. \A d \in kept : PayloadOf(d) \in DOMAIN payloads'
    BY <1>1 DEF Orphaned, StoreTypeOK
  <1>3. \A d \in kept : /\ Decodes(d) => Decodes(d)'
                        /\ TreeOf(d)' = TreeOf(d)
                        /\ PayloadOf(d)' = PayloadOf(d)
    BY <1>1, <1>2 DEF Decodes, TreeOf, PayloadOf
  <1>4. \A l \in links' : l \in links /\ l.from \in kept /\ l.to \in kept
    BY <1>1 DEF LinksLeft, StoreTypeOK
  <1>5. \A d \in kept : d[1] \in runs'
    BY <1>1 DEF StoreTypeOK
  <1>6. StoreTypeOK'
    BY <1>1, <1>2, <1>3, <1>4, <1>5 DEF StoreTypeOK
  <1>7. LinksResolve'
    BY <1>3, <1>4 DEF LinksResolve
  <1>8. PersistedDocumentsDecode'
    BY <1>1, <1>3 DEF PersistedDocumentsDecode
  <1> QED BY <1>6, <1>7, <1>8

\* A step that leaves the store's tables alone.
LEMMA StoreUnchanged ==
    ASSUME StoreInv, UNCHANGED storeVars
    PROVE  StoreInv'
  BY DEF StoreInv, storeVars, StoreTypeOK, LinksResolve, PersistedDocumentsDecode,
         Decodes, TreeOf, PayloadOf, Stored

\* The steps of a scan.
LEMMA StoreStepKeeps ==
    ASSUME StoreInv, StoreStep
    PROVE  StoreInv'
  <1>1. CASE \E v \in Versions : Exists(v) /\ CreateRun(v)
    BY <1>1, CreateRunKeeps
  <1>2. CASE \E p \in PayloadId : CreatePayload(p)
    BY <1>2, CreatePayloadKeeps
  <1>3. CASE \E d \in DocId : DeleteDocument(d)
    BY <1>3, DeleteDocumentKeeps
  <1>4. CASE \E d \in DocId, c \in Contents : ReplaceDocument(d, c)
    BY <1>4, ReplaceDocumentKeeps
  <1>5. CASE \E d \in DocId, t \in Trees : PersistPacked(d, t)
    BY <1>5, PersistPackedKeeps
  <1>6. CASE \E l \in Link : AddLink(l)
    BY <1>6, AddLinkKeeps
  <1> QED BY <1>1, <1>2, <1>3, <1>4, <1>5, <1>6 DEF StoreStep

-----------------------------------------------------------------------------
(***************************************************************************)
(* The steps of AstLifecycle                                               *)
(***************************************************************************)

\* What every step preserves, overlapping or not.
LInv == TypeOK /\ LinksResolve /\ PersistedDocumentsDecode

LEMMA InitLInv == Init => LInv
  BY DEF Init, StoreInit, LInv, TypeOK, StoreTypeOK, LinksResolve, PersistedDocumentsDecode,
         Stored, Status, Pending

\* The types of the versions' part, step by step.
LEMMA TypesKept ==
    ASSUME LInv, StoreTypeOK', Next
    PROVE  TypeOK'
  <1> USE DEF LInv, TypeOK, Status, Pending, Begin, End
  <1>1. PICK s \in Sessions : \/ Start(s)
                             \/ ActivateCommit(s)
                             \/ \E protected \in SUBSET DocId : RetainCommit(s, protected)
    BY DEF Next
  <1>2. ASSUME NEW v \in Versions, CreateBuilding(v) \/ Finalize(v) \/ MarkFailed(v)
        PROVE  TypeOK'
    BY <1>2 DEF CreateBuilding, Finalize, MarkFailed
  <1>3. ASSUME NEW v \in Versions, ActivateRead(s, v)
        PROVE  TypeOK'
    BY <1>3 DEF ActivateRead, Others
  <1>4. ASSUME NEW expired \in SUBSET Versions, RetainRead(s, expired)
        PROVE  TypeOK'
    BY <1>4 DEF RetainRead
  <1>5. CASE StoreStep
    BY <1>5 DEF StoreStep
  <1>6. CASE ActivateCommit(s)
    <2>1. pend[s] \in Pending /\ pend[s].op = "activate"
      BY <1>6 DEF ActivateCommit
    <2>2. pend[s].version \in Versions
      BY <2>1
    <2>3. status' \in [Versions -> Status]
      BY <1>6, <2>2 DEF ActivateCommit
    <2>4. active' \in Versions \cup {None}
      BY <1>6, <2>2 DEF ActivateCommit, Pointer
    <2>5. pend' \in [Sessions -> Pending]
      BY <1>6 DEF ActivateCommit
    <2> QED BY <2>3, <2>4, <2>5
  <1>7. ASSUME NEW protected, RetainCommit(s, protected)
        PROVE  TypeOK'
    BY <1>7 DEF RetainCommit
  <1> QED BY <1>1, <1>2, <1>3, <1>4, <1>5, <1>6, <1>7 DEF Start

LEMMA StepKeepsStore ==
    ASSUME LInv, Next
    PROVE  StoreInv'
  <1> USE DEF LInv, TypeOK
  <1>1. StoreInv
    BY DEF StoreInv
  <1>2. PICK s \in Sessions : \/ Start(s)
                             \/ ActivateCommit(s)
                             \/ \E protected \in SUBSET DocId : RetainCommit(s, protected)
    BY DEF Next
  <1>3. CASE StoreStep
    BY <1>1, <1>3, StoreStepKeeps
  <1>4. CASE UNCHANGED storeVars
    BY <1>1, <1>4, StoreUnchanged
  <1>5. ASSUME NEW protected, RetainCommit(s, protected)
        PROVE  StoreInv'
    BY <1>1, <1>5, DeleteExpiredKeeps DEF RetainCommit
  <1>6. Start(s) => StoreStep \/ UNCHANGED storeVars
    BY DEF Start, CreateBuilding, Finalize, MarkFailed, ActivateRead, RetainRead
  <1>7. ActivateCommit(s) => UNCHANGED storeVars
    BY DEF ActivateCommit
  <1> QED BY <1>2, <1>3, <1>4, <1>5, <1>6, <1>7

LEMMA StepKeepsLInv ==
    ASSUME LInv, [Next]_vars
    PROVE  LInv'
  <1>1. CASE Next
    <2>1. StoreInv'
      BY <1>1, StepKeepsStore
    <2>2. TypeOK'
      BY <1>1, <2>1, TypesKept DEF StoreInv
    <2> QED BY <2>1, <2>2 DEF LInv, StoreInv
  <1>2. CASE UNCHANGED vars
    <2>1. UNCHANGED storeVars /\ UNCHANGED <<status, active, pend>>
      BY <1>2 DEF vars, storeVars
    <2>2. StoreInv'
      BY <2>1, StoreUnchanged DEF LInv, StoreInv, TypeOK
    <2>3. TypeOK'
      BY <2>1, <2>2 DEF LInv, StoreInv, TypeOK
    <2> QED BY <2>2, <2>3 DEF LInv, StoreInv
  <1> QED BY <1>1, <1>2

LEMMA LInvAlways == Spec => []LInv
  BY InitLInv, StepKeepsLInv, PTL DEF Spec

\* The tables have their types and every foreign key its row, for any number
\* of overlapping sessions.
THEOREM LifecycleTypeCorrect == Spec => []TypeOK
  <1>1. LInv => TypeOK
    BY DEF LInv
  <1> QED BY <1>1, LInvAlways, PTL

\* A link checked when it was created resolves ever after.
THEOREM LinksAlwaysResolve == Spec => []LinksResolve
  <1>1. LInv => LinksResolve
    BY DEF LInv
  <1> QED BY <1>1, LInvAlways, PTL

\* A document whose nodes were persisted can be decoded as long as it exists,
\* with whichever documents of other versions it shares its payload.
THEOREM DocumentsAlwaysDecode == Spec => []PersistedDocumentsDecode
  <1>1. LInv => PersistedDocumentsDecode
    BY DEF LInv
  <1> QED BY <1>1, LInvAlways, PTL

-----------------------------------------------------------------------------
(***************************************************************************)
(* A blob is written once                                                  *)
(***************************************************************************)

\* The tree of a payload that exists before and after a step is the same.
TreesFixed ==
    \A p \in DOMAIN payloads :
        payloads[p] # NoBlob /\ p \in DOMAIN payloads' => payloads'[p] = payloads[p]

LEMMA StepKeepsTrees ==
    ASSUME LInv, [Next]_vars
    PROVE  TreesFixed
  <1>1. CASE UNCHANGED payloads
    BY <1>1 DEF TreesFixed
  <1>2. ASSUME NEW p, CreatePayload(p)
        PROVE  TreesFixed
    BY <1>2 DEF CreatePayload, TreesFixed
  <1>3. ASSUME NEW d, NEW t, PersistPacked(d, t)
        PROVE  TreesFixed
    BY <1>3 DEF PersistPacked, Writable, TreeOf, TreesFixed
  <1>4. ASSUME NEW expired, NEW protected, DeleteExpired(expired, protected)
        PROVE  TreesFixed
    BY <1>4 DEF DeleteExpired, TreesFixed
  <1>5. StoreStep => \/ UNCHANGED payloads
                     \/ \E p : CreatePayload(p)
                     \/ \E d, t : PersistPacked(d, t)
    BY DEF StoreStep, CreateRun, DeleteDocument, ReplaceDocument, AddLink
  <1>6. ASSUME NEW s, Start(s)
        PROVE  StoreStep \/ UNCHANGED payloads
    BY <1>6 DEF Start, CreateBuilding, Finalize, MarkFailed, ActivateRead, RetainRead, storeVars
  <1>7. ASSUME NEW s, ActivateCommit(s)
        PROVE  UNCHANGED payloads
    BY <1>7 DEF ActivateCommit, storeVars
  <1>8. ASSUME NEW s, NEW protected, RetainCommit(s, protected)
        PROVE  TreesFixed
    BY <1>8, <1>4 DEF RetainCommit
  <1>9. CASE Next
    BY <1>9, <1>1, <1>2, <1>3, <1>5, <1>6, <1>7, <1>8 DEF Next
  <1>10. CASE UNCHANGED vars
    BY <1>10, <1>1 DEF vars
  <1> QED BY <1>9, <1>10

\* Cached trees stay those of the store, for any number of sessions.
THEOREM BlobsWrittenOnce == Spec => DecodedTreesNeverChange
  <1>1. LInv /\ [Next]_vars => [TreesFixed]_storeVars
    BY StepKeepsTrees
  <1>2. DecodedTreesNeverChange <=> [][TreesFixed]_storeVars
    BY DEF DecodedTreesNeverChange, TreesFixed
  <1> QED BY <1>1, <1>2, LInvAlways, PTL DEF Spec

-----------------------------------------------------------------------------
(***************************************************************************)
(* Operations that do not overlap                                          *)
(***************************************************************************)

\* One session: between the read and the commit of an operation nothing
\* else happens.
Serial == \A s, t \in Sessions : s = t

\* What a session read is still so when it commits: the versions to expire
\* are superseded or failed, the versions to supersede are the other ready
\* ones, and the pointer and the status it loaded are current.
VersionsReadStillTrue ==
    \A s \in Sessions :
        /\ pend[s].op = "retain" => pend[s].expired \subseteq Terminal
        /\ pend[s].op = "activate" =>
               /\ pend[s].others = Others(pend[s].version)
               /\ pend[s].was = status[pend[s].version]
               /\ pend[s].pointer = active
               /\ status[pend[s].version] # "none"

\* The inductive invariant: a version is superseded only by an activation
\* that moves the pointer away from it, from values that are current.
SInv == LInv /\ ActiveNeverSuperseded /\ VersionsReadStillTrue

LEMMA InitSInv == Init => SInv
  BY InitLInv DEF Init, SInv, ActiveNeverSuperseded, VersionsReadStillTrue

LEMMA SerialStepKeepsSInv ==
    ASSUME Serial, SInv, [Next]_vars
    PROVE  SInv'
  <1> USE DEF SInv
  <1>1. LInv'
    BY StepKeepsLInv
  <1>2. /\ status \in [Versions -> Status] /\ active \in Versions \cup {None}
        /\ pend \in [Sessions -> Pending] /\ None \notin Versions
    BY NoVersionAssumption DEF LInv, TypeOK
  <1>3. CASE UNCHANGED <<status, active, pend>>
    BY <1>1, <1>3 DEF ActiveNeverSuperseded, VersionsReadStillTrue, Terminal, Others
  <1>4. ASSUME NEW s \in Sessions, Idle(s),
               NEW v \in Versions, CreateBuilding(v) \/ Finalize(v) \/ MarkFailed(v)
        PROVE  SInv'
    <2>1. pend' = pend /\ active' = active /\ \A t \in Sessions : pend[t].op = "idle"
      BY <1>4 DEF CreateBuilding, Finalize, MarkFailed, Idle, Serial
    <2>2. ActiveNeverSuperseded'
      BY <1>2, <1>4, <2>1 DEF CreateBuilding, Finalize, MarkFailed, ActiveNeverSuperseded
    <2>3. VersionsReadStillTrue'
      BY <2>1 DEF VersionsReadStillTrue
    <2> QED BY <1>1, <2>2, <2>3
  <1>5. ASSUME NEW s \in Sessions, NEW v \in Versions, ActivateRead(s, v)
        PROVE  SInv'
    <2>1. /\ UNCHANGED <<status, active>>
          /\ status[v] # "none"
          /\ pend'[s] = [op |-> "activate", version |-> v, was |-> status[v],
                         others |-> Others(v), pointer |-> active]
          /\ \A t \in Sessions : t = s
      BY <1>2, <1>5 DEF ActivateRead, Exists, Begin, Serial
    <2>2. Others(v)' = Others(v)
      BY <2>1 DEF Others
    <2>3. VersionsReadStillTrue'
      BY <2>1, <2>2 DEF VersionsReadStillTrue
    <2>4. ActiveNeverSuperseded'
      BY <2>1 DEF ActiveNeverSuperseded
    <2> QED BY <1>1, <2>3, <2>4
  <1>6. ASSUME NEW s \in Sessions, NEW expired, RetainRead(s, expired)
        PROVE  SInv'
    <2>1. /\ UNCHANGED <<status, active>>
          /\ pend'[s] = [op |-> "retain", expired |-> expired]
          /\ expired \subseteq Terminal
          /\ \A t \in Sessions : t = s
      BY <1>2, <1>6 DEF RetainRead, Begin, Serial
    <2>2. VersionsReadStillTrue'
      BY <2>1 DEF VersionsReadStillTrue, Terminal
    <2>3. ActiveNeverSuperseded'
      BY <2>1 DEF ActiveNeverSuperseded
    <2> QED BY <1>1, <2>2, <2>3
  <1>7. ASSUME NEW s \in Sessions, ActivateCommit(s)
        PROVE  SInv'
    <2> DEFINE p == pend[s]
    <2>1. /\ p \in Pending /\ p.op = "activate"
          /\ p.others = Others(p.version) /\ p.was = status[p.version]
          /\ p.pointer = active /\ status[p.version] # "none"
      BY <1>2, <1>7 DEF ActivateCommit, VersionsReadStillTrue
    <2>2. p.version \in Versions
      BY <2>1 DEF Pending
    <2>3. active' = p.version
      BY <1>7, <2>1 DEF ActivateCommit, Pointer
    <2>4. status'[p.version] = "ready"
      BY <1>7, <2>1, <2>2 DEF ActivateCommit, Others
    <2>5. \A t \in Sessions : pend'[t].op = "idle"
      BY <1>2, <1>7 DEF ActivateCommit, End, Serial
    <2> QED BY <1>1, <2>3, <2>4, <2>5 DEF ActiveNeverSuperseded, VersionsReadStillTrue
  <1>8. ASSUME NEW s \in Sessions, NEW protected, RetainCommit(s, protected)
        PROVE  SInv'
    <2>1. UNCHANGED <<status, active>> /\ \A t \in Sessions : pend'[t].op = "idle"
      BY <1>2, <1>8 DEF RetainCommit, End, Serial
    <2> QED BY <1>1, <2>1 DEF ActiveNeverSuperseded, VersionsReadStillTrue
  <1>9. CASE Next
    BY <1>9, <1>3, <1>4, <1>5, <1>6, <1>7, <1>8 DEF Next, Start, StoreStep
  <1> QED BY <1>3, <1>9 DEF vars

LEMMA SInvAlways == ASSUME Serial PROVE Spec => []SInv
  BY InitSInv, SerialStepKeepsSInv, PTL DEF Spec

\* Without overlapping operations the version a project shows is never
\* superseded.
THEOREM ActiveStaysCurrent == ASSUME Serial PROVE Spec => []ActiveNeverSuperseded
  <1>1. SInv => ActiveNeverSuperseded
    BY DEF SInv
  <1> QED BY <1>1, SInvAlways, PTL

\* What expiring does to the documents and links of a live version.
LiveSpared ==
    \A s \in Sessions :
        pend[s].op = "retain" /\ pend'[s].op = "idle" =>
            /\ \A d \in Stored :
                   status[d[1]] \in {"building", "ready"} =>
                       d \in DOMAIN docs' /\ docs'[d] = docs[d]
                           /\ PayloadOf(d) \in DOMAIN payloads'
            /\ \A l \in links : status[l.from[1]] \in {"building", "ready"} => l \in links'

LEMMA RetainSparesLive ==
    ASSUME SInv, NEW s \in Sessions, NEW protected, RetainCommit(s, protected)
    PROVE  LiveSpared
  <1> DEFINE expired == pend[s].expired
             gone == {d \in Stored : d[1] \in expired} \ protected
             kept == Stored \ gone
  <1>1. expired \subseteq Terminal
    BY DEF RetainCommit, SInv, VersionsReadStillTrue
  <1>2. \A d \in gone : status[d[1]] \notin {"building", "ready"}
    BY <1>1 DEF Terminal
  <1>3. /\ docs' = [d \in kept |-> docs[d]]
        /\ links' = LinksLeft(gone)
        /\ payloads' = [p \in DOMAIN payloads \ Orphaned(gone) |-> payloads[p]]
    BY DEF RetainCommit, DeleteExpired
  <1>4. ASSUME NEW d \in Stored, status[d[1]] \in {"building", "ready"}
        PROVE  d \in DOMAIN docs' /\ docs'[d] = docs[d] /\ PayloadOf(d) \in DOMAIN payloads'
    <2>1. d \in kept
      BY <1>2, <1>4
    <2>2. PayloadOf(d) \in DOMAIN payloads /\ PayloadOf(d) \notin Orphaned(gone)
      BY <2>1 DEF Orphaned, SInv, LInv, TypeOK, StoreTypeOK
    <2> QED BY <1>3, <2>1, <2>2
  <1>5. ASSUME NEW l \in links, status[l.from[1]] \in {"building", "ready"}
        PROVE  l \in links'
    <2>1. l.from[1] = l.to[1]
      BY DEF SInv, LInv, LinksResolve
    <2> QED BY <1>2, <1>3, <1>5, <2>1 DEF LinksLeft
  <1> QED BY <1>4, <1>5 DEF LiveSpared

LEMMA StepSparesLive ==
    ASSUME Serial, SInv, [Next]_vars
    PROVE  LiveSpared
  <1>1. pend \in [Sessions -> Pending]
    BY DEF SInv, LInv, TypeOK
  <1>2. ASSUME NEW s \in Sessions, NEW protected, RetainCommit(s, protected)
        PROVE  LiveSpared
    BY <1>2, RetainSparesLive
  <1>3. CASE pend' = pend
    BY <1>3 DEF LiveSpared
  <1>4. ASSUME NEW s \in Sessions, Start(s)
        PROVE  LiveSpared
    BY <1>1, <1>4 DEF Start, Idle, Serial, LiveSpared
  <1>5. ASSUME NEW s \in Sessions, ActivateCommit(s)
        PROVE  LiveSpared
    BY <1>1, <1>5 DEF ActivateCommit, Serial, LiveSpared
  <1> QED BY <1>2, <1>3, <1>4, <1>5 DEF Next, vars

\* Without overlapping operations, expiring old versions leaves the ASTs of
\* building and ready versions untouched, shared payloads included.
THEOREM LiveVersionsSpared == ASSUME Serial PROVE Spec => RetentionSparesLiveVersions
  <1>1. ASSUME SInv /\ [Next]_vars PROVE [LiveSpared]_vars
    BY <1>1, StepSparesLive
  <1>2. RetentionSparesLiveVersions <=> [][LiveSpared]_vars
    BY DEF RetentionSparesLiveVersions, LiveSpared
  <1> QED BY <1>1, <1>2, SInvAlways, PTL DEF Spec

\* What an activation does to the versions it did not name.
AloneReady ==
    \A s \in Sessions :
        ActivateCommit(s) =>
            \A v \in Versions \ {pend[s].version} : status'[v] # "ready"

LEMMA StepActivatesAlone ==
    ASSUME SInv
    PROVE  AloneReady
  <1> SUFFICES ASSUME NEW s \in Sessions, ActivateCommit(s),
                      NEW v \in Versions, v # pend[s].version
               PROVE  status'[v] # "ready"
    BY DEF AloneReady
  <1>1. pend[s].others = Others(pend[s].version)
    BY DEF ActivateCommit, SInv, VersionsReadStillTrue
  <1>2. status'[v] = IF v \in pend[s].others THEN "superseded" ELSE status[v]
    BY DEF ActivateCommit
  <1>3. CASE status[v] = "ready"
    BY <1>1, <1>2, <1>3 DEF Others
  <1>4. CASE status[v] # "ready"
    BY <1>2, <1>4
  <1> QED BY <1>3, <1>4

\* Without overlapping operations, a finished activation leaves its version
\* the only ready one, however many were finalized before it.
THEOREM AloneWhenActivated == ASSUME Serial PROVE Spec => ActivatedAlone
  <1>1. ASSUME SInv /\ [Next]_vars PROVE [AloneReady]_vars
    BY <1>1, StepActivatesAlone
  <1>2. ActivatedAlone <=> [][AloneReady]_vars
    BY DEF ActivatedAlone, AloneReady
  <1> QED BY <1>1, <1>2, SInvAlways, PTL DEF Spec
=============================================================================
