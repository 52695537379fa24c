------------------------------ MODULE AstStore ------------------------------
(***************************************************************************)
(* The versioned AST store of persistence: parse runs, documents, the      *)
(* immutable payloads that documents of several versions share, the packed *)
(* blob of a payload, and the links between nodes (models/ast.py), with    *)
(* the operations of ast_write_repository.py and the deletion in           *)
(* ast_lifecycle_repository.py.                                            *)
(*                                                                         *)
(* Each operation is one step.  What it reads before it writes cannot      *)
(* change under it: identifiers are never reused, a blob never changes,    *)
(* and a row that goes away is caught by a foreign key, a unique           *)
(* constraint or the row count of an update, which rolls the operation     *)
(* back.  An operation that is refused changes nothing and has no step.    *)
(*                                                                         *)
(* Abstractions: one project; a source file stands for its document key    *)
(* too; the parser identity is part of the content; a tree is its set of   *)
(* node keys; a version has at most one parse run, and its documents       *)
(* belong to it; links that point to no AST node are left out.             *)
(***************************************************************************)
EXTENDS Integers, FiniteSets

CONSTANTS
    Versions,   \* analysis versions
    Files,      \* source files
    Contents,   \* content hashes, with the parser's identity
    Trees,      \* the trees a parser may produce, each a set of node keys
    NoBlob,     \* a payload that has no packed blob yet
    MaxLinks    \* bound on the number of links at any time

ASSUME TreesAssumption == NoBlob \notin Trees /\ \A t \in Trees : IsFiniteSet(t)

VARIABLES
    runs,       \* ast_parse_runs: the versions that have one
    payloads,   \* ast_payloads and ast_payload_blobs: <<file, content>> -> tree or NoBlob
    docs,       \* ast_documents: <<version, file>> -> [content, count]
    links       \* ast_node_links

storeVars == <<runs, payloads, docs, links>>

DocId == Versions \X Files

PayloadId == Files \X Contents

Document == [content : Contents, count : Nat]

Node == UNION Trees

Link == [from : DocId, node : Node, to : DocId, target : Node]

Stored == DOMAIN docs

PayloadOf(d) == <<d[2], docs[d].content>>

TreeOf(d) == payloads[PayloadOf(d)]

StoreInit ==
    /\ runs = {}
    /\ payloads = <<>>
    /\ docs = <<>>
    /\ links = {}

-----------------------------------------------------------------------------

\* AstParseRunRepository.create_from_record
CreateRun(v) ==
    /\ runs' = runs \cup {v}
    /\ UNCHANGED <<payloads, docs, links>>

\* get_for_record found nothing: create_for_record
CreatePayload(p) ==
    /\ p \notin DOMAIN payloads
    /\ payloads' = [q \in DOMAIN payloads \cup {p} |-> IF q = p THEN NoBlob ELSE payloads[q]]
    /\ UNCHANGED <<runs, docs, links>>

\* The foreign key of target_ast_document_id, once the document's own links
\* are deleted.
DeletableAlways(d) == TRUE
Deletable(d) == \A l \in links : l.to = d => l.from = d

\* delete_scoped: only the links FROM the document are deleted with it.
DeleteDocument(d) ==
    /\ d \in Stored
    /\ Deletable(d)
    /\ docs' = [e \in Stored \ {d} |-> docs[e]]
    /\ links' = {l \in links : l.from # d}
    /\ UNCHANGED <<runs, payloads>>

\* replace_for_source: delete_scoped if the source has a document, then
\* create_from_record, with a node count of 0 whatever the payload holds.
ReplaceDocument(d, c) ==
    /\ d[1] \in runs
    /\ <<d[2], c>> \in DOMAIN payloads
    /\ Deletable(d)
    /\ docs' = [e \in Stored \cup {d} |->
                   IF e = d THEN [content |-> c, count |-> 0] ELSE docs[e]]
    /\ links' = {l \in links : l.from # d}
    /\ UNCHANGED <<runs, payloads>>

\* create_for_node_records: a blob is written once; the same tree again is
\* accepted, another one refused.
WritableAlways(d, t) == TRUE
Writable(d, t) == TreeOf(d) \in {NoBlob, t}

\* persist_packed_for_document: the count is set on this document only.
PersistPacked(d, t) ==
    /\ d \in Stored
    /\ Writable(d, t)
    /\ payloads' = [payloads EXCEPT ![PayloadOf(d)] = t]
    /\ docs' = [docs EXCEPT ![d] = [@ EXCEPT !.count = Cardinality(t)]]
    /\ UNCHANGED <<runs, links>>

\* decode_for_documents returns the document's tree: there is a blob, and
\* its size is the document's count.
Decodes(d) ==
    /\ d \in Stored
    /\ TreeOf(d) # NoBlob
    /\ Cardinality(TreeOf(d)) = docs[d].count

\* bulk_create_for_document, for one link: the nodes at both ends are looked
\* up in the decoded trees, the target's document by version and key.
AddLink(l) ==
    /\ Cardinality(links) < MaxLinks
    /\ l.from[1] = l.to[1]
    /\ Decodes(l.from) /\ l.node \in TreeOf(l.from)
    /\ Decodes(l.to) /\ l.target \in TreeOf(l.to)
    /\ links' = links \cup {l}
    /\ UNCHANGED <<runs, payloads, docs>>

\* Links that go with the deleted documents.
LinksLeft(gone) == {l \in links : l.from \notin gone /\ l.to \notin gone}

\* Payloads of deleted documents that no document refers to any more, in any
\* version.
OrphanedInVersion(gone) ==
    {PayloadOf(d) : d \in gone}
        \ {PayloadOf(d) : d \in {e \in Stored \ gone : e[1] \in {g[1] : g \in gone}}}
Orphaned(gone) == {PayloadOf(d) : d \in gone} \ {PayloadOf(d) : d \in Stored \ gone}

\* delete_expired_versions, for the versions it found expired: their
\* documents except the protected ones, the links from and to them, their
\* payloads with the blobs, and the runs left without documents.
DeleteExpired(expired, protected) ==
    LET gone == {d \in Stored : d[1] \in expired} \ protected
        kept == Stored \ gone
    IN  /\ docs' = [d \in kept |-> docs[d]]
        /\ links' = LinksLeft(gone)
        /\ payloads' = [p \in DOMAIN payloads \ Orphaned(gone) |-> payloads[p]]
        /\ runs' = runs \ (expired \ {d[1] : d \in kept})

-----------------------------------------------------------------------------
(***************************************************************************)
(* Properties                                                              *)
(***************************************************************************)

\* Documents refer to existing runs and payloads, links to existing
\* documents, and the columns have their types.
StoreTypeOK ==
    /\ runs \subseteq Versions
    /\ DOMAIN payloads \subseteq PayloadId
    /\ \A p \in DOMAIN payloads : payloads[p] \in Trees \cup {NoBlob}
    /\ Stored \subseteq DocId
    /\ \A d \in Stored :
           docs[d] \in Document /\ d[1] \in runs /\ PayloadOf(d) \in DOMAIN payloads
    /\ links \subseteq Link
    /\ \A l \in links : l.from \in Stored /\ l.to \in Stored

\* A link is looked up once, when it is created, and never again: from then
\* on both its documents stay decodable and hold its nodes, whatever is
\* replaced, repacked or expired (bulk_create_for_document).
LinksResolve ==
    \A l \in links :
        /\ l.from[1] = l.to[1]
        /\ Decodes(l.from) /\ l.node \in TreeOf(l.from)
        /\ Decodes(l.to) /\ l.target \in TreeOf(l.to)

\* A document whose nodes were persisted can be decoded for as long as it
\* exists, although its payload is shared with documents of versions that
\* expire (the NOT EXISTS of delete_expired_versions) and may be packed again
\* through any of them (create_for_node_records).
PersistedDocumentsDecode == \A d \in Stored : docs[d].count > 0 => Decodes(d)

\* "Write-once": the tree of a payload never changes, so that a tree a
\* session has cached (_decoded_by_scope) is the one in the store.
DecodedTreesNeverChange ==
    [][\A p \in DOMAIN payloads :
           payloads[p] # NoBlob /\ p \in DOMAIN payloads' => payloads'[p] = payloads[p]]_storeVars
=============================================================================
