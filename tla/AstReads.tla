------------------------------ MODULE AstReads ------------------------------
(***************************************************************************)
(* Bounded reads of the persisted trees of one analysis version            *)
(* (ast_read_repository.py): pages of children, subtrees, the node at an   *)
(* offset and searches, while the documents are written and deleted under  *)
(* the reader (ast_write_repository.py, modelled in full by AstStore).     *)
(* What a stored payload satisfies is what the codec demands when it       *)
(* encodes it and again when it decodes it (ast_payload_codec.py).         *)
(*                                                                         *)
(* Every read is one step: it decodes one payload and answers from it.  A  *)
(* sequence of pages is several steps, so the tree may change between two. *)
(*                                                                         *)
(* Abstractions: node keys, ordinals and offsets are small integers; an    *)
(* opaque node reference is the document and the node key it encodes, and  *)
(* the order of references is the order of keys; types, categories, flags  *)
(* and names of nodes are left out, so a search is by range; the version   *)
(* fits into one batch of decode_for_documents; documents whose node count *)
(* is not their payload's (AstStore), which every read refuses, are left   *)
(* out.                                                                    *)
(***************************************************************************)
EXTENDS Integers, Sequences, FiniteSets, SequencesExt, FiniteSetsExt

CONSTANTS
    DocumentOrder,  \* the documents of the version, ordered by path
    Payloads,       \* what a parser may hand to the writer: sets of node records
    Offsets,        \* byte offsets asked for
    PageSizes,      \* values of limit
    Depths,         \* values of max_depth
    NodeLimits,     \* values of max_nodes
    None            \* no document, no parent, no cursor, nothing read

VARIABLES
    stored,     \* the payload each document decodes to, None when there is none
    unpacked,   \* the documents that are stored, and have no packed payload yet
    pages,      \* the pages of children read so far in one traversal
    answer      \* the last answer that is not a page

readVars == <<stored, unpacked, pages, answer>>

Documents == Range(DocumentOrder)

\* The positions of siblings: (sibling_ordinal, id).
Position(n) == <<n.ordinal, n.key>>

\* Payloads are finite and their numbers are numbers.
ASSUME PayloadsAssumption ==
    /\ None \notin Payloads
    /\ \A tree \in Payloads :
          /\ IsFiniteSet(tree)
          /\ \A n \in tree : /\ n.key \in Int /\ n.ordinal \in Int /\ n.start \in Int /\ n.end \in Int
                              /\ None \notin {n.key, Position(n)}

\* What _bounded_limit and bounded_subtree let through.
ASSUME LimitsAssumption ==
    /\ DocumentOrder \in Seq(Range(DocumentOrder))
    /\ PageSizes \subseteq Nat \ {0} /\ NodeLimits \subseteq Nat \ {0}
    /\ Depths \subseteq Nat /\ Offsets \subseteq Int

-----------------------------------------------------------------------------
(* The trees a payload may hold.                                           *)

Keys(tree) == {n.key : n \in tree}

\* One more level of children.
Grown(tree, keys) == keys \cup {n.key : n \in {m \in tree : m.parent \in keys}}

\* The nodes at most `depth` levels below a node.
WithinDepth(tree, key, depth) ==
    LET Level[i \in 0 .. depth] == IF i = 0 THEN {key} ELSE Grown(tree, Level[i - 1])
    IN  Level[depth]

Reach(tree, root) == WithinDepth(tree, root, Cardinality(tree))

\* _validate_tree: unique keys, one root, every parent present, one node per
\* sibling position, everything reachable from the root.  An empty tree is fine.
IsTree(tree) ==
    tree # {} =>
        /\ Cardinality(Keys(tree)) = Cardinality(tree)
        /\ \E root \in tree :
              /\ {n \in tree : n.parent = None} = {root}
              /\ Reach(tree, root.key) = Keys(tree)
        /\ \A m, n \in tree : <<m.parent, m.ordinal>> = <<n.parent, n.ordinal>> => m = n

\* The payloads that encode_ast_payload and decode_ast_payload let through.
Encodable == {t \in Payloads : IsTree(t)}

Node(tree, key) == CHOOSE n \in tree : n.key = key

-----------------------------------------------------------------------------
(* What the writers do, as a reader sees it.                               *)

\* create_from_record, replacing what was there, with a payload that is packed
\* in a later transaction.
CreateDocument(d) ==
    /\ stored' = [stored EXCEPT ![d] = None]
    /\ unpacked' = unpacked \cup {d}
    /\ UNCHANGED <<pages, answer>>

\* replace_for_source and persist_packed_for_document.  An invalid tree is
\* refused and the transaction rolls back.
StoreDocument(d, tree) ==
    /\ tree \in Encodable
    /\ stored' = [stored EXCEPT ![d] = tree]
    /\ unpacked' = unpacked \ {d}
    /\ UNCHANGED <<pages, answer>>

\* The document is deleted (delete_scoped) or its version expires.
DropDocument(d) ==
    /\ stored[d] # None \/ d \in unpacked
    /\ stored' = [stored EXCEPT ![d] = None]
    /\ unpacked' = unpacked \ {d}
    /\ UNCHANGED <<pages, answer>>

-----------------------------------------------------------------------------
(* Reads.                                                                  *)

\* _packed_node_context: the document and the node are still there.
Resolves(d, key) == stored[d] # None /\ key \in Keys(stored[d])

\* The keys of a function in order, which gives for each what comes before it.
Sorted(before) ==
    [i \in 1 .. Cardinality(DOMAIN before) |->
        CHOOSE n \in DOMAIN before : Cardinality(before[n]) = i - 1]

Before(p, q) == p[1] < q[1] \/ (p[1] = q[1] /\ p[2] < q[2])

InOrder(nodes) == Sorted([n \in nodes |-> {m \in nodes : Before(Position(m), Position(n))}])

ChildrenOf(tree, key) == {n \in tree : n.parent = key}

\* The children of a node in the order of (sibling_ordinal, id).
Children(tree, key) == InOrder(ChildrenOf(tree, key))

FirstOf(limit, rows) == SubSeq(rows, 1, Min({limit, Len(rows)}))

EmptyPage == [items |-> <<>>, next |-> None]

NextCursorSkipping(rows, limit) ==
    IF Len(rows) > limit THEN Position(rows[limit + 1]) ELSE None
NextCursor(rows, limit) ==
    IF Len(rows) > limit THEN Position(rows[limit]) ELSE None

\* The rows after a cursor, still in order.
After(tree, key, cursor) ==
    IF cursor = None THEN Children(tree, key)
    ELSE InOrder({n \in ChildrenOf(tree, key) : Before(cursor, Position(n))})

\* list_children.  A reference that does not resolve yields an empty last page.
ChildrenPage(d, key, limit, cursor) ==
    IF ~Resolves(d, key) THEN EmptyPage
    ELSE LET rows == After(stored[d], key, cursor)
         IN  [items |-> FirstOf(limit, rows), next |-> NextCursor(rows, limit)]

\* A walk that ended for want of depth or room says so, even when what it did
\* not look at turns out to be leaves.
CutByRoom(w, maxDepth, maxNodes) ==
    w.truncated \/ (w.frontier # <<>> /\ Len(w.items) = maxNodes)
Cut(w, maxDepth, maxNodes) ==
    w.truncated \/ (w.frontier # <<>> /\ (w.depth = maxDepth \/ Len(w.items) = maxNodes))

Start(root) ==
    [items |-> <<[key |-> root, depth |-> 0]>>, frontier |-> <<root>>, depth |-> 0, truncated |-> FALSE]

\* The children of the frontier, in the order of the frontier.
NextLevel(tree, w) == FlattenSeq([j \in DOMAIN w.frontier |-> Children(tree, w.frontier[j])])

Deeper(tree, w, maxNodes) ==
    LET room == maxNodes - Len(w.items)
        kids == NextLevel(tree, w)
        taken == FirstOf(room, kids)
    IN  IF w.frontier = <<>> \/ room = 0 THEN w
        ELSE [items |-> w.items \o [j \in DOMAIN taken |-> [key |-> taken[j].key, depth |-> w.depth + 1]],
              frontier |-> [j \in DOMAIN taken |-> taken[j].key],
              depth |-> w.depth + 1,
              truncated |-> w.truncated \/ Len(kids) > room]

\* _walk_packed_subtree: level by level, at most max_nodes, at most max_depth.
Walk(tree, root, maxDepth, maxNodes) ==
    LET Level[i \in 0 .. maxDepth] ==
            IF i = 0 THEN Start(root) ELSE Deeper(tree, Level[i - 1], maxNodes)
        last == Level[maxDepth]
    IN  [items |-> last.items, truncated |-> Cut(last, maxDepth, maxNodes)]

\* bounded_subtree
Subtree(d, key, maxDepth, maxNodes) ==
    IF Resolves(d, key) THEN Walk(stored[d], key, maxDepth, maxNodes)
    ELSE [items |-> <<>>, truncated |-> FALSE]

\* find_containing_node: the shortest range, then the latest start, then the key.
Containing(d, offset) ==
    LET hits == IF stored[d] = None THEN {} ELSE {n \in stored[d] : n.start <= offset /\ offset < n.end}
        Tighter(m, n) == \/ m.end - m.start < n.end - n.start
                         \/ /\ m.end - m.start = n.end - n.start
                            /\ m.start > n.start \/ (m.start = n.start /\ m.key < n.key)
    IN  IF hits = {} THEN <<>> ELSE <<CHOOSE n \in hits : \A m \in hits \ {n} : Tighter(n, m)>>

\* _filter_packed_records
Overlaps(tree, lo, hi) == {n \in tree : n.start < hi /\ n.end > lo}

Overlapping(tree, lo, hi) ==
    LET Earlier(m, n) == \/ m.start < n.start
                         \/ /\ m.start = n.start
                            /\ m.end < n.end \/ (m.end = n.end /\ m.key < n.key)
    IN  Sorted([n \in Overlaps(tree, lo, hi) |-> {m \in Overlaps(tree, lo, hi) : Earlier(m, n)}])

\* _search_nodes_across_documents raises when a document has no packed payload.
Searchable == unpacked = {}

Found(d, lo, hi) ==
    LET hits == IF stored[d] = None THEN <<>> ELSE Overlapping(stored[d], lo, hi)
    IN  [i \in DOMAIN hits |-> <<d, hits[i]>>]

\* search_nodes over the given documents: the first `limit` matches, with no
\* sign that there are more.
Search(docs, lo, hi, limit) ==
    FirstOf(limit, FlattenSeq([i \in DOMAIN docs |-> Found(docs[i], lo, hi)]))
=============================================================================
