---------------------------- MODULE Investigation ----------------------------
(***************************************************************************)
(* One investigation of an analysis version by a model: a model that       *)
(* satisfies the requirements is chosen, the model asks for pages of       *)
(* children and other reads while the trees are written and deleted under  *)
(* it, a terminal decision ends the reading, and the proposals that        *)
(* validate are normalized into claims.                                    *)
(*                                                                         *)
(* The loop that drives an investigation is not in the repository: the     *)
(* packages supply its reads, records and validators.  It is taken to do   *)
(* what those records are for: stop reading once the budget is exhausted,  *)
(* follow next_cursor in a later call, and accept only records that        *)
(* construct.  The model itself is not trusted, so any read of the         *)
(* instance, any decision and any proposal about what was read may come.   *)
(***************************************************************************)
EXTENDS AstReads, AstProposals, AgentModels

CONSTANTS
    Models,         \* capabilities of the models on offer
    Requirements,   \* AstAgentCapabilityRequirements
    Limits,         \* AstMcpBudgetLimits
    Decisions,      \* terminal decisions the model may send
    Proposals,      \* proposals without their AST citations
    Scope,          \* the project and version investigated
    Allowed,        \* evidence roles the policy allows
    MaxProposals    \* bound on the proposals of one investigation

VARIABLES
    phase,      \* choosing, reading, proposing or closed
    used,       \* AstMcpBudgetConsumption
    found,      \* the AST citations the model can make, from what it read
    batch,      \* the proposals that validated, in order
    claims      \* the claims they were normalized into

\* What AstRuleProposal parses into: lists, and a confidence from zero to one.
ASSUME ProposalsAssumption ==
    /\ Certain \in Nat
    /\ \A p \in Proposals :
          /\ DOMAIN p = {"text", "behavior", "status", "intent", "exception", "ast", "evidence",
                         "confidence", "uncertain", "approves"}
          /\ p.evidence \in Seq(Range(p.evidence))
          /\ p.confidence \in 0 .. Certain

vars == <<stored, unpacked, pages, answer, phase, used, found, batch, claims>>

Init ==
    /\ stored \in [Documents -> Encodable \cup {None}]
    /\ unpacked \in SUBSET {d \in Documents : stored[d] = None}
    /\ pages = None /\ answer = None
    /\ phase = "choosing"
    /\ used = NothingUsed
    /\ found = {} /\ batch = <<>> /\ claims = {}

\* evaluate_ast_agent_capabilities lets some model through.
Choose ==
    /\ phase = "choosing"
    /\ \E m \in Models : Compatible(m, Requirements)
    /\ phase' = "reading"
    /\ UNCHANGED <<stored, unpacked, pages, answer, used, found, batch, claims>>

-----------------------------------------------------------------------------
(* Tool calls.  Reads change nothing that is stored, so it is enough to    *)
(* remember the last of them: a traversal with its pages, or an answer.    *)

\* One call that returned n nodes.
Call(n, failed) ==
    /\ phase = "reading"
    /\ ~Exhausted(used, Limits)
    /\ used' = Spent(used, [calls |-> 1, nodes |-> n, errors |-> IF failed THEN 1 ELSE 0])
    /\ UNCHANGED <<stored, unpacked, phase, found, batch, claims>>

\* list_ast_children without a cursor.
OpenPages(d, key, limit) ==
    LET page == ChildrenPage(d, key, limit, None)
    IN  /\ Call(Len(page.items), FALSE)
        /\ pages' = [doc |-> d, key |-> key, limit |-> limit, items |-> page.items,
                     next |-> page.next, trees |-> {stored[d]}]
        /\ answer' = None

\* list_ast_children with the cursor of the page before.
NextPage ==
    /\ pages # None /\ pages.next # None
    /\ LET page == ChildrenPage(pages.doc, pages.key, pages.limit, pages.next)
       IN  /\ Call(Len(page.items), FALSE)
           /\ pages' = [pages EXCEPT !.items = @ \o page.items, !.next = page.next,
                                     !.trees = @ \cup {stored[pages.doc]}]
    /\ UNCHANGED answer

\* get_ast_subtree
ReadSubtree(d, key, maxDepth, maxNodes) ==
    LET result == Subtree(d, key, maxDepth, maxNodes)
    IN  /\ Call(Len(result.items), FALSE)
        /\ answer' = [kind |-> "subtree", doc |-> d, tree |-> stored[d], key |-> key,
                      depth |-> maxDepth, limit |-> maxNodes,
                      items |-> result.items, truncated |-> result.truncated]
        /\ pages' = None

\* find_containing_node
ReadContaining(d, offset) ==
    LET hit == Containing(d, offset)
    IN  /\ Call(Len(hit), FALSE)
        /\ answer' = [kind |-> "containing", doc |-> d, tree |-> stored[d], offset |-> offset, items |-> hit]
        /\ pages' = None

\* find_ast_nodes over the version; an empty or negative range is an error, and
\* so is a document that is not packed.
ReadSearch(lo, hi, limit) ==
    IF hi <= lo \/ ~Searchable THEN Call(0, TRUE) /\ UNCHANGED <<pages, answer>>
    ELSE LET hits == Search(DocumentOrder, lo, hi, limit)
         IN  /\ Call(Len(hits), FALSE)
             /\ answer' = [kind |-> "search", trees |-> stored, lo |-> lo, hi |-> hi,
                           limit |-> limit, items |-> hits]
             /\ pages' = None

Read ==
    \/ \E d \in Documents : stored[d] # None /\
          \/ \E key \in Keys(stored[d]) :
                \/ \E limit \in PageSizes : OpenPages(d, key, limit)
                \/ \E depth \in Depths, limit \in NodeLimits : ReadSubtree(d, key, depth, limit)
          \/ \E offset \in Offsets : ReadContaining(d, offset)
    \/ NextPage
    \/ \E lo, hi \in Offsets, limit \in PageSizes : ReadSearch(lo, hi, limit)

-----------------------------------------------------------------------------
(* Decisions.                                                              *)

\* AstNoRuleResult
HonestNoRule(r) ==
    /\ r.conclusive => r.cites /\ r.reason # "insufficient_evidence"
    /\ ~r.conclusive => r.uncertain

\* AstInvestigationDecision, the terminal ones.
ValidDecision(d) ==
    /\ d.stop # None
    /\ (d.kind = "no_rule") = (d.noRule # None)
    /\ d.kind = "no_rule" => HonestNoRule(d.noRule) /\ d.stop \in {"no_rule_found", "insufficient_evidence"}
    /\ (d.kind = "propose_rule") = d.summary
    /\ d.kind = "propose_rule" => d.stop = "rule_proposed"

\* What the model has seen of the trees, as citations.
Seen ==
    {[doc |-> pages.doc, key |-> pages.items[i].key, scope |-> Scope] :
        i \in IF pages = None THEN {} ELSE DOMAIN pages.items}
    \cup {[doc |-> answer.doc, key |-> answer.items[i].key, scope |-> Scope] :
        i \in IF answer = None \/ answer.kind = "search" THEN {} ELSE DOMAIN answer.items}

Decide(d) ==
    /\ phase = "reading"
    /\ ValidDecision(d)
    /\ IF d.kind = "propose_rule"
       THEN phase' = "proposing" /\ \E c, e \in Seen : found' = {c, e}
       ELSE phase' = "closed" /\ found' = {}
    /\ pages' = None /\ answer' = None /\ used' = NothingUsed
    /\ UNCHANGED <<stored, unpacked, batch, claims>>

\* A proposal is parsed and validated; only a valid one goes on.
Propose(p) ==
    /\ phase = "proposing"
    /\ Len(batch) < MaxProposals
    /\ WellFormed(p)
    /\ Codes(p, Scope, Allowed) = {}
    /\ batch' = Append(batch, p)
    /\ UNCHANGED <<stored, unpacked, pages, answer, phase, used, found, claims>>

Normalize ==
    /\ phase = "proposing"
    /\ batch # <<>>
    /\ claims' = ClaimsOf(batch)
    /\ phase' = "closed"
    /\ UNCHANGED <<stored, unpacked, pages, answer, used, found, batch>>

-----------------------------------------------------------------------------

\* Scans and retention, at any time; once the reading is over or its budget
\* exhausted, nothing of the investigation looks at the trees again, and those
\* steps are left out.
Write ==
    /\ phase = "reading"
    /\ ~Exhausted(used, Limits)
    /\ \E d \in Documents :
          DropDocument(d) \/ CreateDocument(d) \/ \E t \in Payloads : StoreDocument(d, t)
    /\ UNCHANGED <<phase, used, found, batch, claims>>

Next ==
    \/ Choose
    \/ Read
    \/ Write
    \/ \E d \in Decisions : Decide(d)
    \/ \E p \in Proposals, c \in found : Propose([p EXCEPT !.ast = <<c>>])
    \/ Normalize

Spec == Init /\ [][Next]_vars

-----------------------------------------------------------------------------
(* Properties.                                                             *)

Positions == {Position(pages.items[i]) : i \in DOMAIN pages.items}

\* A caller that follows next_cursor never gets a position twice, however the
\* tree is rewritten under it; and when it read one tree throughout, the pages
\* put together are its children so far, in order, and all of them once there
\* is no next cursor.
PagesAreWhole ==
    pages # None =>
        /\ \A i \in DOMAIN pages.items, j \in DOMAIN pages.items :
              i < j => Before(Position(pages.items[i]), Position(pages.items[j]))
        /\ \A t \in pages.trees \ {None} : pages.trees = {t} =>
              LET all == Children(t, pages.key)
              IN  /\ pages.items = FirstOf(Len(pages.items), all)
                  /\ pages.next = None => pages.items = all

SubtreeIsWhole(a) ==
    /\ Len(a.items) <= a.limit
    /\ \A i, j \in DOMAIN a.items : i # j => a.items[i].key # a.items[j].key
    /\ \A i \in DOMAIN a.items : i > 1 =>
          \E j \in 1 .. (i - 1) : /\ a.items[j].key = Node(a.tree, a.items[i].key).parent
                                  /\ a.items[j].depth + 1 = a.items[i].depth
    /\ {a.items[i].key : i \in DOMAIN a.items} \subseteq WithinDepth(a.tree, a.key, a.depth)
    /\ ~a.truncated => {a.items[i].key : i \in DOMAIN a.items} = Reach(a.tree, a.key)

ContainingIsInnermost(a) ==
    LET around == {n \in a.tree : n.start <= a.offset /\ a.offset < n.end}
    IN  IF a.items = <<>> THEN around = {}
        ELSE /\ a.items[1] \in around
             /\ \A n \in around : ~(a.items[1].start <= n.start /\ n.end < a.items[1].end)

SearchIsWhole(a) ==
    Len(a.items) < a.limit =>
        \A d \in Documents : a.trees[d] # None =>
            \A n \in a.trees[d] : n.start < a.hi /\ n.end > a.lo => <<d, n>> \in Range(a.items)

\* A subtree comes parents first and is everything below its root unless it
\* says it was truncated; the node at an offset has no smaller one inside it;
\* a search shorter than its limit missed nothing.
AnswersAreWhole ==
    answer # None =>
        /\ answer.kind = "subtree" => SubtreeIsWhole(answer)
        /\ answer.kind = "containing" => ContainingIsInnermost(answer)
        /\ answer.kind = "search" => SearchIsWhole(answer)

\* What evidence speaks for.
Backed(evidence) ==
    UNION {evidence[i].fields : i \in {j \in DOMAIN evidence : evidence[j].role # "counterevidence"}}

\* Every claim that comes out of a batch is still supported by the citations
\* it carries after merging: its draft's required fields are covered by
\* supportive evidence, implementation claims keep implementation evidence,
\* intent claims rest on nothing but product-intent evidence, every citation
\* is in scope and listed once, and doubt is declared.  No accepted proposal
\* loses its claim or a citation.
ClaimsAreGrounded ==
    /\ \A c \in claims :
          /\ c.cites = Cites(c.evidence) /\ Cardinality(c.cites) = Len(c.evidence)
          /\ \A s \in c.cites \cup c.ast : s.scope = Scope
          /\ c.confidence < Certain => c.uncertain
          /\ c.role = "implementation" =>
                /\ c.requires \subseteq Backed(c.evidence)
                /\ c.ast # {}
                /\ \E i \in DOMAIN c.evidence : c.evidence[i].role = "implementation"
          /\ c.role = "product_intent" =>
                c.evidence # <<>> /\ \A i \in DOMAIN c.evidence : c.evidence[i].role = "product_intent"
    /\ \A c, d \in claims : c.key = d.key => c = d
    /\ claims # {} => \A i \in DOMAIN batch :
          \E c \in claims : /\ c.role = "implementation"
                            /\ batch[i] \in c.origins
                            /\ Cites(batch[i].evidence) \subseteq c.cites
                            /\ Range(batch[i].ast) \subseteq c.ast
                            /\ c.confidence >= batch[i].confidence
=============================================================================
