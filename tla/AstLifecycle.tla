---------------------------- MODULE AstLifecycle ----------------------------
(***************************************************************************)
(* The analysis versions of a project (analysis_version_repository.py) and *)
(* the retention of their ASTs (ast_lifecycle_repository.py), over the AST *)
(* store they own.                                                         *)
(*                                                                         *)
(* Activating a version and expiring old ones first READ versions and then *)
(* COMMIT what follows from them, while other sessions commit in between   *)
(* (READ COMMITTED).  The composition of an activation -- supersede the    *)
(* others, move the pointer, mark ready -- is the application's.  The mapper *)
(* writes a column only if the session changed the value it had loaded.    *)
(* Retention is split after its first query, that of the versions.         *)
(***************************************************************************)
EXTENDS AstStore

CONSTANTS
    Sessions,   \* sessions that run the operations
    None        \* no active version

ASSUME NoVersionAssumption == None \notin Versions

VARIABLES
    status,     \* analysis_versions.status, or "none" before the version exists
    active,     \* projects.active_analysis_version_id
    pend        \* per session: the operation between its read and its commit

vars == <<runs, payloads, docs, links, status, active, pend>>

Status == {"none", "building", "ready", "superseded", "failed"}

Pending ==
    [op : {"idle"}]
        \cup [op : {"activate"}, version : Versions, was : Status,
              others : SUBSET Versions, pointer : Versions \cup {None}]
        \cup [op : {"retain"}, expired : SUBSET Versions]

Idle(s) == pend[s].op = "idle"

Begin(s, plan) == pend' = [pend EXCEPT ![s] = plan]

End(s) == pend' = [pend EXCEPT ![s] = [op |-> "idle"]]

Exists(v) == status[v] # "none"

Init ==
    /\ StoreInit
    /\ status = [v \in Versions |-> "none"]
    /\ active = None
    /\ pend = [s \in Sessions |-> [op |-> "idle"]]

-----------------------------------------------------------------------------

CreateBuilding(v) ==
    /\ ~Exists(v)
    /\ status' = [status EXCEPT ![v] = "building"]
    /\ UNCHANGED <<active, pend, storeVars>>

\* finalize and mark_failed do not look at the status.
Finalize(v) ==
    /\ Exists(v)
    /\ status' = [status EXCEPT ![v] = "ready"]
    /\ UNCHANGED <<active, pend, storeVars>>

MarkFailed(v) ==
    /\ Exists(v)
    /\ status' = [status EXCEPT ![v] = "failed"]
    /\ UNCHANGED <<active, pend, storeVars>>

\* The versions supersede_active_versions supersedes: those list_ready_except
\* returns; the active one is among them when it is ready.
OthersPointed(v) == {w \in Versions \ {v} : w = active /\ status[w] = "ready"}
Others(v) == {w \in Versions \ {v} : status[w] = "ready"}

ActivateRead(s, v) ==
    /\ Exists(v)
    /\ Begin(s, [op |-> "activate", version |-> v, was |-> status[v],
                 others |-> Others(v), pointer |-> active])
    /\ UNCHANGED <<status, active, storeVars>>

\* set_active_analysis_version_id
PointerOnce(p) == IF active = None THEN p.version ELSE active
Pointer(p) == IF p.pointer = p.version THEN active ELSE p.version

\* supersede_active_versions, set_active_analysis_version_id and
\* mark_ready_for_activation
ActivateCommit(s) ==
    LET p == pend[s]
    IN  /\ p.op = "activate"
        /\ status' = [v \in Versions |->
                         IF v \in p.others THEN "superseded"
                         ELSE IF v = p.version /\ p.was # "ready" THEN "ready"
                         ELSE status[v]]
        /\ active' = Pointer(p)
        /\ End(s)
        /\ UNCHANGED storeVars

\* The versions delete_expired_versions may choose from; which of them are
\* old enough, and not explicitly retained, is any subset.
TerminalNotReady == {v \in Versions : status[v] \notin {"none", "ready"}}
Terminal == {v \in Versions : status[v] \in {"superseded", "failed"}}

RetainRead(s, expired) ==
    /\ expired \subseteq Terminal /\ expired # {}
    /\ Begin(s, [op |-> "retain", expired |-> expired])
    /\ UNCHANGED <<status, active, storeVars>>

RetainCommit(s, protected) ==
    /\ pend[s].op = "retain"
    /\ DeleteExpired(pend[s].expired, protected)
    /\ End(s)
    /\ UNCHANGED <<status, active>>

-----------------------------------------------------------------------------

\* A scan writes the AST of a version.
StoreStep ==
    /\ \/ \E v \in Versions : Exists(v) /\ CreateRun(v)
       \/ \E p \in PayloadId : CreatePayload(p)
       \/ \E d \in DocId :
             \/ DeleteDocument(d)
             \/ \E c \in Contents : ReplaceDocument(d, c)
             \/ \E t \in Trees : PersistPacked(d, t)
       \/ \E l \in Link : AddLink(l)
    /\ UNCHANGED <<status, active, pend>>

\* What a session does when it is not between a read and a commit.
Start(s) ==
    /\ Idle(s)
    /\ \/ \E v \in Versions :
             CreateBuilding(v) \/ Finalize(v) \/ MarkFailed(v) \/ ActivateRead(s, v)
       \/ \E expired \in SUBSET Versions : RetainRead(s, expired)
       \/ StoreStep

Next ==
    \E s \in Sessions :
        \/ Start(s)
        \/ ActivateCommit(s)
        \/ \E protected \in SUBSET DocId : RetainCommit(s, protected)

Spec == Init /\ [][Next]_vars

-----------------------------------------------------------------------------
(***************************************************************************)
(* Properties                                                              *)
(***************************************************************************)

TypeOK ==
    /\ StoreTypeOK
    /\ status \in [Versions -> Status]
    /\ active \in Versions \cup {None}
    /\ pend \in [Sessions -> Pending]

\* The version a project shows is never one that was superseded: it would be
\* a candidate for retention.  Holds as long as activations do not overlap
\* (supersede_active_versions moves every other ready version out of the way
\* and the pointer moves with it).
ActiveNeverSuperseded == active # None => status[active] # "superseded"

\* "Retention candidates are restricted to old superseded or failed analysis
\* versions" (persistence/README.md): no step that expires versions removes a
\* document, a link or the tree of a document of a version that is building
\* or ready at that moment, though versions share payloads.
RetentionSparesLiveVersions ==
    [][\A s \in Sessions :
           pend[s].op = "retain" /\ pend'[s].op = "idle" =>
               /\ \A d \in Stored :
                      status[d[1]] \in {"building", "ready"} =>
                          d \in DOMAIN docs' /\ docs'[d] = docs[d]
                              /\ PayloadOf(d) \in DOMAIN payloads'
               /\ \A l \in links : status[l.from[1]] \in {"building", "ready"} => l \in links']_vars

\* A finished activation leaves no other version ready, however many were
\* finalized before it (list_ready_except, not just the pointer).
ActivatedAlone ==
    [][\A s \in Sessions :
           ActivateCommit(s) =>
               \A v \in Versions \ {pend[s].version} : status'[v] # "ready"]_vars
=============================================================================
