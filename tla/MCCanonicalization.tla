------------------------- MODULE MCCanonicalization -------------------------
(***************************************************************************)
(* Three claims, each in a cluster alone at first; merges and splits        *)
(* combine them.  Their texts are about the expiry of invoices and         *)
(* approval limits, so that every attachment occurs.                        *)
(***************************************************************************)
EXTENDS Canonicalization

Text == [role |-> "documentation", path |-> {}, text |-> {}, action |-> <<>>,
         subject |-> <<>>, actor |-> None, numbers |-> <<>>, exception |-> FALSE,
         condition |-> None, result |-> None, confidence |-> 50]

Days(n) == [value |-> n, unit |-> "days"]
Money(n) == [value |-> n, unit |-> "money"]

Code    == [Text EXCEPT !.role = "implementation", !.action = <<"expir">>, !.numbers = <<Days(30)>>]
Limit   == [Text EXCEPT !.role = "implementation", !.subject = <<"approv">>, !.numbers = <<Money(500)>>]
Legacy  == [Text EXCEPT !.role = "product_intent", !.text = {"expir", "legacy"}, !.numbers = <<Days(60)>>]
Notice  == [Text EXCEPT !.role = "product_intent", !.text = {"expir", "pending"}, !.numbers = <<Days(60)>>]
Waiver  == [Text EXCEPT !.role = "verification", !.text = {"expir", "admin", "except"}]
Policy  == [Text EXCEPT !.role = "configuration", !.subject = <<"policy">>]
Ops     == [Text EXCEPT !.role = "configuration", !.text = {"expir", "deploy"}]
Raised  == [Text EXCEPT !.role = "product_intent", !.action = <<"approv">>, !.numbers = <<Money(900)>>]

Assign3(a, b, c) == (1 :> a) @@ (2 :> b) @@ (3 :> c)

MCTexts ==
    {Assign3(Code, Legacy, Waiver), Assign3(Code, Notice, Ops), Assign3(Code, Waiver, Policy),
     Assign3(Limit, Raised, Legacy), Assign3(Notice, Policy, Policy), Assign3(Raised, Limit, Ops)}

ASSUME TextsAreOrdinary == NoUnknownAction

Singletons == [active \in SUBSET Claims |-> {{c} : c \in active}]

ClusterSymmetry == Permutations(Clusters)
=============================================================================
