------------------------------ MODULE MCRules ------------------------------
(***************************************************************************)
(* Three rules of the first version, whose texts are similar in a chain but *)
(* not all alike, and the first one's successors in two more versions; a    *)
(* foreign rule; evidence of every kind.                                   *)
(***************************************************************************)
EXTENDS Rules, TLC

Row(type, score) ==
    [type |-> type, score |-> score, scaffold |-> FALSE, resolution |-> "extracted", quality |-> 10000,
     parserError |-> FALSE]

MCRowOf ==
    [e \in {"code", "static", "tree", "doc", "test", "seen", "log", "lines", "note", "guess"} |->
        CASE e = "code"   -> Row("backend_code", 6000)
          [] e = "static" -> Row("static_analysis", 90 * 10000)
          [] e = "tree"   -> [Row("ast", 10000) EXCEPT !.resolution = "resolved"]
          [] e = "doc"    -> Row("readme_doc", 10000)
          [] e = "test"   -> Row("unit_test", 8000)
          [] e = "seen"   -> Row("ast", 10000)
          [] e = "log"    -> Row("runtime", 9000)
          [] e = "lines"  -> Row("coverage", 100 * 10000)
          [] e = "note"   -> Row("code_comment", 10000)
          [] e = "guess"  -> Row("ai_extraction", 10000)]

MCPathOf ==
    [e \in DOMAIN MCRowOf |->
        CASE e = "code" -> <<"src", "billing">> [] e = "test" -> <<"tests", "billing">> [] OTHER -> None]

MCRuleIds == {"r1", "r2", "r3", "r4", "r5", "x"}

MCTextOf ==
    [r \in MCRuleIds |->
        CASE r = "r2" -> [terms |-> 1..7, marks |-> {"child"}]
          [] r = "r3" -> [terms |-> 1..6 \cup {9}, marks |-> {}]
          [] OTHER    -> [terms |-> 1..8, marks |-> {"parent"}]]

MCProject  == [r \in MCRuleIds |-> IF r = "x" THEN "other" ELSE "p"]
MCVersion  == [r \in MCRuleIds |-> CASE r = "r4" -> 2 [] r = "r5" -> 3 [] OTHER -> 1]
MCIdentity == [r \in MCRuleIds |-> CASE r = "r2" -> "i2" [] r = "r3" -> "i3" [] r = "x" -> "ix" [] OTHER -> "i1"]
MCCategoryOf == [r \in MCRuleIds |-> IF r = "r3" THEN "validation" ELSE "business"]

MCFingerprints == {None, "a", "b"}

Request(to, from) == [to |-> to, from |-> from]
MCRequests ==
    {Request("r1", {"r2", "r3"}), Request("r3", {"r1"}), Request("r1", {"r1"}),
     Request("r4", {"r2"}), Request("x", {"r3"})}

MCFirstPrints == {[r \in MCRuleIds |-> IF r = "r1" THEN fp ELSE None] : fp \in {None, "a"}}

MCOwners ==
    {[e \in DOMAIN MCRowOf |->
        CASE e \in {"code", "static", "tree"} -> "r1" [] e = "doc" -> "r2"
          [] e = "test" -> None [] OTHER -> "r3"]}

MCSymmetry == Permutations(Sessions)

MCOverrides == [t \in {"bdd_spec"} |-> 10000]
=============================================================================
