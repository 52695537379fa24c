---------------------------- MODULE MCExtraction ----------------------------
(***************************************************************************)
(* Two files, one of them a feature file with four texts; results about a *)
(* chain of nodes a-b-c-d and a shortcut, which overlap, lack an end of an  *)
(* edge, repeat an object or carry no hash; batches that repeat a key.      *)
(***************************************************************************)
EXTENDS Extraction, TLC

Node(k, o) == [key |-> k, object |-> o]
Edge(t, x, y, o, r) == [type |-> t, from |-> x, to |-> y, object |-> o, resolution |-> r]
Result(provider, hash, status, ns, es) ==
    [provider |-> provider, version |-> "1", hash |-> hash, status |-> status,
     filesFailed |-> FALSE, nodes |-> ns, edges |-> es]

MCPayloads ==
    {Result("g", "h1", "succeeded", <<Node("a", 1), Node("b", 2), Node("c", 3)>>,
            <<Edge("calls", "a", "b", 1, "extracted"), Edge("calls", "c", "b", 2, "inferred")>>),
     Result("g", "h2", "succeeded", <<Node("c", 1), Node("d", 1)>>,
            <<Edge("calls", "c", "d", 1, "extracted"), Edge("calls", "a", "d", 2, "extracted")>>),
     Result("g", None, "failed", <<>>, <<>>),
     Result("g", None, "succeeded", <<Node("a", 1), Node("d", 2)>>,
            <<Edge("tests", "a", "d", 1, "extracted")>>)}

Ask4(op, x, y, depth, most, types) ==
    [op |-> op, from |-> x, to |-> y, depth |-> depth, maxNodes |-> most, types |-> types]

MCSearches ==
    {Ask4("path", "a", "d", 5, 300, {}), Ask4("path", "a", "d", 3, 2, {}),
     Ask4("path", "a", "a", 1, 9, {}),
     Ask4("neighbors", "b", None, 2, 2, {}), Ask4("tests", "a", None, 2, 50, {"tests", "asserts"})}

Draft(key, from) ==
    [key |-> <<"provider", key>>, from |-> from, node |-> None, edges |-> {}, confidence |-> 30]

MCBatches == {<<Draft("k1", "x"), Draft("k2", "x"), Draft("k1", "y")>>, <<Draft("k2", "z")>>}

MCOldRules == <<[name |-> "expiry", score |-> 90], [name |-> "expiry", score |-> None]>>

MCPattern == [n \in {"a", "b", "c", "d"} |-> IF n \in {"b", "d"} THEN "threshold" ELSE None]
MCClaimOf == [n \in {"a", "b", "c", "d"} |-> <<"structural_graph", "limit">>]

Step(keyword, type, text) == [keyword |-> keyword, type |-> type, text |-> text]

Given == Step("given", "context", "an invoice")
Then  == Step("then", "outcome", "it expires")
And   == Step("and", "conjunction", "it is paid")

MCTexts == {"steps", "stepless", "garbled", "empty"}
MCDocument ==
    [t \in MCTexts |->
        CASE t = "steps" -> [kind |-> "feature",
                             scenarios |-> <<[name |-> "s", line |-> 2, steps |-> <<Given, Then, And>>],
                                             [name |-> "s2", line |-> 3, steps |-> <<And>>]>>]
          [] t = "stepless" -> [kind |-> "feature",
                                scenarios |-> <<[name |-> "s", line |-> 2, steps |-> <<>>]>>]
          [] t = "garbled" -> [kind |-> "error"]
          [] OTHER -> [kind |-> "empty"]]

MCDefinitions ==
    <<[name |-> "open", matches |-> {"an invoice"}], [name |-> "expire", matches |-> {"it expires"}],
      [name |-> "any", matches |-> {"it expires", "an invoice"}]>>
MCNodeNamed == [d \in {"open", "expire", "any"} |-> IF d = "open" THEN "a" ELSE None]

MCFeatureAt == [f \in 1..2 |-> IF f = 2 THEN "f" ELSE None]

-----------------------------------------------------------------------------
(* The discovery of the files that are extracted from: what its operators  *)
(* promise, see MCDiscovery.                                               *)

MCBuiltIn ==
    LET Of(type, pattern, length, language) ==
            [type |-> type, pattern |-> pattern, length |-> length, matches |-> {"p"},
             language |-> language, style |-> IF language = "unknown" THEN "unsupported" ELSE "hash",
             ext |-> None, display |-> pattern, dotted |-> FALSE, kind |-> "k", hint |-> "h",
             binary |-> FALSE, generated |-> FALSE, enabled |-> TRUE, custom |-> FALSE]
    IN  <<Of("extension", ".py", 3, "python"), Of("glob", "generated/**", 12, "unknown"),
          Of("filename", "conftest.py", 11, "python")>>

Discovery == INSTANCE MCDiscovery WITH
    MaxLineCountBytes <- 2000000, BuiltIn <- MCBuiltIn, CommonRoots <- {8},
    Limits <- [file |-> 3, total |-> 5, files |-> 2, depth |-> 2]

ASSUME LinesAreCounted == Discovery!BlocksAreFollowed /\ Discovery!LoneQuotesOpenNothing
ASSUME TypesAreResolved == Discovery!MappingsKeepTheLanguage /\ Discovery!ProductionBearsRules
ASSUME InventoriesAgree == Discovery!TreesAgreeWithTotals /\ Discovery!GroupsHoldEveryFile
ASSUME PathsLeadBack == Discovery!DisplayPathsLeadBack
ASSUME WorkspacesAreLimited == Discovery!AcceptedInAnyOrder
=============================================================================
