----------------------------- MODULE FileTypes -----------------------------
(***************************************************************************)
(* What kind of file a path is (discovery-core): the mapping that decides  *)
(* its file type, the classification and its signal, and the bucket of the *)
(* metrics.  Whether a pattern matches a path, and which of the tables of  *)
(* names, suffixes and folders a path is in, is data: a mapping lists the  *)
(* paths it matches, a path the tables it is in.                           *)
(***************************************************************************)
EXTENDS LineMetrics

CONSTANTS BuiltIn       \* the built-in mappings, in order

\* A mapping: [type, pattern, length, matches, language, style, ext, display,
\* dotted, kind, hint, binary, generated, enabled, custom], where dotted says
\* whether display begins with a dot.
SameEntry(a, b) == a.type = b.type /\ a.pattern = b.pattern

\* A later mapping takes the place of the one of its type and pattern.
Put(entries, e) ==
    IF \E i \in DOMAIN entries : SameEntry(entries[i], e)
        THEN [i \in DOMAIN entries |-> IF SameEntry(entries[i], e) THEN e ELSE entries[i]]
        ELSE Append(entries, e)

\* A disabled custom mapping takes a built-in one away.
Customized(entries, e) ==
    IF e.enabled THEN Put(entries, e) ELSE SelectSeq(entries, LAMBDA x : ~SameEntry(x, e))

Resolver(custom) == FoldLeft(Customized, FoldLeft(Put, <<>>, BuiltIn), custom)

Base == [filename |-> 10000, glob |-> 5000, extension |-> 1000]

MatchScore(e) == Base[e.type] + e.length + IF e.custom THEN 50000 ELSE 0

\* The indices that pass, best first and in order between equals.
Ranked(n, Passes(_), Better(_, _)) ==
    SetToSortSeq({i \in 1 .. n : Passes(i)},
                 LAMBDA i, j : Better(i, j) \/ (~Better(j, i) /\ i < j))

Scored(entries, path) ==
    LET ranks == Ranked(Len(entries), LAMBDA i : entries[i].enabled /\ path.id \in entries[i].matches,
                        LAMBDA i, j : MatchScore(entries[i]) > MatchScore(entries[j]))
    IN  [i \in DOMAIN ranks |-> entries[ranks[i]]]

NoExtension == "(none)"

\* Files of a named mapping, and files with no suffix, have no extension.
EntryResolved(e, path) ==
    LET bare == e.type = "filename" \/ path.suffix = None
    IN  [language |-> e.language, style |-> e.style, kind |-> e.kind, hint |-> e.hint,
         custom |-> e.custom, pattern |-> e.pattern, binary |-> e.binary, generated |-> e.generated,
         extension |-> IF bare THEN NoExtension ELSE Or(e.ext, path.suffix),
         fileType |-> CASE bare \/ e.type = "glob" -> e.display
                        [] ~bare /\ e.type # "glob" /\ e.ext \notin {None, NoExtension} -> e.ext
                        [] OTHER -> IF e.dotted THEN e.display ELSE path.suffix]

HasConcreteLanguage(e) == e.language \notin {None, "unknown"}

\* The role comes from the best match, the language from one that has it.
Compose(role, l) ==
    [role EXCEPT !.language = l.language,
                 !.style = IF l.style = "unsupported" THEN role.style ELSE l.style,
                 !.extension = IF l.extension = NoExtension THEN role.extension ELSE l.extension,
                 !.binary = role.binary \/ l.binary,
                 !.generated = role.generated \/ l.generated]

Unknown(path) ==
    [language |-> "unknown", style |-> "unsupported", kind |-> "unknown", hint |-> "unknown",
     custom |-> FALSE, pattern |-> None, binary |-> FALSE, generated |-> FALSE,
     extension |-> Or(path.suffix, NoExtension), fileType |-> Or(path.suffix, "no_extension")]

Resolve(entries, path) ==
    LET scored == Scored(entries, path)
        concrete == {i \in DOMAIN scored : HasConcreteLanguage(scored[i])}
        role == EntryResolved(scored[1], path)
    IN  IF scored = <<>> THEN Unknown(path)
        ELSE IF concrete = {} \/ 1 \in concrete THEN role
        ELSE Compose(role, EntryResolved(scored[CHOOSE i \in concrete : \A j \in concrete : i <= j], path))

-----------------------------------------------------------------------------
(* Rules tried in turn: the answer of the first whose condition holds.     *)

FirstRule(rules, otherwise) ==
    LET i == SelectInSeq(rules, LAMBDA r : r[1])
    IN  IF i = 0 THEN otherwise ELSE rules[i][2]

\* classification_signals.py: names before folders before source types.
SourceTypeClass(type) ==
    CASE type = "tests" -> "test_evidence"
      [] type = "design_docs" -> "design_doc_evidence"
      [] type = "tickets" -> "ticket_evidence"
      [] type = "frontend_code" -> "ui_rule_mirror"
      [] type = "backend_code" -> "rule_bearing"
      [] type = "api_contract" -> "documentation_evidence"
      [] OTHER -> None

ExplainClassification(in, type, override) ==
    LET mapped == SourceTypeClass(type)
    IN  FirstRule(<<
          <<override # None, <<override, "project_override">>>>,
          <<"artifact_name" \in in, <<"generated_vendor", "exact_filename">>>>,
          <<"artifact_suffix" \in in, <<"generated_vendor", "extension">>>>,
          <<in \cap {"ops_name", "dockerfile", "env_file"} # {}, <<"ops_only", "exact_filename">>>>,
          <<"readme" \in in, <<"documentation_evidence", "exact_filename">>>>,
          <<"ops_folder" \in in, <<"ops_only", "path_rule">>>>,
          <<"ops_suffix" \in in, <<"ops_only", "extension">>>>,
          <<"test_glob" \in in, <<"test_evidence", "glob">>>>,
          <<type = "bdd_specs" \/ "feature_suffix" \in in, <<"test_evidence", "source_type">>>>,
          <<type = "docs", <<"documentation_evidence", "source_type">>>>,
          <<{"doc_suffix", "doc_folder"} \subseteq in, <<"documentation_evidence", "path_rule">>>>,
          <<mapped # None, <<mapped, "source_type">>>>,
          <<"presentation_suffix" \in in, <<"presentation_only", "extension">>>> >>,
          <<"unknown_needs_review", "fallback_unknown">>)

InferProductionBucket(in, class, type) ==
    FirstRule(<<
      <<class = "generated_vendor", "generated_or_vendor">>,
      <<"artifact_folder" \in in, "artifacts">>,
      <<class \in {"test_evidence", "ui_rule_mirror"} \/ type \in {"tests", "bdd_specs"}, "tests">>,
      <<\/ class \in {"documentation_evidence", "design_doc_evidence", "ticket_evidence", "presentation_only"}
        \/ type \in {"docs", "design_docs", "tickets"}, "docs">>,
      <<in \cap {"doc_marker", "doc_suffix"} # {}, "docs">>,
      <<in \cap {"test_folder", "test_name"} # {}, "tests">>,
      <<class = "ops_only" \/ in \cap {"config_folder", "config_suffix"} # {}, "config">>,
      <<class = "unknown_needs_review", "unknown">> >>, "production")

\* Scope: an excluded path is out, even when an include matches it too.
ShouldInclude(path, includes, excludes) ==
    /\ \A g \in excludes : path.id \notin g
    /\ includes # {} => \E g \in includes : path.id \in g
=============================================================================
