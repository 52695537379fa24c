---------------------------- MODULE MCDiscovery ----------------------------
(***************************************************************************)
(* What the operators of the discovery core promise, over small inputs;    *)
(* MCExtraction gives the constants their values and assumes each promise. *)
(***************************************************************************)
EXTENDS Inventory, SandboxScan

Lines == {<<>>, <<"text">>, <<"//", "/*">>, <<"/*">>, <<"/*", "text", "*/">>, <<"text", "*/">>}

\* A line of a C-style or SQL file is a comment exactly when it begins with a
\* comment mark or some earlier line began a block that no line has ended.
BlocksAreFollowed ==
    \A counter \in {"c_style", "sql"}, lines \in BoundedSeq(Lines, 3) :
        \A i \in DOMAIN lines :
            LET inBlock == \E j \in 1 .. (i - 1) :
                              /\ Starts(lines[j], {"/*"})
                              /\ \A k \in j .. (i - 1) : ~Holds(lines[k], "*/")
                comment == inBlock \/ Starts(lines[i], {"/*"} \cup BlockOf(counter))
            IN  (Buckets(counter, lines)[i] = "comment") <=> (lines[i] # <<>> /\ comment)

QuoteLines == {<<>>, <<"text">>, <<"dquotes">>, <<"dquotes", "text">>, <<"text", "dquotes">>, <<"#">>}

\* A Python docstring whose first line has one quote is not followed: without
\* two quotes in a line, each line counts as it would alone (its body as code).
LoneQuotesOpenNothing ==
    \A lines \in BoundedSeq(QuoteLines, 3) :
        \A i \in DOMAIN lines :
            Buckets("python", lines)[i] = Buckets("python", <<lines[i]>>)[1]

-----------------------------------------------------------------------------

Mapping(type, pattern, length, language, custom) ==
    [type |-> type, pattern |-> pattern, length |-> length, matches |-> {"p"}, language |-> language,
     style |-> IF language = "unknown" THEN "unsupported" ELSE "hash", ext |-> None, display |-> pattern,
     dotted |-> FALSE, kind |-> "k", hint |-> "h", binary |-> FALSE, generated |-> FALSE,
     enabled |-> TRUE, custom |-> custom]

CustomMappings ==
    {[Mapping(type, pattern, 3, language, TRUE) EXCEPT !.enabled = enabled] :
        type \in {"glob", "extension"}, pattern \in {".py", "generated/**"},
        language \in {"unknown", "cobol"}, enabled \in BOOLEAN}

Path == [id |-> "p", suffix |-> ".py"]

\* A project's own mapping decides over any built-in one; and a role laid over
\* a path never erases a language that some mapping gives it.
MappingsKeepTheLanguage ==
    \A custom \in BoundedSeq(CustomMappings, 2) :
        LET entries == Resolver(custom)
            scored == Scored(entries, Path)
            resolved == Resolve(entries, Path)
        IN  /\ (\E i \in DOMAIN scored : scored[i].custom) => resolved.custom
            /\ (\E i \in DOMAIN scored : HasConcreteLanguage(scored[i])) =>
                    resolved.language \notin {None, "unknown"}
            /\ \A i, j \in DOMAIN entries : i # j => ~SameEntry(entries[i], entries[j])

Tables == {"artifact_name", "artifact_suffix", "artifact_folder", "ops_name", "ops_folder", "ops_suffix",
           "readme", "test_glob", "test_folder", "feature_suffix", "doc_suffix", "doc_folder", "doc_marker",
           "config_folder", "presentation_suffix"}

SourceTypes == {"backend_code", "frontend_code", "tests", "bdd_specs", "docs", "design_docs", "tickets",
                "comments", "api_contract", "unknown"}

\* Without an override, what counts as production is rule bearing, and what
\* nothing explains is in the unknown bucket or was placed by its path.
ProductionBearsRules ==
    \A in \in {{a, b} : a, b \in Tables}, type \in SourceTypes :
        LET class == ExplainClassification(in, type, None)[1]
            bucket == InferProductionBucket(in, class, type)
        IN  /\ bucket = "production" => class = "rule_bearing"
            /\ bucket = "unknown" => class = "unknown_needs_review"

-----------------------------------------------------------------------------

Row(path, code, lines, language) ==
    [path |-> path, display |-> None, lines |-> lines, code |-> code, comment |-> None, blank |-> None,
     size |-> lines, tokens |-> None, bucket |-> None,
     type |-> [language |-> language, hint |-> "h", extension |-> ".py", unknown |-> language = 0]]

\* Names 2 and 3 differ in case only; <<4>> is a file and a folder's name.
Rows == {Row(<<4>>, 1, 2, 0), Row(<<4, 2>>, None, 3, 2), Row(<<4, 3, 6>>, 0, 1, 2),
         Row(<<4, 2, 2>>, None, 0, 3), Row(<<6, 4, 2>>, 4, 4, 0)}

Below(rows, shown, folder) == {i \in DOMAIN rows : IsStrictPrefix(folder, shown[i])}

\* Every folder of the tree sums up the files below it, wherever they are; the
\* tree has the lines of the totals, and their code but for uncounted files,
\* all of whose lines the totals take for code and the tree for none.
TreesAgreeWithTotals ==
    \A rows \in BoundedSeq(Rows, 3), prefix \in {None, <<4>>} :
        LET shown == [i \in DOMAIN rows |-> ShownPath(rows[i], prefix)]
            placed == SelectSeq(rows, LAMBDA row : ShownPath(row, prefix) # <<>>)
            uncounted == SelectSeq(placed, LAMBDA row : row.code = None)
            roots == BuildDirectoryTree(rows, prefix)
            Tree(f) == SumOf(roots, LAMBDA n : n[f])
        IN  /\ \A folder \in DistinctFolders(shown) :
                  LET node == FolderNode(rows, shown, folder)
                      below == Below(rows, shown, folder)
                  IN  /\ node.files = Cardinality(below)
                      /\ node.total = SumFunctionOnSet([i \in DOMAIN rows |-> rows[i].lines], below)
                      /\ node.folders = Cardinality({f \in DistinctFolders(shown) :
                                                        Len(f) = Len(folder) + 1 /\ IsPrefix(folder, f)})
            /\ Tree("files") = Len(placed)
            /\ Tree("total") = AggregateLineCounts(placed)["total"]
            /\ Tree("code") + SumOf(uncounted, LAMBDA row : row.lines)
                    = AggregateLineCounts(placed)["code"]

\* The groups by file type, and the lines by top directory, hold every file
\* once, and the groups come largest first.
GroupsHoldEveryFile ==
    \A rows \in BoundedSeq(Rows, 3) :
        LET groups == AggregateByFileType(rows)
            tops == LinesByTopDirectory(rows, None)
        IN  /\ SumOf(groups, LAMBDA g : g.files) = Len(rows)
            /\ \A f \in {"total", "code"} :
                  SumOf(groups, LAMBDA g : g.lines[f]) = AggregateLineCounts(rows)[f]
            /\ \A i, j \in DOMAIN groups : i < j => groups[i].lines["code"] >= groups[j].lines["code"]
            /\ SumFunction(tops) = AggregateLineCounts(rows)["total"]

\* A wrapping folder 4, with a file that may be outside it, and files whose
\* shown paths are other files' own, or ends of them.
Wrapped == <<<<4, 2>>, <<4, 6>>, <<4, 8>>, <<4, 4, 6>>, <<4, 10>>, <<4, 12>>>>

Known == {Append(Wrapped, last) : last \in {<<2>>, <<8, 2>>, <<4, 4, 4, 6>>, <<4, 4, 20>>}}
         \cup {Wrapped \o <<<<4, 8, 4, 20>>, <<4, 4, 20>>>>, <<<<8, 2>>, <<8, 6>>>>, <<<<4, 2>>, <<6, 2>>>>}

\* A file is found again by the path it is shown under, unless that is another
\* file's own path or more than one file ends in it: then it comes back as it is.
DisplayPathsLeadBack ==
    \A known \in Known : \A i \in DOMAIN known :
        LET shown == ToDisplayPath(known[i], InferSourceRootPrefix(known))
            found == ResolveProjectFilePath(shown, known)
        IN  /\ found \in {known[i], shown}
            /\ \/ Contains(known, shown)
               \/ \E j \in DOMAIN known \ {i} : IsSuffix(shown, known[j])
               \/ found = known[i]

-----------------------------------------------------------------------------

SomeFiles == {[link |-> FALSE, stat |-> TRUE, size |-> 2], [link |-> FALSE, stat |-> TRUE, size |-> 4],
          [link |-> TRUE, stat |-> TRUE, size |-> 1]}

Directories == [depth : 1 .. 3, links : 0 .. 1, files : BoundedSeq(SomeFiles, 2)]

\* Whether a workspace is accepted does not depend on the order of the walk:
\* it is when nothing in it breaks a rule and all of it is within the limits.
AcceptedInAnyOrder ==
    \A walk \in BoundedSeq(Directories, 2) :
        LET files == FlattenSeq([i \in DOMAIN walk |-> walk[i].files])
        IN  Accepted(walk) <=>
                \/ walk = <<>>
                \/ /\ \A i \in DOMAIN walk : walk[i].links = 0 /\ walk[i].depth <= Limits.depth
                   /\ \A i \in DOMAIN files : Acceptable(files[i])
                   /\ Len(files) <= Limits.files
                   /\ SumOf(files, LAMBDA f : f.size) <= Limits.total
=============================================================================
