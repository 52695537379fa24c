----------------------------- MODULE Inventory -----------------------------
(***************************************************************************)
(* The inventory of a project's files (discovery-core): line totals, the   *)
(* directory tree, and the paths that files are shown under.  A path is    *)
(* the sequence of its segments, with slashes normalized; a name is a      *)
(* number, and two names 2k and 2k + 1 differ in case only.                *)
(***************************************************************************)
EXTENDS FileTypes, Integers, Functions

CONSTANTS CommonRoots   \* top folders that are no wrapper of an archive

Lower(name) == name \div 2

SumOf(seq, Value(_)) == FoldLeft(LAMBDA sum, x : sum + Value(x), 0, seq)

-----------------------------------------------------------------------------
(* Line totals.  A row: [path, display, type, bucket, lines, code, comment, *)
(* blank, size, tokens]; the four last but size may be None.               *)

LineSplit(row) ==
    IF {row.code, row.comment, row.blank} = {None}
        THEN [total |-> row.lines, code |-> row.lines, comment |-> 0, blank |-> 0]
        ELSE [total |-> row.lines, code |-> Or(row.code, 0), comment |-> Or(row.comment, 0),
              blank |-> Or(row.blank, 0)]

AggregateLineCounts(rows) ==
    [f \in {"total", "code", "comment", "blank"} |-> SumOf(rows, LAMBDA row : LineSplit(row)[f])]

GroupKey(row) == <<row.type, Or(row.bucket, row.type.hint)>>

Summary(rows, key) ==
    LET group == SelectSeq(rows, LAMBDA row : GroupKey(row) = key)
    IN  [key |-> key, files |-> Len(group), size |-> SumOf(group, LAMBDA row : row.size),
         lines |-> AggregateLineCounts(group)]

\* Most code first, then most lines, most files, and by language.
Larger(a, b) ==
    LET order == <<b.lines["code"] - a.lines["code"], b.lines["total"] - a.lines["total"],
                   b.files - a.files, Lower(a.key[1].language) - Lower(b.key[1].language)>>
        i == SelectInSeq(order, LAMBDA d : d # 0)
    IN  i # 0 /\ order[i] < 0

\* The keys in the order they first appear; the sort keeps it between equals.
AggregateByFileType(rows) ==
    LET keys == FoldLeft(LAMBDA seen, row : IF Contains(seen, GroupKey(row)) THEN seen
                                            ELSE Append(seen, GroupKey(row)), <<>>, rows)
        summaries == [i \in DOMAIN keys |-> Summary(rows, keys[i])]
        ranks == Ranked(Len(keys), LAMBDA i : TRUE, LAMBDA i, j : Larger(summaries[i], summaries[j]))
    IN  [i \in DOMAIN ranks |-> summaries[ranks[i]]]

UnmappedExtensions(rows) ==
    LET unmapped == SelectSeq(rows, LAMBDA row : row.type.unknown /\ row.type.extension # NoExtension)
    IN  [e \in {unmapped[i].type.extension : i \in DOMAIN unmapped} |->
            Cardinality({i \in DOMAIN unmapped : unmapped[i].type.extension = e})]

-----------------------------------------------------------------------------
(* The directory tree.                                                     *)

LineValue(n) == Or(n, 0)

TokenValue(row) == Or(row.tokens, (row.size + 3) \div 4)

EffectiveDisplayPath(row) == Or(row.display, row.path)

\* Only rows without a display path lose the prefix, and only for their place.
ShownPath(row, prefix) ==
    IF row.display # None \/ prefix = None \/ ~IsPrefix(prefix, row.path) THEN EffectiveDisplayPath(row)
    ELSE SubSeq(row.path, Len(prefix) + 1, Len(row.path))

FileNode(row, shown) ==
    [kind |-> "file", path |-> EffectiveDisplayPath(row), depth |-> Len(shown) - 1,
     folders |-> 0, files |-> 1, size |-> row.size, tokens |-> TokenValue(row),
     code |-> LineValue(row.code), comment |-> LineValue(row.comment), blank |-> LineValue(row.blank),
     total |-> row.lines, children |-> <<>>]

\* The folders and the files directly in folder, as indices of the rows: a
\* folder appears with its first row.
SubfolderRows(shown, folder) ==
    {i \in DOMAIN shown :
        /\ IsStrictPrefix(folder, shown[i]) /\ Len(shown[i]) > Len(folder) + 1
        /\ \A j \in 1 .. (i - 1) : ~(Len(shown[j]) > Len(folder) + 1
                                     /\ IsPrefix(SubSeq(shown[i], 1, Len(folder) + 1), shown[j]))}

FileRows(shown, folder) ==
    {i \in DOMAIN shown : Len(shown[i]) = Len(folder) + 1 /\ IsPrefix(folder, shown[i])}

ByName(rows, shown, folder) ==
    LET at == Len(folder) + 1
    IN  Ranked(Len(shown), LAMBDA i : i \in rows,
               LAMBDA i, j : Lower(shown[i][at]) < Lower(shown[j][at]))

\* The children of folder, folders first, and the node with their sums.
RECURSIVE FolderNode(_, _, _)
Children(rows, shown, folder) ==
    LET subfolders == ByName(SubfolderRows(shown, folder), shown, folder)
        files == ByName(FileRows(shown, folder), shown, folder)
    IN  [k \in DOMAIN subfolders |->
            FolderNode(rows, shown, SubSeq(shown[subfolders[k]], 1, Len(folder) + 1))]
        \o [k \in DOMAIN files |-> FileNode(rows[files[k]], shown[files[k]])]

FolderNode(rows, shown, folder) ==
    LET children == Children(rows, shown, folder)
        Sum(f) == SumOf(children, LAMBDA c : c[f])
    IN  [kind |-> "folder", path |-> folder, depth |-> Len(folder) - 1,
         folders |-> Len(SelectSeq(children, LAMBDA c : c.kind = "folder")),
         files |-> Sum("files"), size |-> Sum("size"), tokens |-> Sum("tokens"), code |-> Sum("code"),
         comment |-> Sum("comment"), blank |-> Sum("blank"), total |-> Sum("total"),
         children |-> children]

\* A row whose path is nothing but the prefix has no place in the tree.
BuildDirectoryTree(rows, prefix) ==
    Children(rows, [i \in DOMAIN rows |-> ShownPath(rows[i], prefix)], <<>>)

-----------------------------------------------------------------------------
(* The paths that files are shown under (source_path_display.py).          *)

Root == 0       \* "(root)", which is no name

TopDirectory(path) == IF Len(path) < 2 THEN Root ELSE Head(path)

\* The folder that wraps 85% of the paths, unless it is a usual top folder
\* with others beside it.  Two folders cannot both hold 85%.
InferSourceRootPrefix(all) ==
    LET paths == SelectSeq(all, LAMBDA p : p # <<>>)
        count(t) == Cardinality({i \in DOMAIN paths : TopDirectory(paths[i]) = t})
        tops == {TopDirectory(paths[i]) : i \in DOMAIN paths} \ {Root}
        wrappers == {t \in tops : 100 * count(t) >= 85 * Len(paths)}
        significant(t) == count(t) >= 2 /\ count(t) >= Len(paths) \div 20
        best == CHOOSE t \in wrappers : TRUE
    IN  IF wrappers = {} THEN None
        ELSE IF best \in CommonRoots /\ (\E t \in tops \ {best} : significant(t)) THEN None
        ELSE <<best>>

ToDisplayPath(path, prefix) ==
    IF prefix # None /\ IsStrictPrefix(prefix, path) THEN Tail(path) ELSE path

ToRawPath(path, prefix) ==
    IF prefix = None \/ IsStrictPrefix(prefix, path) THEN path ELSE prefix \o path

FolderPaths(path) == {SubSeq(path, 1, n) : n \in 1 .. (Len(path) - 1)}

DistinctFolders(paths) == UNION {FolderPaths(paths[i]) : i \in DOMAIN paths}

NestedFolderCount(paths, top) ==
    IF top = Root THEN 0
    ELSE Cardinality({f \in DistinctFolders(paths) : IsStrictPrefix(<<top>>, f)})

\* The paths of rows that a display path may stand for.
ResolveProjectFilePath(path, known) ==
    LET prefix == InferSourceRootPrefix(known)
        matches == {i \in DOMAIN known : IsSuffix(path, known[i])}
    IN  IF Contains(known, path) THEN path
        ELSE IF prefix # None /\ Contains(known, ToRawPath(path, prefix)) THEN ToRawPath(path, prefix)
        ELSE IF Cardinality(matches) = 1 THEN known[CHOOSE i \in matches : TRUE] ELSE path

\* The directories or files with the most lines or rules, at most limit; which
\* of two equal ones comes first is left open.
Leading(weight, limit) ==
    LET ranked == SetToSortSeq(DOMAIN weight, LAMBDA d, e : weight[d] > weight[e])
    IN  SubSeq(ranked, 1, IF limit < Len(ranked) THEN limit ELSE Len(ranked))

LinesByTopDirectory(rows, prefix) ==
    LET top(i) == TopDirectory(Or(rows[i].display, ToDisplayPath(rows[i].path, prefix)))
    IN  [d \in {top(i) : i \in DOMAIN rows} |->
            SumFunctionOnSet([i \in DOMAIN rows |-> rows[i].lines], {i \in DOMAIN rows : top(i) = d})]
=============================================================================
