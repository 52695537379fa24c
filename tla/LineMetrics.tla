---------------------------- MODULE LineMetrics ----------------------------
(***************************************************************************)
(* Counting blank, comment and code lines (discovery-core, line_metrics).  *)
(* A line is what is left of it after strip(), as the sequence of the      *)
(* comment marks in it, with "text" for anything else; marks that overlap  *)
(* in the text, as the two of a three-character line /*/ do, are left out. *)
(***************************************************************************)
EXTENDS Naturals, Sequences, FiniteSets, SequencesExt

CONSTANTS
    None,
    MaxLineCountBytes       \* 2_000_000

Starts(line, marks) == line # <<>> /\ Head(line) \in marks

Holds(line, mark) == Contains(line, mark)

Times(line, mark) == Cardinality({i \in DOMAIN line : line[i] = mark})

Quotes == {"dquotes", "squotes"}

BlockOf(counter) == IF counter = "sql" THEN {"--"} ELSE {"//"}

\* A block counter looks for the end of a block in every line, for its start
\* only outside one; after the end the rest of the line is still a comment.
BlockLine(counter, line, open) ==
    IF open # None
        THEN <<"comment", IF Holds(line, "*/") THEN None ELSE open>>
    ELSE IF Starts(line, BlockOf(counter)) THEN <<"comment", None>>
    ELSE IF Starts(line, {"/*"})
        THEN <<"comment", IF Holds(line, "*/") THEN None ELSE "/*">>
    ELSE <<"code", None>>

\* A quote that opens a line stays open only when the line has a second one
\* and does not end with it: a docstring begun by a lone quote is not followed.
QuoteAfter(line) ==
    LET quote == Head(line)
        closed == Last(line) = quote /\ Len(line) > 1
    IN  IF Times(line, quote) < 2 \/ closed THEN None ELSE quote

PythonLine(line, open) ==
    IF open # None
        THEN <<"comment", IF Times(line, open) >= 2 THEN None ELSE open>>
    ELSE IF Starts(line, {"#"}) THEN <<"comment", None>>
    ELSE IF Starts(line, Quotes) THEN <<"comment", QuoteAfter(line)>>
    ELSE <<"code", None>>

\* The bucket of a line and what is open after it.
LineBucket(counter, line, open) ==
    IF line = <<>> THEN <<"blank", open>>
    ELSE CASE counter \in {"c_style", "sql"} -> BlockLine(counter, line, open)
           [] counter = "python" -> PythonLine(line, open)
           [] counter = "html" ->
                <<IF Starts(line, {"<!--"}) \/ (Holds(line, "<!--") /\ Holds(line, "-->"))
                      THEN "comment" ELSE "code", None>>
           [] counter = "hash" -> <<IF Starts(line, {"#"}) THEN "comment" ELSE "code", None>>
           [] counter = "fallback" -> <<IF Starts(line, {"#", "//"}) THEN "comment" ELSE "code", None>>
           [] OTHER -> <<"code", None>>     \* data and markdown

\* The buckets of the lines so far and what is open, after one line more.
NextLine(counter, done, line) ==
    LET b == LineBucket(counter, line, done.open)
    IN  [buckets |-> Append(done.buckets, b[1]), open |-> b[2]]

Buckets(counter, lines) ==
    FoldLeft(LAMBDA done, line : NextLine(counter, done, line),
             [buckets |-> <<>>, open |-> None], lines).buckets

\* Lines in no bucket would count as code.
Metrics(counter, lines) ==
    LET count(b) == Times(Buckets(counter, lines), b)
    IN  [total |-> Len(lines), comment |-> count("comment"), blank |-> count("blank"),
         code |-> count("code") + (Len(lines) - count("code") - count("comment") - count("blank"))]

CounterOfStyle(style) ==
    CASE style \in {"hash", "yaml"} -> "hash"
      [] style = "slash" -> "c_style"
      [] style \in {"html", "sql"} -> style
      [] style = "none" -> "data"
      [] OTHER -> "fallback"

CounterOfLanguage(language) ==
    CASE language \in {"python", "sql", "markdown"} -> language
      [] language \in {"typescript", "tsx", "javascript", "jsx", "css", "scss"} -> "c_style"
      [] language \in {"shell", "yaml", "toml", "ini", "properties", "config", "gherkin"} -> "hash"
      [] language \in {"html", "xml"} -> "html"
      [] language = "json" -> "data"
      [] OTHER -> "fallback"

Counter(language, style) ==
    IF style \in {None, "unsupported"} THEN CounterOfLanguage(language) ELSE CounterOfStyle(style)

CountText(lines, language, style) == Metrics(Counter(language, style), lines)

Or(x, default) == IF x = None THEN default ELSE x

\* A file is [resolved, size, decodes, lines]; what the caller leaves open is
\* taken from the file type that its path resolves to.
Readable(file) == file.size <= MaxLineCountBytes /\ file.decodes

CountFile(file, language, style) ==
    IF file.resolved.binary \/ ~Readable(file) THEN None
    ELSE CountText(file.lines, Or(language, file.resolved.language), Or(style, file.resolved.style))
=============================================================================
