---------------------------- MODULE SandboxScan ----------------------------
(***************************************************************************)
(* The walk over an uploaded workspace before it is analysed               *)
(* (discovery-core, analyzer_sandbox).  A workspace is the sequence of its *)
(* directories in the order of the walk: each has its depth and its files, *)
(* [link, stat, size], and the number of its entries that are links to     *)
(* directories; directories under links are never walked.                  *)
(***************************************************************************)
EXTENDS Naturals, Sequences, SequencesExt

CONSTANTS
    Limits      \* [file, total, files, depth]: SandboxLimits

\* What the walk has found: the files counted, their bytes, the violations
\* noted, and the limit that ended it.
Clean == [files |-> 0, bytes |-> 0, violations |-> 0, ended |-> "no"]

Noted(scan, n) == [scan EXCEPT !.violations = @ + n]

Acceptable(file) == ~file.link /\ file.stat /\ file.size <= Limits.file

\* A file that is counted and then found to be one too many stays counted.
ScanFile(scan, file) ==
    LET files == scan.files + 1
        bytes == scan.bytes + file.size
    IN  IF scan.ended # "no" THEN scan
        ELSE IF ~Acceptable(file) THEN Noted(scan, 1)
        ELSE [scan EXCEPT !.files = files, !.bytes = bytes,
                          !.ended = CASE files > Limits.files -> "max_files"
                                      [] files <= Limits.files /\ bytes > Limits.total -> "max_total_bytes"
                                      [] OTHER -> "no"]

\* A directory that is too deep is noted and its files are not looked at;
\* the walk does not go below it.
ScanDirectory(scan, dir) ==
    IF scan.ended # "no" \/ dir.depth > Limits.depth + 1 THEN scan
    ELSE IF dir.depth = Limits.depth + 1 THEN Noted(scan, 1)
    ELSE FoldLeft(ScanFile, Noted(scan, dir.links), dir.files)

ScanWorkspace(walk) == FoldLeft(ScanDirectory, Clean, walk)

Accepted(walk) == ScanWorkspace(walk).ended = "no" /\ ScanWorkspace(walk).violations = 0

\* An archive is refused before it is unpacked.
ArchiveSuspected(uncompressed, compressed) ==
    compressed = 0 \/ uncompressed > 100 * compressed \/ uncompressed > Limits.total
=============================================================================
