-------------------------- MODULE MCSummaryPerFile --------------------------
(***************************************************************************)
(* Model-checking instances of SummaryPerFile.  Four paths with two        *)
(* basenames (p1, p2 and p3, p4 share a file name in two directories); the *)
(* listing is a comment line and up to four record lines, so that a file  *)
(* is printed twice in a row with a different third column (one line per  *)
(* module, which uniq collapses once cut has dropped the column), or again *)
(* later (which uniq keeps).                                               *)
(*                                                                         *)
(* The script is composed with the command line of darshan-parser: the    *)
(* status and the stdout of "darshan-parser --file-list $1" are those of   *)
(* parse_args on that argument vector (usage() prints to stderr only).     *)
(***************************************************************************)
EXTENDS SummaryPerFile

CONSTANTS h1, h2, h3, h4, p1, p2, p3, p4, a, b, x, y

Cli == INSTANCE DarshanCli

L(h, p, c) == [hash |-> h, path |-> p, rest |-> c]

MCBaseName == [p \in {p1, p2, p3, p4} |-> IF p \in {p3, p4} THEN b ELSE a]

\* the lines a --file-list capable darshan-parser prints for a record: a
\* file's hash and path, with a column that differs between modules
RecLines == {L(h1, p1, x), L(h1, p1, y), L(h2, p2, x), L(h3, p3, x),
             L(h4, p4, x)}

\* the header comment, then up to four record lines in any order
MCListings == {<<Comment>> \o s : s \in BoundedSeq(RecLines, 4)}

\* a log that records no file: only the header comment
MCEmptyListings == {<<Comment>>}

\* this repository's darshan-parser, run as the script runs it
CliResult == Cli!ParseArgs(<<"--file-list", "log">>)
MCCliExit == CliResult.exit
MCCliListings == IF CliResult.exit = 0 THEN MCListings ELSE {<<>>}
=============================================================================
