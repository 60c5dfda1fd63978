--------------------------- MODULE SummaryPerFile ---------------------------
(***************************************************************************)
(* darshan-summary-per-file.sh (src/unnamed/part_000): for every file of  *)
(* a log, extract its records with darshan-convert and render a PDF with   *)
(* darshan-job-summary.pl into an output directory.                        *)
(*                                                                         *)
(* The script runs under "set -o pipefail".  It lists the files twice with *)
(* the pipeline  darshan-parser --file-list $1 | egrep -v '^(#|$)' |       *)
(* cut -f 1-2 | uniq : once through "wc -l" for the count, once into a     *)
(* "while read" loop.  The loop is the last stage of a pipeline, so bash   *)
(* runs it in a subshell: its "exit $rc" leaves the subshell only, and the *)
(* script goes on to its final echo.                                       *)
(*                                                                         *)
(* A line of the listing is a comment or a record id (hash), a path and    *)
(* further columns.  Paths are model values; BaseName gives their last     *)
(* component.  An output file holds the hash it was extracted for (or a   *)
(* partial write); a PDF holds the hash of the .gz it was rendered from.  *)
(***************************************************************************)
EXTENDS Naturals, Sequences, SequencesExt

CONSTANTS
    Hashes,        \* record ids of the files in the log
    Paths,         \* file paths recorded in the log
    Names,         \* basenames
    BaseName,      \* basename: Paths -> Names
    Columns,       \* values of the columns that "cut -f 1-2" drops
    Comment,       \* a "#..." or empty line of the listing
    Listings,      \* the stdouts darshan-parser --file-list $1 may print
    FileListExit,  \* exit status of darshan-parser --file-list $1
    CanFail,       \* whether darshan-convert / darshan-job-summary.pl may fail
    NONE,          \* no such file in the output directory
    PARTIAL        \* an output file a failed darshan-convert left behind

Line == [hash: Hashes, path: Paths, rest: Columns]

ASSUME BaseNameAssumption == BaseName \in [Paths -> Names]
ASSUME ListingsAssumption == Listings \subseteq Seq(Line \cup {Comment})
ASSUME FileListExitAssumption == FileListExit \in Nat
ASSUME CanFailAssumption == CanFail \in BOOLEAN
ASSUME NoneAssumption == {NONE, PARTIAL} \cap Hashes = {} /\ NONE # PARTIAL

Outcomes == IF CanFail THEN BOOLEAN ELSE {TRUE}

VARIABLES
    log,         \* the listing of the log $1
    pc,          \* the line the script is at
    argc,        \* $#
    dirExists,   \* whether $2 exists before mkdir
    filecount,   \* $filecount
    counter,     \* lines read by the loop
    hash,        \* $hash of the current line
    file,        \* $file of the current line
    rc,          \* $rc inside the loop subshell
    out,         \* the output directory: name -> [gz, pdf]
    status       \* the script's exit status once it has exited

vars == <<log, pc, argc, dirExists, filecount, counter, hash, file, rc, out, status>>

(***************************************************************************)
(* The listing pipeline.  egrep drops the comment lines and exits 1 when   *)
(* it selects no line at all; cut keeps the hash and the path; uniq drops  *)
(* a line equal to the one before it (only adjacent repeats).  With        *)
(* pipefail the pipeline's status is that of the last stage that failed.   *)
(***************************************************************************)
Egrep(s) == SelectSeq(s, LAMBDA l : l # Comment)
EgrepExit == IF Egrep(log) = <<>> THEN 1 ELSE 0
Cut(s) == [k \in DOMAIN s |-> [hash |-> s[k].hash, path |-> s[k].path]]
Uniq(s) ==
    FoldLeft(LAMBDA acc, l : IF acc # <<>> /\ Last(acc) = l
                             THEN acc ELSE Append(acc, l), <<>>, s)
Files == Uniq(Cut(Egrep(log)))
PipeStatus(st) ==
    IF \E k \in DOMAIN st : st[k] # 0
    THEN st[CHOOSE k \in DOMAIN st : st[k] # 0 /\ \A j \in k+1 .. Len(st) : st[j] = 0]
    ELSE 0
\* darshan-parser | egrep | cut | uniq | wc -l
CountStatus == PipeStatus(<<FileListExit, EgrepExit, 0, 0, 0>>)

Empty == [gz |-> NONE, pdf |-> NONE]

Init ==
    /\ log \in Listings
    /\ pc = "args"
    /\ argc \in {1, 2, 3}
    /\ dirExists \in BOOLEAN
    /\ filecount = 0 /\ counter = 0 /\ rc = 0
    /\ hash = NONE /\ file = NONE
    /\ out = [n \in Names |-> Empty]
    /\ status = NONE

Exit(s) == pc' = "exited" /\ status' = s

\* if [ $# -ne 2 ]; then echo Usage...; exit 1; fi
CheckArgs ==
    /\ pc = "args"
    /\ IF argc # 2 THEN Exit(1) ELSE pc' = "count" /\ UNCHANGED status
    /\ UNCHANGED <<log, argc, dirExists, filecount, counter, hash, file, rc, out>>

\* filecount=`... | wc -l`; rc=$?; exit $rc on failure
Count ==
    /\ pc = "count"
    /\ filecount' = Len(Files)
    /\ IF CountStatus # 0 THEN Exit(CountStatus)
       ELSE pc' = "mkdir" /\ UNCHANGED status
    /\ UNCHANGED <<log, argc, dirExists, counter, hash, file, rc, out>>

\* mkdir $2; rc=$?; exit $rc on failure (mkdir exits 1 on an existing path)
Mkdir ==
    /\ pc = "mkdir"
    /\ IF dirExists THEN Exit(1) ELSE pc' = "read" /\ UNCHANGED status
    /\ UNCHANGED <<log, argc, dirExists, filecount, counter, hash, file, rc, out>>

(***************************************************************************)
(* while read -r hash suffix stuff: the next line, or the end of the loop  *)
(* and the final echo, whose status 0 is the script's.  The body's         *)
(* [ -x $file.gz ] tests a file of the current directory, and its branch  *)
(* "$file = $file.$hash.gz" runs a command named $file instead of         *)
(* assigning: $file stays the basename either way.                        *)
(***************************************************************************)
ReadOffByOne ==   \* seeded fault: the last line is never read
    /\ pc = "read"
    /\ IF counter + 1 < Len(Files)
       THEN /\ counter' = counter + 1
            /\ hash' = Files[counter + 1].hash
            /\ file' = BaseName[Files[counter + 1].path]
            /\ pc' = "convert" /\ UNCHANGED status
       ELSE Exit(0) /\ UNCHANGED <<counter, hash, file>>
    /\ UNCHANGED <<log, argc, dirExists, filecount, rc, out>>

Read ==
    /\ pc = "read"
    /\ IF counter < Len(Files)
       THEN /\ counter' = counter + 1
            /\ hash' = Files[counter + 1].hash
            /\ file' = BaseName[Files[counter + 1].path]
            /\ pc' = "convert" /\ UNCHANGED status
       ELSE Exit(0) /\ UNCHANGED <<counter, hash, file>>
    /\ UNCHANGED <<log, argc, dirExists, filecount, rc, out>>

\* seeded fault: the record's path is passed where its hash belongs
ConvertBySuffix ==
    /\ pc = "convert"
    /\ out' = [out EXCEPT ![file].gz = Files[counter].path]
    /\ rc' = 0 /\ pc' = "summary"
    /\ UNCHANGED <<log, argc, dirExists, filecount, counter, hash, file, status>>

\* seeded fault: $? taken after another command, so a failure leaves rc 0
ConvertLosesRc ==
    /\ pc = "convert"
    /\ \E ok \in Outcomes :
         IF ok
         THEN /\ out' = [out EXCEPT ![file].gz = hash]
              /\ rc' = 0 /\ pc' = "summary" /\ UNCHANGED status
         ELSE /\ \E gz \in {out[file].gz, PARTIAL} :
                   out' = [out EXCEPT ![file].gz = gz]
              /\ rc' = 0 /\ Exit(0)
    /\ UNCHANGED <<log, argc, dirExists, filecount, counter, hash, file>>

(***************************************************************************)
(* darshan-convert --file $hash $1 $2/$file.gz, then the rc check: a       *)
(* failure may leave a partial $2/$file.gz and exits the subshell; the     *)
(* script then runs its final echo and exits 0.                            *)
(***************************************************************************)
Convert ==
    /\ pc = "convert"
    /\ \E ok \in Outcomes :
         IF ok
         THEN /\ out' = [out EXCEPT ![file].gz = hash]
              /\ rc' = 0 /\ pc' = "summary" /\ UNCHANGED status
         ELSE /\ \E gz \in {out[file].gz, PARTIAL} :
                   out' = [out EXCEPT ![file].gz = gz]
              /\ rc' = 1 /\ Exit(0)
    /\ UNCHANGED <<log, argc, dirExists, filecount, counter, hash, file>>

\* seeded fault: the rc check after darshan-job-summary.pl left out
SummaryNoExit ==
    /\ pc = "summary"
    /\ \E ok \in Outcomes :
         /\ out' = IF ok THEN [out EXCEPT ![file].pdf = out[file].gz] ELSE out
         /\ rc' = IF ok THEN 0 ELSE 1
    /\ pc' = "read"
    /\ UNCHANGED <<log, argc, dirExists, filecount, counter, hash, file, status>>

\* darshan-job-summary.pl $2/$file.gz --output $2/$file.pdf, then the rc check
Summary ==
    /\ pc = "summary"
    /\ \E ok \in Outcomes :
         IF ok
         THEN /\ out' = [out EXCEPT ![file].pdf = out[file].gz]
              /\ rc' = 0 /\ pc' = "read" /\ UNCHANGED status
         ELSE /\ rc' = 1 /\ Exit(0) /\ UNCHANGED out
    /\ UNCHANGED <<log, argc, dirExists, filecount, counter, hash, file>>

\* the script has exited; nothing more happens
Exited ==
    /\ pc = "exited"
    /\ UNCHANGED vars

Next == CheckArgs \/ Count \/ Mkdir \/ Read \/ Convert \/ Summary \/ Exited

\* bash runs the script's commands one after the other: weak fairness on
\* the script's steps says only that it does not stop between two of them
Spec == Init /\ [][Next]_vars /\ WF_vars(Next)
-----------------------------------------------------------------------------
\* the pipeline lists a sequence of (hash, path) pairs of the log
FilesListed == Files \in Seq([hash: Hashes, path: Paths])

(* The script's variables keep their types: the listing pipeline yields   *)
(* (hash, path) pairs, the loop counter never passes the number of listed *)
(* files, and output files hold record ids.                               *)
TypeOK ==
    /\ log \in Listings
    /\ FilesListed
    /\ pc \in {"args", "count", "mkdir", "read", "convert", "summary", "exited"}
    /\ argc \in {1, 2, 3} /\ dirExists \in BOOLEAN
    /\ filecount \in Nat /\ counter \in 0 .. Len(Files)
    /\ hash \in Hashes \cup {NONE} /\ file \in Names \cup {NONE}
    /\ rc \in {0, 1}
    /\ out \in [Names -> [gz: Hashes \cup {NONE, PARTIAL}, pdf: Hashes \cup {NONE}]]
    /\ status \in Nat \cup {NONE}

\* the hash of the last listed file whose basename is n
LastFor(n) ==
    Files[CHOOSE k \in DOMAIN Files :
            /\ BaseName[Files[k].path] = n
            /\ \A j \in k + 1 .. Len(Files) : BaseName[Files[j].path] # n].hash

(* Whenever the loop is about to read its next line, every PDF in the     *)
(* output directory was rendered from the .gz now beside it: the rc checks *)
(* after darshan-convert and darshan-job-summary.pl stop the loop before a *)
(* new extract can sit next to an older summary.                           *)
NoStaleSummary ==
    pc = "read" => \A n \in Names : out[n].pdf = out[n].gz

(* When the loop ran to its end without a tool failing, each basename's    *)
(* PDF summarises the last listed file with that basename: files sharing a *)
(* basename overwrite each other in listing order, and none is skipped.    *)
CleanRunKeepsLastOfEachName ==
    pc = "exited" /\ status = 0 /\ rc = 0 =>
        \A k \in DOMAIN Files :
            out[BaseName[Files[k].path]].pdf = LastFor(BaseName[Files[k].path])

(* Every listed path eventually has a PDF under its basename, unless a     *)
(* tool of the loop failed or the script exited with an error status.      *)
EveryFileSummarisedUnlessFailed ==
    \A p \in Paths :
        <>(\/ p \notin {Files[k].path : k \in DOMAIN Files}
           \/ out[BaseName[p]].pdf # NONE
           \/ rc # 0
           \/ pc = "exited" /\ status # 0)

(* The script's exit status reports a failed darshan-convert or            *)
(* darshan-job-summary.pl: it exits 0 only when the loop's rc is 0.        *)
ExitStatusReflectsFailure ==
    pc = "exited" /\ status = 0 => rc = 0

(* Invoked with two arguments and a fresh output directory, the script     *)
(* eventually exits with status 0.                                         *)
ScriptSucceeds ==
    argc = 2 /\ ~dirExists => <>(pc = "exited" /\ status = 0)
-----------------------------------------------------------------------------
(***************************************************************************)
(* The refinement mapping onto SummaryOrder.  A file counts as summarised *)
(* once darshan-job-summary.pl has rendered it: between the read of its    *)
(* line and that render, and after a failure that stopped the loop on it,  *)
(* the loop's counter is one ahead.  The script has stopped once it has    *)
(* exited, and stopped cleanly when neither its status nor the loop's rc   *)
(* reports an error.                                                       *)
(***************************************************************************)
Summarised ==
    IF pc \in {"convert", "summary"} \/ (pc = "exited" /\ rc # 0)
    THEN counter - 1 ELSE counter

Order == INSTANCE SummaryOrder
    WITH listing <- Files,
         done <- Summarised,
         pdf <- [n \in Names |-> out[n].pdf],
         over <- pc = "exited",
         clean <- pc = "exited" /\ status = 0 /\ rc = 0

(* The script implements SummaryOrder: it summarises the listed files one *)
(* at a time in listing order, each under its basename, and reports a     *)
(* clean stop only after the last one; the read loop, the two tools' rc    *)
(* checks and every exit of the script are steps or stutters of the order.*)
ImplementsSummaryOrder == Order!Spec
=============================================================================
