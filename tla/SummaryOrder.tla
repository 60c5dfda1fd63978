---------------------------- MODULE SummaryOrder ----------------------------
(***************************************************************************)
(* What darshan-summary-per-file.sh promises, without its commands: it     *)
(* takes the files a log lists one after the other, in listing order, and  *)
(* leaves under each file's basename the summary of that file, so that a   *)
(* later file with the same basename replaces an earlier one.  It stops    *)
(* either after the last file, cleanly, or at any point before, on an      *)
(* error.  SummaryPerFile refines this specification (Order there).        *)
(***************************************************************************)
EXTENDS Naturals, Sequences

CONSTANTS
    Hashes,      \* record ids of the files in the log
    Paths,       \* file paths recorded in the log
    Names,       \* basenames
    BaseName,    \* basename: Paths -> Names
    NONE         \* no summary under a basename

VARIABLES
    listing,     \* the (hash, path) pairs of the files, in listing order
    done,        \* how many of them have been summarised
    pdf,         \* basename -> the record id its summary was made from
    over,        \* whether the script has stopped
    clean        \* whether it stopped after the last file without error

avars == <<listing, done, pdf, over, clean>>

Init ==
    /\ listing \in Seq([hash: Hashes, path: Paths])
    /\ done = 0
    /\ pdf = [n \in Names |-> NONE]
    /\ over = FALSE
    /\ clean = FALSE

\* the next file of the listing is summarised under its basename
Summarise ==
    /\ ~over
    /\ done < Len(listing)
    /\ done' = done + 1
    /\ pdf' = [pdf EXCEPT ![BaseName[listing[done + 1].path]] = listing[done + 1].hash]
    /\ UNCHANGED <<listing, over, clean>>

\* every file has been summarised: the script stops without error
Finish ==
    /\ ~over
    /\ done = Len(listing)
    /\ over' = TRUE /\ clean' = TRUE
    /\ UNCHANGED <<listing, done, pdf>>

\* an error stops the script before, or instead of, the next file
Abort ==
    /\ ~over
    /\ over' = TRUE /\ clean' = FALSE
    /\ UNCHANGED <<listing, done, pdf>>

Next == Summarise \/ Finish \/ Abort

\* the steps of the order alone, the part a step-by-step proof reaches
SafeSpec == Init /\ [][Next]_avars

\* the script does not stop between two of its steps
Spec == SafeSpec /\ WF_avars(Next)
=============================================================================
