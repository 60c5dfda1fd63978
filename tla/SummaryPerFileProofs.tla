------------------------ MODULE SummaryPerFileProofs ------------------------
(***************************************************************************)
(* Proofs about darshan-summary-per-file.sh (SummaryPerFile).              *)
(*                                                                         *)
(* StaleFree: NoStaleSummary holds for every log, every set of basenames   *)
(* and every outcome of the two tools.  It is not inductive: at "summary"  *)
(* the current file's .gz is fresh and its PDF is not yet.  SummaryInv     *)
(* says so, and needs only that the output directory is a function from    *)
(* the basenames to [gz, pdf] records: an EXCEPT on a $file outside Names  *)
(* changes nothing, so no fact about the listing is needed.                *)
(*                                                                         *)
(* CleanRunCorrect: CleanRunKeepsLastOfEachName, from the loop invariant   *)
(* LoopInv that ties the output directory to the lines read so far.       *)
(***************************************************************************)
EXTENDS SummaryPerFile, TLAPS

\* the output directory maps every basename to a .gz and a .pdf slot
OutShaped ==
    /\ out = [n \in Names |-> out[n]]
    /\ \A n \in Names : out[n] = [gz |-> out[n].gz, pdf |-> out[n].pdf]

\* every PDF matches its .gz, except the current file's between its
\* darshan-convert and its darshan-job-summary.pl
SummaryInv ==
    /\ OutShaped
    /\ pc \in {"args", "count", "mkdir", "read", "convert"} =>
           \A n \in Names : out[n].pdf = out[n].gz
    /\ pc = "summary" => \A n \in Names \ {file} : out[n].pdf = out[n].gz

LEMMA InitSummaryInv == Init => SummaryInv
BY DEF Init, SummaryInv, OutShaped, Empty

LEMMA NextSummaryInv == SummaryInv /\ [Next]_vars => SummaryInv'
<1> SUFFICES ASSUME SummaryInv, [Next]_vars PROVE SummaryInv'
    OBVIOUS
<1>1. CASE CheckArgs
      BY <1>1 DEF CheckArgs, Exit, SummaryInv, OutShaped
<1>2. CASE Count
      BY <1>2 DEF Count, Exit, SummaryInv, OutShaped
<1>3. CASE Mkdir
      BY <1>3 DEF Mkdir, Exit, SummaryInv, OutShaped
<1>4. CASE Read
      BY <1>4 DEF Read, Exit, SummaryInv, OutShaped
<1>5. CASE Convert
      <2> PICK ok \in Outcomes :
              IF ok
              THEN /\ out' = [out EXCEPT ![file].gz = hash]
                   /\ rc' = 0 /\ pc' = "summary" /\ UNCHANGED status
              ELSE /\ \E gz \in {out[file].gz, PARTIAL} :
                        out' = [out EXCEPT ![file].gz = gz]
                   /\ rc' = 1 /\ Exit(0)
          BY <1>5 DEF Convert
      <2>1. CASE ok
            <3>1. pc = "convert"
                  BY <1>5 DEF Convert
            <3>2. UNCHANGED file
                  BY <1>5 DEF Convert
            <3> QED BY <2>1, <3>1, <3>2 DEF SummaryInv, OutShaped
      <2>2. CASE ~ok
            <3> PICK gz \in {out[file].gz, PARTIAL} :
                    out' = [out EXCEPT ![file].gz = gz]
                BY <2>2
            <3> QED BY <2>2 DEF Exit, SummaryInv, OutShaped
      <2> QED BY <2>1, <2>2
<1>6. CASE Summary
      <2> PICK ok \in Outcomes :
              IF ok
              THEN /\ out' = [out EXCEPT ![file].pdf = out[file].gz]
                   /\ rc' = 0 /\ pc' = "read" /\ UNCHANGED status
              ELSE /\ rc' = 1 /\ Exit(0) /\ UNCHANGED out
          BY <1>6 DEF Summary
      <2>1. pc = "summary"
            BY <1>6 DEF Summary
      <2> QED BY <2>1 DEF Exit, SummaryInv, OutShaped
<1>7. CASE Exited
      BY <1>7 DEF Exited, vars, SummaryInv, OutShaped
<1>8. CASE UNCHANGED vars
      BY <1>8 DEF vars, SummaryInv, OutShaped
<1> QED BY <1>1, <1>2, <1>3, <1>4, <1>5, <1>6, <1>7, <1>8 DEF Next

-----------------------------------------------------------------------------
(***************************************************************************)
(* CleanRunKeepsLastOfEachName.  What the uniq fold of the listing        *)
(* pipeline returns is out of the provers' reach (a fold needs induction  *)
(* with an operator parameter), so the theorem takes FilesListed, the      *)
(* conjunct of TypeOK that TLC checks, as its hypothesis: the listing is a *)
(* sequence of (hash, path) pairs.  From it the loop's invariant follows:  *)
(* after the first counter lines, each basename's PDF (and .gz) holds the  *)
(* hash of the last of those lines with that basename, or NONE.            *)
(***************************************************************************)
\* the basename of the k-th listed file
Name(k) == BaseName[Files[k].path]

\* some of the first j listed files has basename n
Has(n, j) == \E k \in 1 .. j : Name(k) = n

\* the last of the first j listed files with basename n
LastIdx(n, j) ==
    CHOOSE k \in 1 .. j : Name(k) = n /\ \A i \in k + 1 .. j : Name(i) # n

\* the hash that basename n holds after the first j lines of the loop
Upto(n, j) == IF Has(n, j) THEN Files[LastIdx(n, j)].hash ELSE NONE

LoopInv ==
    /\ OutShaped
    /\ counter \in 0 .. Len(Files)
    /\ pc \in {"args", "count", "mkdir"} =>
           counter = 0 /\ rc = 0 /\ \A n \in Names : out[n].pdf = NONE
    /\ pc = "read" => rc = 0 /\ \A n \in Names : out[n].pdf = Upto(n, counter)
    /\ pc = "convert" =>
           /\ counter \in 1 .. Len(Files) /\ rc = 0
           /\ hash = Files[counter].hash /\ file = Name(counter)
           /\ \A n \in Names : out[n].pdf = Upto(n, counter - 1)
    /\ pc = "summary" =>
           /\ counter \in 1 .. Len(Files) /\ rc = 0
           /\ file = Name(counter) /\ out[file].gz = Files[counter].hash
           /\ \A n \in Names \ {file} : out[n].pdf = Upto(n, counter)
    /\ pc = "exited" /\ status = 0 /\ rc = 0 =>
           /\ counter = Len(Files)
           /\ \A n \in Names : out[n].pdf = Upto(n, Len(Files))

(* The line after the first j, with another basename, changes nothing. *)
LEMMA UptoMiss ==
    ASSUME NEW n, NEW j \in Nat, Name(j + 1) # n
    PROVE  Upto(n, j + 1) = Upto(n, j)
<1>1. Has(n, j + 1) <=> Has(n, j)
  BY DEF Has
<1>2. \A k : (k \in 1 .. j + 1 /\ Name(k) = n /\ \A i \in k + 1 .. j + 1 : Name(i) # n)
             <=> (k \in 1 .. j /\ Name(k) = n /\ \A i \in k + 1 .. j : Name(i) # n)
  BY SMT
<1>3. LastIdx(n, j + 1) = LastIdx(n, j)
  BY <1>2, Zenon DEF LastIdx
<1>. QED
  BY <1>1, <1>3 DEF Upto

(* The line after the first j, with basename n, is the last one for n. *)
LEMMA UptoHit ==
    ASSUME NEW n, NEW j \in Nat, Name(j + 1) = n
    PROVE  Upto(n, j + 1) = Files[j + 1].hash
<1>1. Has(n, j + 1)
  BY DEF Has
<1>2. \A k \in 1 .. j + 1 :
        (Name(k) = n /\ \A i \in k + 1 .. j + 1 : Name(i) # n) <=> k = j + 1
  OBVIOUS
<1>3. LastIdx(n, j + 1) = j + 1
  BY <1>2 DEF LastIdx
<1>. QED
  BY <1>1, <1>3 DEF Upto

(* Before the loop reads a line no basename holds a hash. *)
LEMMA UptoNone ==
    ASSUME NEW n
    PROVE  Upto(n, 0) = NONE
BY DEF Upto, Has

\* an element of a sequence over S is in S
LEMMA SeqElem ==
    ASSUME NEW S, NEW F \in Seq(S), NEW k \in 1 .. Len(F)
    PROVE  F[k] \in S /\ Len(F) \in Nat
OBVIOUS

\* what FilesListed gives the proofs
LEMMA FilesFacts ==
    ASSUME FilesListed
    PROVE  /\ Len(Files) \in Nat
           /\ \A k \in 1 .. Len(Files) : Name(k) \in Names
<1>1. \A k \in 1 .. Len(Files) : Files[k].path \in Paths
  <2>. SUFFICES ASSUME NEW k \in 1 .. Len(Files) PROVE Files[k].path \in Paths
    OBVIOUS
  <2>1. Files[k] \in [hash: Hashes, path: Paths]
    BY SeqElem DEF FilesListed
  <2>. QED
    BY <2>1
<1>. QED
  BY <1>1, BaseNameAssumption DEF FilesListed, Name

\* the loop never changes the listing it reads
LEMMA ListingUnchanged ==
    ASSUME log' = log
    PROVE  /\ Files' = Files
           /\ \A k : Name(k)' = Name(k)
           /\ \A n, j : Upto(n, j)' = Upto(n, j)
<1>1. Files' = Files
  BY Zenon DEF Files
<1>. QED
  BY <1>1 DEF Name, Upto, Has, LastIdx

LEMMA InitLoopInv == Init /\ FilesListed => LoopInv
BY FilesFacts DEF Init, LoopInv, OutShaped, Empty

LEMMA NextLoopInv == LoopInv /\ FilesListed /\ [Next]_vars => LoopInv'
<1> SUFFICES ASSUME LoopInv, FilesListed, [Next]_vars PROVE LoopInv'
    OBVIOUS
<1>0. /\ Len(Files) \in Nat
      /\ \A k \in 1 .. Len(Files) : Name(k) \in Names
  BY FilesFacts
<1>1. log' = log
  BY DEF Next, CheckArgs, Count, Mkdir, Read, Convert, Summary, Exited, vars
<1>2. /\ Files' = Files
      /\ \A k : Name(k)' = Name(k)
      /\ \A n, j : Upto(n, j)' = Upto(n, j)
  BY <1>1, ListingUnchanged
<1>3. CASE CheckArgs
  BY <1>2, <1>3 DEF CheckArgs, Exit, LoopInv, OutShaped
<1>4. CASE Count
  BY <1>2, <1>4 DEF Count, Exit, LoopInv, OutShaped
<1>5. CASE Mkdir
  BY <1>2, <1>5, UptoNone DEF Mkdir, Exit, LoopInv, OutShaped
<1>6. CASE Read
  <2>1. pc = "read" /\ rc = 0 /\ counter \in 0 .. Len(Files)
    BY <1>6 DEF Read, LoopInv
  <2>2. CASE counter < Len(Files)
    <3>1. /\ counter' = counter + 1 /\ counter' \in 1 .. Len(Files)
          /\ hash' = Files[counter'].hash /\ file' = Name(counter')
          /\ pc' = "convert" /\ UNCHANGED <<rc, out>>
      BY <1>0, <1>6, <2>1, <2>2 DEF Read, Name
    <3>. QED
      BY <1>2, <2>1, <3>1 DEF LoopInv, OutShaped
  <2>3. CASE ~(counter < Len(Files))
    <3>1. counter = Len(Files) /\ pc' = "exited" /\ UNCHANGED <<counter, rc, out>>
      BY <1>0, <1>6, <2>1, <2>3 DEF Read, Exit
    <3>. QED
      BY <1>2, <2>1, <3>1 DEF LoopInv, OutShaped
  <2>. QED
    BY <2>2, <2>3
<1>7. CASE Convert
  <2>1. /\ pc = "convert" /\ counter \in 1 .. Len(Files)
        /\ hash = Files[counter].hash /\ file = Name(counter)
        /\ \A n \in Names : out[n].pdf = Upto(n, counter - 1)
        /\ UNCHANGED <<counter, hash, file>>
    BY <1>7 DEF Convert, LoopInv
  <2>2. file \in Names
    BY <1>0, <2>1
  <2> PICK ok \in Outcomes :
          IF ok
          THEN /\ out' = [out EXCEPT ![file].gz = hash]
               /\ rc' = 0 /\ pc' = "summary" /\ UNCHANGED status
          ELSE /\ \E gz \in {out[file].gz, PARTIAL} :
                    out' = [out EXCEPT ![file].gz = gz]
               /\ rc' = 1 /\ Exit(0)
    BY <1>7 DEF Convert
  <2>3. CASE ok
    <3>1. \A n \in Names \ {file} : Upto(n, counter - 1) = Upto(n, counter)
      <4>1. counter - 1 \in Nat /\ (counter - 1) + 1 = counter
        BY <2>1
      <4>. QED
        BY <2>1, <4>1, UptoMiss
    <3>2. /\ out'[file].gz = hash
          /\ \A n \in Names \ {file} : out'[n] = out[n]
          /\ OutShaped'
      BY <2>2, <2>3 DEF LoopInv, OutShaped
    <3>. QED
      BY <1>2, <2>1, <2>3, <3>1, <3>2 DEF LoopInv
  <2>4. CASE ~ok
    <3>0. PICK gz \in {out[file].gz, PARTIAL} : out' = [out EXCEPT ![file].gz = gz]
      BY <2>4
    <3>1. OutShaped'
      BY <2>2, <3>0 DEF LoopInv, OutShaped
    <3>. QED
      BY <1>2, <2>1, <2>4, <3>1 DEF Exit, LoopInv
  <2>. QED
    BY <2>3, <2>4
<1>8. CASE Summary
  <2>1. /\ pc = "summary" /\ counter \in 1 .. Len(Files)
        /\ file = Name(counter) /\ out[file].gz = Files[counter].hash
        /\ \A n \in Names \ {file} : out[n].pdf = Upto(n, counter)
        /\ UNCHANGED <<counter, hash, file>>
    BY <1>8 DEF Summary, LoopInv
  <2>2. file \in Names
    BY <1>0, <2>1
  <2> PICK ok \in Outcomes :
          IF ok
          THEN /\ out' = [out EXCEPT ![file].pdf = out[file].gz]
               /\ rc' = 0 /\ pc' = "read" /\ UNCHANGED status
          ELSE /\ rc' = 1 /\ Exit(0) /\ UNCHANGED out
    BY <1>8 DEF Summary
  <2>3. CASE ok
    <3>1. Upto(file, counter) = Files[counter].hash
      <4>1. counter - 1 \in Nat /\ (counter - 1) + 1 = counter
        BY <2>1
      <4>. QED
        BY <2>1, <4>1, UptoHit
    <3>2. /\ out'[file].pdf = out[file].gz
          /\ \A n \in Names \ {file} : out'[n] = out[n]
          /\ OutShaped'
      BY <2>2, <2>3 DEF LoopInv, OutShaped
    <3>. QED
      BY <1>2, <2>1, <2>3, <3>1, <3>2 DEF LoopInv
  <2>4. CASE ~ok
    BY <1>2, <2>1, <2>4 DEF Exit, LoopInv, OutShaped
  <2>. QED
    BY <2>3, <2>4
<1>9. CASE Exited \/ UNCHANGED vars
  BY <1>2, <1>9 DEF Exited, vars, LoopInv, OutShaped
<1> QED BY <1>3, <1>4, <1>5, <1>6, <1>7, <1>8, <1>9 DEF Next

(* The rc checks after darshan-convert and darshan-job-summary.pl keep     *)
(* every PDF beside the .gz it was rendered from whenever the loop reads   *)
(* its next line, whatever the log lists and whichever tool fails.         *)
THEOREM StaleFree == Spec => []NoStaleSummary
<1>1. SummaryInv => NoStaleSummary
      BY DEF SummaryInv, NoStaleSummary
<1> QED BY <1>1, InitSummaryInv, NextSummaryInv, PTL DEF Spec

(* A run of the loop that no tool failed leaves under each basename the   *)
(* PDF of the last listed file with that basename: same-named files        *)
(* overwrite each other in listing order and none is skipped               *)
(* (CleanRunKeepsLastOfEachName, checked by script_loop), for every log,   *)
(* whenever the listing pipeline yields (hash, path) pairs (FilesListed,   *)
(* which TLC checks as part of TypeOK).                                    *)
THEOREM CleanRunCorrect == Spec /\ []FilesListed => []CleanRunKeepsLastOfEachName
<1>1. Init /\ FilesListed => LoopInv
  BY InitLoopInv
<1>2. LoopInv /\ FilesListed /\ [Next]_vars => LoopInv'
  BY NextLoopInv
<1>3. LoopInv /\ FilesListed => CleanRunKeepsLastOfEachName
  <2>. SUFFICES ASSUME LoopInv, FilesListed, pc = "exited", status = 0, rc = 0,
                       NEW k \in DOMAIN Files
                PROVE  out[Name(k)].pdf = LastFor(Name(k))
    BY DEF CleanRunKeepsLastOfEachName, Name
  <2>1. DOMAIN Files = 1 .. Len(Files) /\ Len(Files) \in Nat
    BY DEF FilesListed
  <2>2. Name(k) \in Names /\ Has(Name(k), Len(Files))
    BY <2>1, FilesFacts DEF Has
  <2>3. out[Name(k)].pdf = Files[LastIdx(Name(k), Len(Files))].hash
    BY <2>2 DEF LoopInv, Upto
  <2>4. LastFor(Name(k)) = Files[LastIdx(Name(k), Len(Files))].hash
    BY <2>1 DEF LastFor, LastIdx, Name
  <2>. QED
    BY <2>3, <2>4
<1>. QED
  BY <1>1, <1>2, <1>3, PTL DEF Spec
-----------------------------------------------------------------------------
(***************************************************************************)
(* The refinement of SummaryOrder, step by step.  The initial state maps  *)
(* to SummaryOrder's; under LoopInv each step of the script maps to a step *)
(* of the order or to a stutter: the read of a line and darshan-convert    *)
(* leave the mapped state alone, darshan-job-summary.pl is Summarise, the  *)
(* end of the loop is Finish, and every other exit is Abort.  The order's  *)
(* fairness is a liveness property, which TLC checks (script_loop).        *)
(***************************************************************************)
LEMMA InitRefines == Init /\ FilesListed => Order!Init
BY DEF Init, Order!Init, Summarised, Empty, FilesListed

LEMMA NextRefines == LoopInv /\ FilesListed /\ [Next]_vars => [Order!Next]_Order!avars
<1> SUFFICES ASSUME LoopInv, FilesListed, [Next]_vars
             PROVE  [Order!Next]_Order!avars
  OBVIOUS
<1>0. /\ Len(Files) \in Nat
      /\ \A k \in 1 .. Len(Files) : Name(k) \in Names
  BY FilesFacts
<1>1. log' = log
  BY DEF Next, CheckArgs, Count, Mkdir, Read, Convert, Summary, Exited, vars
<1>2. Files' = Files
  BY <1>1, ListingUnchanged
<1>3. CASE CheckArgs
  <2>1. pc = "args" /\ counter = 0 /\ rc = 0 /\ UNCHANGED <<counter, rc, out>>
    BY <1>3 DEF CheckArgs, LoopInv
  <2>2. CASE argc # 2
    <3>1. pc' = "exited" /\ status' = 1
      BY <1>3, <2>2 DEF CheckArgs, Exit
    <3>. QED
      BY <1>2, <2>1, <3>1 DEF Order!Next, Order!Abort, Summarised
  <2>3. CASE argc = 2
    <3>1. pc' = "count"
      BY <1>3, <2>3 DEF CheckArgs
    <3>. QED
      BY <1>2, <2>1, <3>1 DEF Order!avars, Summarised
  <2>. QED
    BY <2>2, <2>3
<1>4. CASE Count
  <2>1. pc = "count" /\ counter = 0 /\ rc = 0 /\ UNCHANGED <<counter, rc, out>>
    BY <1>4 DEF Count, LoopInv
  <2>2. CASE CountStatus # 0
    <3>1. pc' = "exited" /\ status' # 0
      BY <1>4, <2>2 DEF Count, Exit
    <3>. QED
      BY <1>2, <2>1, <3>1 DEF Order!Next, Order!Abort, Summarised
  <2>3. CASE CountStatus = 0
    <3>1. pc' = "mkdir"
      BY <1>4, <2>3 DEF Count
    <3>. QED
      BY <1>2, <2>1, <3>1 DEF Order!avars, Summarised
  <2>. QED
    BY <2>2, <2>3
<1>5. CASE Mkdir
  <2>1. pc = "mkdir" /\ counter = 0 /\ rc = 0 /\ UNCHANGED <<counter, rc, out>>
    BY <1>5 DEF Mkdir, LoopInv
  <2>2. CASE dirExists
    <3>1. pc' = "exited" /\ status' = 1
      BY <1>5, <2>2 DEF Mkdir, Exit
    <3>. QED
      BY <1>2, <2>1, <3>1 DEF Order!Next, Order!Abort, Summarised
  <2>3. CASE ~dirExists
    <3>1. pc' = "read"
      BY <1>5, <2>3 DEF Mkdir
    <3>. QED
      BY <1>2, <2>1, <3>1 DEF Order!avars, Summarised
  <2>. QED
    BY <2>2, <2>3
<1>6. CASE Read
  <2>1. pc = "read" /\ rc = 0 /\ counter \in 0 .. Len(Files)
        /\ UNCHANGED <<rc, out>>
    BY <1>6 DEF Read, LoopInv
  <2>2. CASE counter < Len(Files)
    <3>1. counter' = counter + 1 /\ pc' = "convert"
      BY <1>6, <2>2 DEF Read
    <3>. QED
      BY <1>2, <2>1, <3>1 DEF Order!avars, Summarised
  <2>3. CASE ~(counter < Len(Files))
    <3>1. counter = Len(Files) /\ pc' = "exited" /\ status' = 0 /\ counter' = counter
      BY <1>0, <1>6, <2>1, <2>3 DEF Read, Exit
    <3>. QED
      BY <1>2, <2>1, <3>1 DEF Order!Next, Order!Finish, Summarised
  <2>. QED
    BY <2>2, <2>3
<1>7. CASE Convert
  <2>1. /\ pc = "convert" /\ counter \in 1 .. Len(Files) /\ rc = 0
        /\ UNCHANGED counter
    BY <1>7 DEF Convert, LoopInv
  <2>2. [n \in Names |-> out'[n].pdf] = [n \in Names |-> out[n].pdf]
    <3>. SUFFICES ASSUME NEW n \in Names PROVE out'[n].pdf = out[n].pdf
      OBVIOUS
    <3>1. PICK gz : out' = [out EXCEPT ![file].gz = gz]
      BY <1>7 DEF Convert
    <3>. QED
      BY <3>1 DEF LoopInv, OutShaped
  <2>3. pc' = "summary" \/ (pc' = "exited" /\ rc' = 1)
    BY <1>7 DEF Convert, Exit
  <2>4. CASE pc' = "summary"
    BY <1>2, <2>1, <2>2, <2>4 DEF Order!avars, Summarised
  <2>5. CASE pc' = "exited" /\ rc' = 1
    BY <1>2, <2>1, <2>2, <2>5 DEF Order!Next, Order!Abort, Summarised
  <2>. QED
    BY <2>3, <2>4, <2>5
<1>8. CASE Summary
  <2>1. /\ pc = "summary" /\ counter \in 1 .. Len(Files) /\ rc = 0
        /\ file = Name(counter) /\ out[file].gz = Files[counter].hash
        /\ UNCHANGED <<counter, file>>
    BY <1>8 DEF Summary, LoopInv
  <2> PICK ok \in Outcomes :
          IF ok
          THEN /\ out' = [out EXCEPT ![file].pdf = out[file].gz]
               /\ rc' = 0 /\ pc' = "read" /\ UNCHANGED status
          ELSE /\ rc' = 1 /\ Exit(0) /\ UNCHANGED out
    BY <1>8 DEF Summary
  <2>2. CASE ok
    <3>1. file \in Names
      BY <1>0, <2>1
    <3>2. [n \in Names |-> out'[n].pdf]
            = [[n \in Names |-> out[n].pdf] EXCEPT ![file] = Files[counter].hash]
      BY <2>1, <2>2, <3>1 DEF LoopInv, OutShaped
    <3>3. /\ Summarised = counter - 1 /\ Summarised' = counter
          /\ (counter - 1) + 1 = counter /\ counter - 1 < Len(Files)
      BY <2>1, <2>2 DEF Summarised
    <3>. QED
      BY <1>2, <2>1, <2>2, <3>2, <3>3 DEF Order!Next, Order!Summarise, Name
  <2>3. CASE ~ok
    BY <1>2, <2>1, <2>3 DEF Exit, Order!Next, Order!Abort, Summarised
  <2>. QED
    BY <2>2, <2>3
<1>9. CASE Exited \/ UNCHANGED vars
  BY <1>2, <1>9 DEF Exited, vars, Order!avars, Summarised
<1>. QED
  BY <1>3, <1>4, <1>5, <1>6, <1>7, <1>8, <1>9 DEF Next

(* The script implements SummaryOrder's steps: from a start in which the  *)
(* listing pipeline yields (hash, path) pairs, it summarises the listed   *)
(* files one at a time, in listing order, each under its basename, stops  *)
(* cleanly only after the last one, and every other stop is an abort       *)
(* (the safety part of ImplementsSummaryOrder, which script_loop checks    *)
(* with the fairness).                                                      *)
THEOREM RefinesOrder == Spec /\ []FilesListed => Order!SafeSpec
<1>1. Init /\ FilesListed => LoopInv
  BY InitLoopInv
<1>2. LoopInv /\ FilesListed /\ [Next]_vars => LoopInv'
  BY NextLoopInv
<1>. QED
  BY <1>1, <1>2, InitRefines, NextRefines, PTL DEF Spec, Order!SafeSpec
-----------------------------------------------------------------------------
(***************************************************************************)
(* TypeOK.  Its FilesListed conjunct is the fold's, taken as hypothesis as *)
(* above; the rest follows from LoopInv.  What is not a matter of shape:   *)
(* the hash darshan-convert extracts is a listed record id, never the     *)
(* NONE of a loop that has read no line, and darshan-job-summary.pl       *)
(* renders a .gz that holds a record id, never a PARTIAL one, since a      *)
(* failed darshan-convert stops the loop (LoopInv at "convert" and         *)
(* "summary").  The status of the counting pipeline is an exit status.    *)
(***************************************************************************)
LEMMA CountStatusNat == CountStatus \in Nat
<1>. DEFINE st == <<FileListExit, EgrepExit, 0, 0, 0>>
<1>1. \A k \in DOMAIN st : st[k] \in Nat
  BY FileListExitAssumption DEF EgrepExit
<1>2. CASE \E k \in DOMAIN st : st[k] # 0
  <2>1. \E k \in DOMAIN st : st[k] # 0 /\ \A j \in k + 1 .. Len(st) : st[j] = 0
    <3>1. CASE EgrepExit # 0
      BY <3>1
    <3>2. CASE EgrepExit = 0
      BY <1>2, <3>2
    <3>. QED
      BY <3>1, <3>2
  <2>. QED
    BY <1>1, <1>2, <2>1 DEF CountStatus, PipeStatus
<1>3. CASE ~\E k \in DOMAIN st : st[k] # 0
  BY <1>3 DEF CountStatus, PipeStatus
<1>. QED
  BY <1>2, <1>3

\* TypeOK without its FilesListed conjunct
STyped ==
    /\ log \in Listings
    /\ pc \in {"args", "count", "mkdir", "read", "convert", "summary", "exited"}
    /\ argc \in {1, 2, 3} /\ dirExists \in BOOLEAN
    /\ filecount \in Nat
    /\ hash \in Hashes \cup {NONE} /\ file \in Names \cup {NONE}
    /\ rc \in {0, 1}
    /\ out \in [Names -> [gz: Hashes \cup {NONE, PARTIAL}, pdf: Hashes \cup {NONE}]]
    /\ status \in Nat \cup {NONE}

LEMMA InitSTyped == Init => STyped
BY DEF Init, STyped, Empty

LEMMA NextSTyped == STyped /\ LoopInv /\ FilesListed /\ [Next]_vars => STyped'
<1> SUFFICES ASSUME STyped, LoopInv, FilesListed, [Next]_vars PROVE STyped'
  OBVIOUS
<1>0. /\ Len(Files) \in Nat
      /\ \A k \in 1 .. Len(Files) : Name(k) \in Names
      /\ \A k \in 1 .. Len(Files) : Files[k].hash \in Hashes
  <2>1. \A k \in 1 .. Len(Files) : Files[k].hash \in Hashes
    <3>. SUFFICES ASSUME NEW k \in 1 .. Len(Files) PROVE Files[k].hash \in Hashes
      OBVIOUS
    <3>1. Files[k] \in [hash: Hashes, path: Paths]
      BY SeqElem DEF FilesListed
    <3>. QED
      BY <3>1
  <2>. QED
    BY <2>1, FilesFacts
<1>1. CASE CheckArgs
  BY <1>1 DEF CheckArgs, Exit, STyped
<1>2. CASE Count
  BY <1>0, <1>2, CountStatusNat DEF Count, Exit, STyped
<1>3. CASE Mkdir
  BY <1>3 DEF Mkdir, Exit, STyped
<1>4. CASE Read
  <2>1. CASE counter < Len(Files)
    <3>1. counter + 1 \in 1 .. Len(Files)
      BY <2>1 DEF LoopInv
    <3>. QED
      BY <1>0, <1>4, <2>1, <3>1 DEF Read, STyped, Name
  <2>2. CASE ~(counter < Len(Files))
    BY <1>4, <2>2 DEF Read, Exit, STyped
  <2>. QED
    BY <2>1, <2>2
<1>5. CASE Convert
  <2>1. pc = "convert" /\ hash \in Hashes /\ file \in Names
        /\ UNCHANGED <<log, argc, dirExists, filecount, hash, file>>
    BY <1>0, <1>5 DEF Convert, LoopInv
  <2> PICK ok \in Outcomes :
          IF ok
          THEN /\ out' = [out EXCEPT ![file].gz = hash]
               /\ rc' = 0 /\ pc' = "summary" /\ UNCHANGED status
          ELSE /\ \E gz \in {out[file].gz, PARTIAL} :
                    out' = [out EXCEPT ![file].gz = gz]
               /\ rc' = 1 /\ Exit(0)
    BY <1>5 DEF Convert
  <2>2. CASE ok
    BY <2>1, <2>2 DEF STyped
  <2>3. CASE ~ok
    <3>1. PICK gz \in {out[file].gz, PARTIAL} : out' = [out EXCEPT ![file].gz = gz]
      BY <2>3
    <3>. QED
      BY <2>1, <2>3, <3>1 DEF Exit, STyped
  <2>. QED
    BY <2>2, <2>3
<1>6. CASE Summary
  <2>1. /\ pc = "summary" /\ file \in Names /\ out[file].gz \in Hashes
        /\ UNCHANGED <<log, argc, dirExists, filecount, hash, file>>
    BY <1>0, <1>6 DEF Summary, LoopInv
  <2> PICK ok \in Outcomes :
          IF ok
          THEN /\ out' = [out EXCEPT ![file].pdf = out[file].gz]
               /\ rc' = 0 /\ pc' = "read" /\ UNCHANGED status
          ELSE /\ rc' = 1 /\ Exit(0) /\ UNCHANGED out
    BY <1>6 DEF Summary
  <2>. QED
    BY <2>1 DEF Exit, STyped
<1>7. CASE Exited \/ UNCHANGED vars
  BY <1>7 DEF Exited, vars, STyped
<1>. QED
  BY <1>1, <1>2, <1>3, <1>4, <1>5, <1>6, <1>7 DEF Next

(* The script's state keeps its types (TypeOK, checked by script_loop):    *)
(* in particular no PDF is ever rendered from a partial extract, for every *)
(* log whose listing pipeline yields (hash, path) pairs.                   *)
THEOREM ScriptTypeCorrect == Spec /\ []FilesListed => []TypeOK
<1>1. Init /\ FilesListed => LoopInv /\ STyped
  BY InitLoopInv, InitSTyped
<1>2. (LoopInv /\ STyped) /\ FilesListed /\ [Next]_vars => (LoopInv /\ STyped)'
  BY NextLoopInv, NextSTyped
<1>3. LoopInv /\ STyped /\ FilesListed => TypeOK
  BY DEF LoopInv, STyped, TypeOK
<1>. QED
  BY <1>1, <1>2, <1>3, PTL DEF Spec
=============================================================================
