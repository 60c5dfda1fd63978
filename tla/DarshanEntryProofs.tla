-------------------------- MODULE DarshanEntryProofs ---------------------------
(***************************************************************************)
(* What *_accum_file leaves in a per-file hash entry follows the order of  *)
(* the records folded into it since the last reset, for every number of   *)
(* processes and every record set: the SHARED, UNIQUE and PARTSHARED bits  *)
(* and the procs count (ClassificationFaithful), and the slowest-rank time *)
(* (SlowestTimeFaithful).                                                  *)
(*                                                                         *)
(* Both properties are written with SetMax, a CHOOSE over a set of         *)
(* numbers; that such a maximum exists would need an induction over the    *)
(* history.  The inductive invariant ClassInv carries witnesses instead:   *)
(* the last shared index of every history (HasLastShared) and the entry's  *)
(* slowest time as a bound of the times it is the maximum of (SlowestOK);  *)
(* SetMaxIs and LastSharedUnique show that the CHOOSE picks them.          *)
(***************************************************************************)
EXTENDS DarshanParserProofs

\* ls is the index of the last shared record of h (0 when there is none)
LastSharedIs(h, ls) ==
    /\ ls \in 0 .. Len(h)
    /\ ls # 0 => IsShared(h[ls])
    /\ \A k \in ls + 1 .. Len(h) : ~IsShared(h[k])

\* the four conjuncts of ClassificationFaithful for entry e, history h and
\* last shared index ls
Classified(e, h, ls) ==
    /\ ("SHARED" \in e.type) <=> ls # 0
    /\ ("UNIQUE" \in e.type) <=>
          /\ ~IsShared(h[1])
          /\ \A k \in 2 .. Len(h) : IsShared(h[k])
    /\ ("PARTSHARED" \in e.type) <=> \E k \in 2 .. Len(h) : ~IsShared(h[k])
    /\ e.procs = IF ls = 0 THEN Len(h) ELSE NProcs + Len(h) - ls

\* the times SlowestTimeFaithful takes the maximum of
SlowestSet(h, ls) ==
    {IF ls = 0 THEN 0 ELSE h[ls].slowest} \cup {IoTime(h[k]) : k \in ls + 1 .. Len(h)}

\* the entry's slowest time is the largest of them
SlowestOK(e, h, ls) ==
    /\ e.slowest_io_total_time \in SlowestSet(h, ls)
    /\ \A y \in SlowestSet(h, ls) : e.slowest_io_total_time >= y

EntryFaithful(e, h, ls) == Classified(e, h, ls) /\ SlowestOK(e, h, ls)

HasLastShared ==
    \A i \in Ids : \E ls \in 0 .. Len(folded[i]) : LastSharedIs(folded[i], ls)

ClassInv ==
    /\ IInv
    /\ HasLastShared
    /\ DOMAIN file_hash_table = {i \in Ids : folded[i] # <<>>}
    /\ \A i \in DOMAIN file_hash_table :
           EntryFaithful(file_hash_table[i], folded[i], LastShared(folded[i]))

-----------------------------------------------------------------------------
(* SetMax picks the element of a set of numbers that bounds all others. *)
LEMMA SetMaxIs ==
    ASSUME NEW S \in SUBSET Int, NEW v \in S, \A y \in S : v >= y
    PROVE  SetMax(S) = v
<1>1. \A x \in S : (\A y \in S : x >= y) => x = v
  OBVIOUS
<1>. QED
  BY <1>1 DEF SetMax

(* The CHOOSE of LastShared picks the index with the defining properties. *)
LEMMA LastSharedUnique ==
    ASSUME NEW h \in Seq(RecordType), NEW ls \in Nat, LastSharedIs(h, ls)
    PROVE  LastShared(h) = ls
<1>. DEFINE S == {0} \cup {k \in 1 .. Len(h) : IsShared(h[k])}
<1>1. ls \in S /\ \A y \in S : ls >= y
  BY DEF LastSharedIs
<1>2. \A x \in S : (\A y \in S : x >= y) => x = ls
  BY <1>1
<1>3. LastShared(h) = CHOOSE x \in S : \A y \in S : x >= y
  BY DEF LastShared, SetMax
<1>. QED
  BY <1>1, <1>2, <1>3

(* Appending a record moves the last shared index to the new record if it  *)
(* is shared, and leaves it otherwise.                                     *)
LEMMA LastSharedIsAppend ==
    ASSUME NEW h \in Seq(RecordType), NEW r \in RecordType,
           NEW ls \in Nat, LastSharedIs(h, ls)
    PROVE  LastSharedIs(Append(h, r), IF IsShared(r) THEN Len(h) + 1 ELSE ls)
BY DEF LastSharedIs

(* The empty history has no shared record. *)
LEMMA LastSharedIsEmpty == LastSharedIs(<<>>, 0)
BY DEF LastSharedIs
-----------------------------------------------------------------------------
(* *_accum_file on the first record of a file classifies it by that record. *)
LEMMA AccumFileFirst ==
    ASSUME NEW r \in RecordType
    PROVE  Classified(AccumFile(EmptyEntry, r), <<r>>,
                      IF IsShared(r) THEN 1 ELSE 0)
<1>1. NProcs \in Nat \ {0}
  BY NProcsAssumption
<1>2. CASE IsShared(r)
  BY <1>1, <1>2 DEF AccumFile, EmptyEntry, Classified, IsShared
<1>3. CASE ~IsShared(r)
  BY <1>3 DEF AccumFile, EmptyEntry, Classified, IsShared
<1>. QED
  BY <1>2, <1>3

(* *_accum_file on a further shared record: SHARED is set and procs is     *)
(* nprocs; UNIQUE and PARTSHARED keep their meaning since the new record   *)
(* is shared.                                                              *)
LEMMA AccumFileShared ==
    ASSUME NEW h \in Seq(RecordType), h # <<>>, NEW e \in Entry,
           NEW ls \in 0 .. Len(h), Classified(e, h, ls),
           NEW r \in RecordType, IsShared(r)
    PROVE  Classified(AccumFile(e, r), Append(h, r), Len(h) + 1)
<1>. DEFINE h2 == Append(h, r)  e2 == AccumFile(e, r)  n == Len(h)
<1>1. n \in Nat /\ n >= 1 /\ Len(h2) = n + 1 /\ h2[n + 1] = r
      /\ \A k \in 1 .. n : h2[k] = h[k]
  OBVIOUS
<1>2. e2.type = e.type \cup {"SHARED"} /\ e2.procs = NProcs
  BY DEF AccumFile, IsShared
<1>3. ("SHARED" \in e2.type) <=> n + 1 # 0
  BY <1>1, <1>2
<1>4. ("UNIQUE" \in e2.type) <=>
          /\ ~IsShared(h2[1])
          /\ \A k \in 2 .. Len(h2) : IsShared(h2[k])
  <2>1. (\A k \in 2 .. Len(h2) : IsShared(h2[k])) <=>
            \A k \in 2 .. n : IsShared(h[k])
    BY <1>1
  <2>. QED
    BY <1>1, <1>2, <2>1 DEF Classified
<1>5. ("PARTSHARED" \in e2.type) <=> \E k \in 2 .. Len(h2) : ~IsShared(h2[k])
  <2>1. (\E k \in 2 .. Len(h2) : ~IsShared(h2[k])) <=>
            \E k \in 2 .. n : ~IsShared(h[k])
    BY <1>1
  <2>. QED
    BY <1>1, <1>2, <2>1 DEF Classified
<1>6. e2.procs = NProcs + Len(h2) - (n + 1)
  BY <1>1, <1>2, NProcsAssumption
<1>. QED
  BY <1>1, <1>3, <1>4, <1>5, <1>6 DEF Classified

(* *_accum_file on a further per-rank record: procs was already at least   *)
(* one, so the entry loses UNIQUE and gains PARTSHARED, and procs counts   *)
(* the new record.                                                         *)
LEMMA AccumFilePerRank ==
    ASSUME NEW h \in Seq(RecordType), h # <<>>, NEW e \in Entry,
           NEW ls \in 0 .. Len(h), Classified(e, h, ls),
           NEW r \in RecordType, ~IsShared(r)
    PROVE  Classified(AccumFile(e, r), Append(h, r), ls)
<1>. DEFINE h2 == Append(h, r)  e2 == AccumFile(e, r)  n == Len(h)
<1>1. n \in Nat /\ n >= 1 /\ Len(h2) = n + 1 /\ h2[n + 1] = r
      /\ \A k \in 1 .. n : h2[k] = h[k]
  OBVIOUS
<1>2. e.procs >= 1
  BY <1>1, NProcsAssumption DEF Classified
<1>3. e2.type = (e.type \ {"UNIQUE"}) \cup {"PARTSHARED"}
      /\ e2.procs = e.procs + 1
  BY <1>2 DEF AccumFile, IsShared, Entry
<1>4. ("SHARED" \in e2.type) <=> ls # 0
  BY <1>3 DEF Classified
<1>5. ~("UNIQUE" \in e2.type) /\ ~(\A k \in 2 .. Len(h2) : IsShared(h2[k]))
  BY <1>1, <1>3
<1>6. ("PARTSHARED" \in e2.type) /\ \E k \in 2 .. Len(h2) : ~IsShared(h2[k])
  BY <1>1, <1>3
<1>7. e2.procs = IF ls = 0 THEN Len(h2) ELSE NProcs + Len(h2) - ls
  BY <1>1, <1>3, NProcsAssumption DEF Classified
<1>. QED
  BY <1>4, <1>5, <1>6, <1>7 DEF Classified
(* The times compared for the slowest time are natural numbers. *)
LEMMA SlowestSetNat ==
    ASSUME NEW h \in Seq(RecordType), NEW ls \in 0 .. Len(h)
    PROVE  SlowestSet(h, ls) \subseteq Nat
<1>1. \A k \in 1 .. Len(h) : h[k] \in RecordType
  OBVIOUS
<1>2. \A k \in 1 .. Len(h) : h[k].slowest \in Nat /\ IoTime(h[k]) \in Nat
  <2>. SUFFICES ASSUME NEW k \in 1 .. Len(h)
                PROVE  h[k].slowest \in Nat /\ h[k].meta + h[k].rw \in Nat
    BY DEF IoTime
  <2>1. h[k].slowest \in Nat /\ h[k].meta \in Nat /\ h[k].rw \in Nat
    BY <1>1 DEF RecordType
  <2>. QED
    BY <2>1
<1>. QED
  BY <1>2 DEF SlowestSet

(* *_accum_file on the first record: the slowest time is the record's      *)
(* slowest-rank time if it is shared, its own I/O time otherwise.          *)
LEMMA SlowestFirst ==
    ASSUME NEW r \in RecordType
    PROVE  SlowestOK(AccumFile(EmptyEntry, r), <<r>>, IF IsShared(r) THEN 1 ELSE 0)
BY DEF AccumFile, EmptyEntry, SlowestOK, SlowestSet, IsShared, IoTime, MaxOf,
       RecordType

(* A shared record's slowest-rank time replaces whatever came before. *)
LEMMA SlowestShared ==
    ASSUME NEW h \in Seq(RecordType), NEW e \in Entry,
           NEW r \in RecordType, IsShared(r)
    PROVE  SlowestOK(AccumFile(e, r), Append(h, r), Len(h) + 1)
<1>1. SlowestSet(Append(h, r), Len(h) + 1) = {r.slowest}
  BY DEF SlowestSet
<1>2. AccumFile(e, r).slowest_io_total_time = r.slowest
  BY DEF AccumFile, IsShared
<1>3. r.slowest \in Nat
  BY DEF RecordType
<1>. QED
  BY <1>1, <1>2, <1>3 DEF SlowestOK

(* A per-rank record's I/O time is max'ed into the slowest time. *)
LEMMA SlowestPerRank ==
    ASSUME NEW h \in Seq(RecordType), NEW e \in Entry,
           NEW ls \in 0 .. Len(h), SlowestOK(e, h, ls),
           NEW r \in RecordType, ~IsShared(r)
    PROVE  SlowestOK(AccumFile(e, r), Append(h, r), ls)
<1>1. SlowestSet(Append(h, r), ls) = SlowestSet(h, ls) \cup {IoTime(r)}
  <2>. DEFINE h2 == Append(h, r)
  <2>1. /\ Len(h2) = Len(h) + 1 /\ h2[Len(h) + 1] = r
        /\ \A k \in 1 .. Len(h) : h2[k] = h[k]
    OBVIOUS
  <2>2. ls + 1 .. Len(h) + 1 = (ls + 1 .. Len(h)) \cup {Len(h) + 1}
    OBVIOUS
  <2>3. {IoTime(h2[k]) : k \in ls + 1 .. Len(h) + 1}
          = {IoTime(h[k]) : k \in ls + 1 .. Len(h)} \cup {IoTime(r)}
    BY <2>1, <2>2
  <2>4. ls # 0 => h2[ls] = h[ls]
    BY <2>1
  <2>. QED
    BY <2>1, <2>3, <2>4 DEF SlowestSet
<1>2. AccumFile(e, r).slowest_io_total_time =
          MaxOf(e.slowest_io_total_time, IoTime(r))
  BY DEF AccumFile, IsShared
<1>3. SlowestSet(h, ls) \subseteq Nat /\ IoTime(r) \in Nat
  <2>1. SlowestSet(h, ls) \subseteq Nat
    BY SlowestSetNat
  <2>2. r.meta \in Nat /\ r.rw \in Nat
    BY DEF RecordType
  <2>. QED
    BY <2>1, <2>2 DEF IoTime
<1>. QED
  BY <1>1, <1>2, <1>3 DEF SlowestOK, MaxOf

-----------------------------------------------------------------------------
(* Folding a record keeps every hash entry classified by its history. *)
LEMMA FoldClass ==
    ASSUME ClassInv, NEW r \in Recs, Fold(r)
    PROVE  /\ HasLastShared'
           /\ DOMAIN file_hash_table' = {i \in Ids : folded'[i] # <<>>}
           /\ \A i \in DOMAIN file_hash_table' :
                  EntryFaithful(file_hash_table'[i], folded'[i],
                             LastShared(folded'[i]))
<1>1. r \in RecordType /\ r.id \in Ids
  BY RecsAssumption DEF RecordType
<1>2. folded \in [Ids -> Seq(RecordType)]
  BY RecsAssumption DEF ClassInv, IInv, TypeOK
<1>. DEFINE h == folded[r.id]
            e == IF r.id \in DOMAIN file_hash_table THEN file_hash_table[r.id]
                 ELSE EmptyEntry
            e2 == AccumFile(e, r)
<1>3. h \in Seq(RecordType)
  BY <1>1, <1>2
<1>4. PICK ls \in 0 .. Len(h) : LastSharedIs(h, ls)
  BY <1>1 DEF ClassInv, HasLastShared
<1>5. LastShared(h) = ls
  BY <1>3, <1>4, LastSharedUnique
<1>. DEFINE ls2 == IF IsShared(r) THEN Len(h) + 1 ELSE ls
<1>6. /\ folded' = [folded EXCEPT ![r.id] = Append(h, r)]
      /\ folded'[r.id] = Append(h, r)
      /\ \A i \in Ids \ {r.id} : folded'[i] = folded[i]
  BY <1>1, <1>2 DEF Fold
<1>7. /\ DOMAIN file_hash_table' = DOMAIN file_hash_table \cup {r.id}
      /\ file_hash_table'[r.id] = e2
      /\ \A i \in DOMAIN file_hash_table \ {r.id} :
             file_hash_table'[i] = file_hash_table[i]
  BY DEF Fold
<1>8. LastSharedIs(Append(h, r), ls2) /\ ls2 \in 0 .. Len(Append(h, r))
  BY <1>1, <1>3, <1>4, LastSharedIsAppend DEF LastSharedIs
<1>9. LastShared(folded'[r.id]) = ls2
  <2>1. Append(h, r) \in Seq(RecordType) /\ ls2 \in Nat
    BY <1>1, <1>3, <1>8
  <2>2. LastShared(Append(h, r)) = ls2
    BY <2>1, <1>8, LastSharedUnique
  <2>. QED
    BY <2>2, <1>6
<1>10. HasLastShared'
  BY <1>4, <1>6, <1>8 DEF ClassInv, HasLastShared
<1>11. DOMAIN file_hash_table' = {i \in Ids : folded'[i] # <<>>}
  <2>1. folded'[r.id] # <<>>
    BY <1>3, <1>6
  <2>2. DOMAIN file_hash_table = {i \in Ids : folded[i] # <<>>}
    BY DEF ClassInv
  <2>. QED
    BY <1>1, <1>6, <1>7, <2>1, <2>2
<1>12. EntryFaithful(e2, Append(h, r), ls2)
  <2>1. CASE h = <<>>
    <3>1. r.id \notin DOMAIN file_hash_table /\ ls = 0
      BY <2>1, <1>1 DEF ClassInv
    <3>2. e = EmptyEntry /\ Append(h, r) = <<r>>
          /\ ls2 = IF IsShared(r) THEN 1 ELSE 0
      BY <2>1, <3>1
    <3>3. Classified(AccumFile(EmptyEntry, r), <<r>>,
                     IF IsShared(r) THEN 1 ELSE 0)
      BY <1>1, AccumFileFirst
    <3>4. SlowestOK(AccumFile(EmptyEntry, r), <<r>>,
                    IF IsShared(r) THEN 1 ELSE 0)
      BY <1>1, SlowestFirst
    <3>. QED
      BY <3>2, <3>3, <3>4 DEF EntryFaithful
  <2>2. CASE h # <<>>
    <3>1. r.id \in DOMAIN file_hash_table
      BY <2>2, <1>1 DEF ClassInv
    <3>2. e \in Entry /\ Classified(e, h, ls) /\ SlowestOK(e, h, ls)
      BY <3>1, <1>5 DEF ClassInv, IInv, TypeOK, EntryFaithful
    <3>3. CASE IsShared(r)
      BY <1>1, <1>3, <2>2, <3>2, <3>3, AccumFileShared, SlowestShared
         DEF EntryFaithful
    <3>4. CASE ~IsShared(r)
      BY <1>1, <1>3, <2>2, <3>2, <3>4, AccumFilePerRank, SlowestPerRank
         DEF EntryFaithful
    <3>. QED
      BY <3>3, <3>4
  <2>. QED
    BY <2>1, <2>2
<1>13. \A i \in DOMAIN file_hash_table' :
           EntryFaithful(file_hash_table'[i], folded'[i], LastShared(folded'[i]))
  <2>1. EntryFaithful(file_hash_table'[r.id], folded'[r.id],
                   LastShared(folded'[r.id]))
    BY <1>6, <1>7, <1>9, <1>12
  <2>2. ASSUME NEW i \in DOMAIN file_hash_table', i # r.id
        PROVE  EntryFaithful(file_hash_table'[i], folded'[i], LastShared(folded'[i]))
    <3>1. i \in DOMAIN file_hash_table /\ i \in Ids
      BY <2>2, <1>7 DEF ClassInv
    <3>. QED
      BY <3>1, <2>2, <1>6, <1>7 DEF ClassInv
  <2>. QED
    BY <2>1, <2>2
<1>. QED
  BY <1>10, <1>11, <1>13
-----------------------------------------------------------------------------
\* an empty hash with no history, as main starts and as a module reset leaves
LEMMA EmptyClassified ==
    ASSUME file_hash_table' = [i \in {} |-> EmptyEntry], folded' = NoHistory
    PROVE  /\ HasLastShared'
           /\ DOMAIN file_hash_table' = {i \in Ids : folded'[i] # <<>>}
           /\ \A i \in DOMAIN file_hash_table' :
                  EntryFaithful(file_hash_table'[i], folded'[i],
                             LastShared(folded'[i]))
BY LastSharedIsEmpty DEF HasLastShared, NoHistory

\* a step that leaves the hash and the history alone
LEMMA UnchangedClassified ==
    ASSUME ClassInv, UNCHANGED <<file_hash_table, folded>>
    PROVE  /\ HasLastShared'
           /\ DOMAIN file_hash_table' = {i \in Ids : folded'[i] # <<>>}
           /\ \A i \in DOMAIN file_hash_table' :
                  EntryFaithful(file_hash_table'[i], folded'[i],
                             LastShared(folded'[i]))
BY DEF ClassInv, HasLastShared

LEMMA InitClassInv == Init => ClassInv
<1>. SUFFICES ASSUME Init PROVE ClassInv
  OBVIOUS
<1>1. IInv
  BY InitIInv
<1>2. HasLastShared /\ DOMAIN file_hash_table = {i \in Ids : folded[i] # <<>>}
  BY LastSharedIsEmpty DEF Init, HasLastShared, NoHistory
<1>. QED
  BY <1>1, <1>2 DEF Init, ClassInv

LEMMA NextClassInv == ClassInv /\ [Next]_vars => ClassInv'
<1>. SUFFICES ASSUME ClassInv, [Next]_vars PROVE ClassInv'
  OBVIOUS
<1>1. IInv'
  BY NextIInv DEF ClassInv
<1>. DEFINE Rest == /\ HasLastShared
                    /\ DOMAIN file_hash_table = {i \in Ids : folded[i] # <<>>}
                    /\ \A i \in DOMAIN file_hash_table :
                           EntryFaithful(file_hash_table[i], folded[i],
                                      LastShared(folded[i]))
<1>. SUFFICES Rest'
  BY <1>1 DEF ClassInv
<1>2. CASE UNCHANGED <<file_hash_table, folded>>
  BY <1>2, UnchangedClassified
<1>3. CASE ReadRecord
  <2>1. PICK r \in Recs : IF Kind \in AggKinds THEN Fold(r) ELSE UNCHANGED accums
    BY <1>3 DEF ReadRecord
  <2>2. CASE Kind \in AggKinds
    BY <2>1, <2>2, FoldClass
  <2>3. CASE Kind \notin AggKinds
    BY <2>1, <2>3, UnchangedClassified DEF accums
  <2>. QED
    BY <2>2, <2>3
<1>4. CASE EndOfRecords /\ Reset
  BY <1>4, EmptyClassified DEF Reset
<1>5. CASE EndOfRecords /\ ~Reset
  BY <1>5, <1>2 DEF EndOfRecords, accums
<1>. QED
  BY <1>2, <1>3, <1>4, <1>5
     DEF Next, SkipModule, AbortIncomplete, EnterModule, HashAllocFail,
         DecodeError, Finish, Terminated, vars, accums

(* The SHARED, UNIQUE and PARTSHARED bits and the procs count that         *)
(* *_accum_file leaves in every hash entry agree with the order of the     *)
(* records folded into it since the last reset, for every number of        *)
(* processes and every record set (ClassificationFaithful, checked by      *)
(* parser_fold).                                                           *)
THEOREM ClassificationCorrect == Spec => []ClassificationFaithful
<1>1. ClassInv => ClassificationFaithful
  BY DEF ClassInv, EntryFaithful, Classified, ClassificationFaithful
<1>. QED
  BY <1>1, InitClassInv, NextClassInv, PTL DEF Spec

(* A file's slowest_io_total_time is the slowest-rank time of its last     *)
(* shared record raised by the per-rank I/O times folded after it: the     *)
(* assignment (not max) for a rank -1 record in *_accum_file discards the   *)
(* per-rank times folded before it (SlowestTimeFaithful, checked by         *)
(* parser_fold).                                                           *)
THEOREM SlowestTimeCorrect == Spec => []SlowestTimeFaithful
<1>1. ClassInv => SlowestTimeFaithful
  <2>. SUFFICES ASSUME ClassInv, NEW i \in DOMAIN file_hash_table
                PROVE  file_hash_table[i].slowest_io_total_time =
                           SetMax(SlowestSet(folded[i], LastShared(folded[i])))
    BY DEF SlowestTimeFaithful, SlowestSet
  <2>. DEFINE S == SlowestSet(folded[i], LastShared(folded[i]))
              v == file_hash_table[i].slowest_io_total_time
  <2>1. v \in S /\ \A y \in S : v >= y
    BY DEF ClassInv, EntryFaithful, SlowestOK
  <2>2. v \in Nat /\ S \subseteq Nat
    <3>1. i \in Ids /\ file_hash_table[i] \in Entry
      BY DEF ClassInv, IInv, TypeOK
    <3>2. v \in Nat
      BY <3>1 DEF Entry
    <3>3. folded[i] \in Seq(RecordType)
      BY <3>1, RecsAssumption DEF ClassInv, IInv, TypeOK
    <3>4. PICK ls \in 0 .. Len(folded[i]) : LastSharedIs(folded[i], ls)
      BY <3>1 DEF ClassInv, HasLastShared
    <3>5. LastShared(folded[i]) \in 0 .. Len(folded[i])
      BY <3>3, <3>4, LastSharedUnique
    <3>. QED
      BY <3>2, <3>3, <3>5, SlowestSetNat
  <2>. QED
    BY <2>1, <2>2, SetMaxIs
<1>. QED
  BY <1>1, InitClassInv, NextClassInv, PTL DEF Spec
=============================================================================
