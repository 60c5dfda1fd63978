------------------------- MODULE DarshanParserProofs -------------------------
(***************************************************************************)
(* Proofs about the darshan-parser model, for every number of processes,  *)
(* every module table, option mask and record set allowed by the          *)
(* assumptions of DarshanParser.                                           *)
(***************************************************************************)
EXTENDS DarshanParser, TLAPS

\* the record loop only runs for a slot of the module table
RecordsInTable == phase = "records" => mi \in 1 .. Len(ModTable)

IInv == TypeOK /\ RecordsInTable

-----------------------------------------------------------------------------
(* *_accum_file keeps a hash entry well-typed for every record of the log. *)
LEMMA AccumFileType ==
    ASSUME NEW h \in Entry, NEW r \in RecordType
    PROVE  AccumFile(h, r) \in Entry
<1>1. AggRecords(r, h.rec_dat) \in Dat
  BY DEF AggRecords, Dat, Entry, RecordType
<1>2. /\ h.procs + 1 \in Int
      /\ NProcs \in Int
      /\ h.cumul_io_total_time + IoTime(r) \in Nat
      /\ MaxOf(h.slowest_io_total_time, IoTime(r)) \in Nat
      /\ r.slowest \in Nat
  BY NProcsAssumption DEF Entry, RecordType, IoTime, MaxOf
<1>3. /\ h.type \cup {"SHARED"} \in SUBSET FileTypes
      /\ (h.type \ {"UNIQUE"}) \cup {"PARTSHARED"} \in SUBSET FileTypes
      /\ h.type \cup {"UNIQUE"} \in SUBSET FileTypes
  BY DEF Entry, FileTypes
<1>. QED
  BY <1>1, <1>2, <1>3 DEF AccumFile, Entry

(* *_accum_perf keeps pdata well-typed, out-of-bounds ranks included. *)
LEMMA AccumPerfType ==
    ASSUME NEW p \in PerfState, NEW r \in RecordType
    PROVE  AccumPerf(p, r) \in PerfState
<1>1. /\ r.bytes \in Nat /\ r.slowest \in Nat
      /\ r.meta \in Nat /\ r.rw \in Nat /\ IoTime(r) \in Nat
  BY DEF RecordType, IoTime
<1>2. CASE r.rank = -1
  <2>1. AccumPerf(p, r) =
          [total_bytes |-> p.total_bytes + r.bytes,
           shared_io_total_time_by_slowest |->
               p.shared_io_total_time_by_slowest + r.slowest,
           rank_cumul_io_total_time |-> p.rank_cumul_io_total_time,
           rank_cumul_md_only_time |-> p.rank_cumul_md_only_time,
           rank_cumul_rw_only_time |-> p.rank_cumul_rw_only_time]
    BY <1>2 DEF AccumPerf, PerfState
  <2>. QED
    BY <1>1, <2>1 DEF PerfState
<1>3. CASE r.rank # -1 /\ InBounds(r)
  <2>. DEFINE k == r.rank
              io == [p.rank_cumul_io_total_time EXCEPT ![k] = @ + IoTime(r)]
              md == [p.rank_cumul_md_only_time EXCEPT ![k] = @ + r.meta]
              rw == [p.rank_cumul_rw_only_time EXCEPT ![k] = @ + r.rw]
  <2>1. k \in RankIdx
    BY <1>3 DEF InBounds
  <2>2. io \in [RankIdx -> Nat] /\ md \in [RankIdx -> Nat] /\ rw \in [RankIdx -> Nat]
    BY <1>1, <2>1 DEF PerfState
  <2>3. AccumPerf(p, r) =
          [total_bytes |-> p.total_bytes + r.bytes,
           shared_io_total_time_by_slowest |-> p.shared_io_total_time_by_slowest,
           rank_cumul_io_total_time |-> io,
           rank_cumul_md_only_time |-> md,
           rank_cumul_rw_only_time |-> rw]
    BY <1>3 DEF AccumPerf, PerfState
  <2>. QED
    BY <1>1, <2>2, <2>3 DEF PerfState
<1>4. CASE r.rank # -1 /\ ~InBounds(r)
  <2>1. AccumPerf(p, r) =
          [total_bytes |-> p.total_bytes + r.bytes,
           shared_io_total_time_by_slowest |-> p.shared_io_total_time_by_slowest,
           rank_cumul_io_total_time |-> p.rank_cumul_io_total_time,
           rank_cumul_md_only_time |-> p.rank_cumul_md_only_time,
           rank_cumul_rw_only_time |-> p.rank_cumul_rw_only_time]
    BY <1>4 DEF AccumPerf, PerfState
  <2>. QED
    BY <1>1, <2>1 DEF PerfState
<1>. QED
  BY <1>2, <1>3, <1>4

-----------------------------------------------------------------------------
(* Folding a record of the log into the accumulators keeps them well-typed. *)
LEMMA FoldType ==
    ASSUME TypeOK, NEW r \in Recs, Fold(r)
    PROVE  /\ DOMAIN file_hash_table' \subseteq Ids
           /\ \A i \in DOMAIN file_hash_table' : file_hash_table'[i] \in Entry
           /\ total' \in Entry
           /\ pdata' \in PerfState
           /\ corrupt' \in BOOLEAN
           /\ folded' \in [Ids -> Seq(Recs)]
<1>1. r \in RecordType /\ r.id \in Ids
  BY RecsAssumption DEF RecordType
<1>. DEFINE h == IF r.id \in DOMAIN file_hash_table THEN file_hash_table[r.id]
                 ELSE EmptyEntry
<1>2. h \in Entry
  BY DEF TypeOK, EmptyEntry, Entry
<1>3. AccumFile(h, r) \in Entry /\ AccumFile(total, r) \in Entry
  BY <1>1, <1>2, AccumFileType DEF TypeOK
<1>4. DOMAIN file_hash_table' \subseteq Ids
      /\ \A i \in DOMAIN file_hash_table' : file_hash_table'[i] \in Entry
  BY <1>1, <1>3 DEF Fold, TypeOK
<1>5. pdata' \in PerfState
  BY <1>1, AccumPerfType DEF Fold, TypeOK
<1>6. folded' \in [Ids -> Seq(Recs)]
  BY <1>1 DEF Fold, TypeOK
<1>. QED
  BY <1>3, <1>4, <1>5, <1>6 DEF Fold, TypeOK

-----------------------------------------------------------------------------
(* The initial state of main satisfies the inductive invariant. *)
LEMMA InitIInv == Init => IInv
<1>. SUFFICES ASSUME Init PROVE IInv
  OBVIOUS
<1>1. Len(ModTable) \in Nat
  BY ModTableAssumption
<1>2. EmptyEntry \in Entry /\ ZeroPerf \in PerfState
  BY DEF EmptyEntry, Entry, ZeroPerf, PerfState
<1>3. NoHistory \in [Ids -> Seq(Recs)]
  BY DEF NoHistory
<1>4. DOMAIN [i \in {} |-> EmptyEntry] = {}
  OBVIOUS
<1>5. /\ mi \in 1 .. Len(ModTable) + 1
      /\ phase \in {"modstart", "records", "done", "failed", "crashed"}
      /\ nrec \in 0 .. MaxRecords
      /\ RecordsInTable
  BY <1>1, MaxRecordsAssumption DEF Init, RecordsInTable
<1>6. /\ DOMAIN file_hash_table \subseteq Ids
      /\ \A i \in DOMAIN file_hash_table : file_hash_table[i] \in Entry
  BY <1>4 DEF Init
<1>7. total \in Entry /\ pdata \in PerfState /\ corrupt \in BOOLEAN
      /\ folded \in [Ids -> Seq(Recs)]
  BY <1>2, <1>3 DEF Init
<1>. QED
  BY <1>5, <1>6, <1>7 DEF IInv, TypeOK

(* Every step of the module loop preserves the inductive invariant. *)
LEMMA NextIInv == IInv /\ [Next]_vars => IInv'
<1>. SUFFICES ASSUME IInv, [Next]_vars PROVE IInv'
  OBVIOUS
<1>. USE DEF IInv, TypeOK, RecordsInTable
<1>1. Len(ModTable) \in Nat /\ MaxRecords \in Nat
  BY ModTableAssumption, MaxRecordsAssumption
<1>2. CASE SkipModule
  BY <1>1, <1>2 DEF SkipModule, NextModule, accums
<1>3. CASE AbortIncomplete
  BY <1>3 DEF AbortIncomplete, accums
<1>4. CASE EnterModule
  BY <1>1, <1>4 DEF EnterModule, accums
<1>5. CASE ReadRecord
  <2>1. nrec' \in 0 .. MaxRecords
    BY <1>1, <1>5 DEF ReadRecord
  <2>2. PICK r \in Recs :
          IF Kind \in AggKinds THEN Fold(r) ELSE UNCHANGED accums
    BY <1>5 DEF ReadRecord
  <2>3. CASE Kind \in AggKinds
    BY <2>1, <2>2, <2>3, <1>5, FoldType DEF ReadRecord
  <2>4. CASE Kind \notin AggKinds
    BY <2>1, <2>2, <2>4, <1>5 DEF ReadRecord, accums
  <2>. QED
    BY <2>3, <2>4
<1>6. CASE HashAllocFail
  BY <1>1, <1>6 DEF HashAllocFail, accums
<1>7. CASE EndOfRecords
  <2>1. EmptyEntry \in Entry /\ ZeroPerf \in PerfState
    BY DEF EmptyEntry, Entry, ZeroPerf, PerfState
  <2>2. NoHistory \in [Ids -> Seq(Recs)] /\ DOMAIN [i \in {} |-> EmptyEntry] = {}
    BY DEF NoHistory
  <2>3. CASE Kind \notin AggKinds /\ NextModule /\ UNCHANGED accums
    BY <1>1, <1>7, <2>3 DEF EndOfRecords, NextModule, accums
  <2>4. CASE phase' = "crashed" /\ UNCHANGED <<mi, accums>>
    BY <1>7, <2>4 DEF EndOfRecords, accums
  <2>5. CASE Reset /\ NextModule
    BY <1>1, <1>7, <2>1, <2>2, <2>5 DEF EndOfRecords, NextModule, Reset
  <2>. QED
    BY <1>7, <2>3, <2>4, <2>5 DEF EndOfRecords
<1>8. CASE DecodeError
  BY <1>1, <1>8 DEF DecodeError, NextModule, accums
<1>9. CASE Finish
  BY <1>9 DEF Finish, accums
<1>10. CASE Terminated \/ UNCHANGED vars
  BY <1>10 DEF Terminated, vars
<1>. QED
  BY <1>2, <1>3, <1>4, <1>5, <1>6, <1>7, <1>8, <1>9, <1>10 DEF Next

(* Type correctness of the parser state (TypeOK, checked by parser_fold and parser_modules) holds in every reachable state, for all constants. *)
THEOREM TypeCorrect == Spec => []TypeOK
<1>1. Spec => []IInv
  BY InitIInv, NextIInv, PTL DEF Spec
<1>. QED
  BY <1>1, PTL DEF IInv
=============================================================================
