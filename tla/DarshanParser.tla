---------------------------- MODULE DarshanParser ----------------------------
(***************************************************************************)
(* The module loop and the aggregation engine of darshan-parser            *)
(* (src/darshan-util/darshan-parser.c, main and the *_accum_file,          *)
(* *_accum_perf, *_calc_file and calc_perf helpers).                       *)
(*                                                                         *)
(* The parser walks the module table of one log.  For each module it       *)
(* decides from the header (region length, partial flag, module kind and   *)
(* the option mask) whether to skip it, abort, or read its records.  For   *)
(* POSIX, MPI-IO and STDIO every record is folded into a per-file hash     *)
(* entry, into the module-wide "total" entry and into the performance      *)
(* accumulator; at the end of the module the file tally and the derived    *)
(* performance are computed and the accumulators are reset.  The three     *)
(* module-specific copies of each helper are identical up to counter       *)
(* names and are modelled once.                                            *)
(*                                                                         *)
(* Data is abstracted: a record carries its id, rank, metadata time, the   *)
(* read+write time, the slowest-rank time (meaningful for rank -1), the    *)
(* read and write operation counts and the bytes moved.  Times are small   *)
(* naturals (double rounding is not modelled).                             *)
(***************************************************************************)
EXTENDS Integers, Sequences, FiniteSets, Functions

CONSTANTS
    NProcs,         \* job.nprocs
    Ids,            \* record ids (path hashes) that may occur in the log
    Recs,           \* the records a module stream may deliver
    ModTable,       \* kind of each module slot of the log, in id order
    Mask,           \* the option mask built by parse_args
    MaxRecords,     \* bound on the records read from one module stream
    CanFailDecode,  \* whether log_get_record may return -1
    CanFailAlloc,   \* whether the malloc of a hash entry may fail
    NULL            \* the NULL rec_dat pointer

Kinds == {"POSIX", "MPIIO", "STDIO", "OTHER", "NOUTIL", "DXT", "UNKNOWN"}
\* modules that get per-file and performance aggregation
AggKinds == {"POSIX", "MPIIO", "STDIO"}
Options == {"BASE", "TOTAL", "PERF", "FILE", "SHOW_INCOMPLETE"}
FileTypes == {"SHARED", "UNIQUE", "PARTSHARED"}
RankIdx == 0 .. NProcs - 1

RecordType ==
    [id: Ids, rank: Int, meta: Nat, rw: Nat, slowest: Nat,
     reads: Nat, writes: Nat, bytes: Nat]

ASSUME NProcsAssumption == NProcs \in Nat \ {0}
ASSUME RecsAssumption == Recs \subseteq RecordType
ASSUME ModTableAssumption == ModTable \in Seq(Kinds)
ASSUME MaskAssumption == Mask \subseteq Options
ASSUME MaxRecordsAssumption == MaxRecords \in Nat
ASSUME CanFailDecodeAssumption == CanFailDecode \in BOOLEAN
ASSUME CanFailAllocAssumption == CanFailAlloc \in BOOLEAN
ASSUME NullAssumption == NULL \notin [reads: Nat, writes: Nat, bytes: Nat]

VARIABLES
    mi,              \* loop index i over the module table
    phase,           \* where main is: "modstart", "records", "done",
                     \* "failed" (returned -1), "crashed" (segfault)
    nrec,            \* records read from the current module stream
    file_hash_table, \* per-file hash entries, keyed by record id
    total,           \* the module-wide "total" hash entry
    pdata,           \* perf_data_t accumulators
    corrupt,         \* an out-of-bounds write hit the per-rank vectors
    folded           \* history: records folded per id since the last reset

vars == <<mi, phase, nrec, file_hash_table, total, pdata, corrupt, folded>>
accums == <<file_hash_table, total, pdata, corrupt, folded>>

Dat == [reads: Nat, writes: Nat, bytes: Nat]
Entry == [type: SUBSET FileTypes, procs: Int, cumul_io_total_time: Nat,
          slowest_io_total_time: Nat, rec_dat: Dat \cup {NULL}]
PerfState == [total_bytes: Nat, shared_io_total_time_by_slowest: Nat,
              rank_cumul_io_total_time: [RankIdx -> Nat],
              rank_cumul_md_only_time: [RankIdx -> Nat],
              rank_cumul_rw_only_time: [RankIdx -> Nat]]

\* a freshly malloc'd and memset hash entry
EmptyEntry == [type |-> {}, procs |-> 0, cumul_io_total_time |-> 0,
               slowest_io_total_time |-> 0, rec_dat |-> NULL]

\* pdata after memset, with the per-rank vectors zeroed in place
ZeroPerf == [total_bytes |-> 0, shared_io_total_time_by_slowest |-> 0,
             rank_cumul_io_total_time |-> [r \in RankIdx |-> 0],
             rank_cumul_md_only_time |-> [r \in RankIdx |-> 0],
             rank_cumul_rw_only_time |-> [r \in RankIdx |-> 0]]

NoHistory == [i \in Ids |-> <<>>]

\* the max() macro
MaxOf(a, b) == IF a > b THEN a ELSE b

\* meta + read + write time of a record
IoTime(r) == r.meta + r.rw

(***************************************************************************)
(* log_agg_records(rec, agg, first): the module's pairwise aggregator      *)
(* (not under src/; modelled from the spec): the operation and byte        *)
(* counters are summed, the first call starting from the zeroed record.    *)
(***************************************************************************)
AggRecords(r, d) ==
    LET base == IF d = NULL THEN [reads |-> 0, writes |-> 0, bytes |-> 0]
                ELSE d
    IN  [reads |-> base.reads + r.reads, writes |-> base.writes + r.writes,
         bytes |-> base.bytes + r.bytes]

\* seeded fault: UNIQUE not cleared when a second rank shows up
AccumFileKeepUnique(h, r) ==
    LET procs == h.procs + 1
    IN  [type |-> IF r.rank = -1 THEN h.type \cup {"SHARED"}
                  ELSE IF procs > 1 THEN h.type \cup {"PARTSHARED"}
                  ELSE h.type \cup {"UNIQUE"},
         procs |-> IF r.rank = -1 THEN NProcs ELSE procs,
         slowest_io_total_time |->
             IF r.rank = -1 THEN r.slowest
             ELSE MaxOf(h.slowest_io_total_time, IoTime(r)),
         cumul_io_total_time |-> h.cumul_io_total_time + IoTime(r),
         rec_dat |-> AggRecords(r, h.rec_dat)]

\* seeded fault: the shared slowest-rank time max'ed in, not assigned
AccumFileMaxShared(h, r) ==
    LET procs == h.procs + 1
    IN  [type |-> IF r.rank = -1 THEN h.type \cup {"SHARED"}
                  ELSE IF procs > 1
                       THEN (h.type \ {"UNIQUE"}) \cup {"PARTSHARED"}
                       ELSE h.type \cup {"UNIQUE"},
         procs |-> IF r.rank = -1 THEN NProcs ELSE procs,
         slowest_io_total_time |->
             MaxOf(h.slowest_io_total_time,
                   IF r.rank = -1 THEN r.slowest ELSE IoTime(r)),
         cumul_io_total_time |-> h.cumul_io_total_time + IoTime(r),
         rec_dat |-> AggRecords(r, h.rec_dat)]

\* posix_accum_file / mpiio_accum_file / stdio_accum_file
AccumFile(h, r) ==
    LET procs == h.procs + 1
    IN  [type |-> IF r.rank = -1 THEN h.type \cup {"SHARED"}
                  ELSE IF procs > 1
                       THEN (h.type \ {"UNIQUE"}) \cup {"PARTSHARED"}
                       ELSE h.type \cup {"UNIQUE"},
         procs |-> IF r.rank = -1 THEN NProcs ELSE procs,
         slowest_io_total_time |->
             IF r.rank = -1 THEN r.slowest
             ELSE MaxOf(h.slowest_io_total_time, IoTime(r)),
         cumul_io_total_time |-> h.cumul_io_total_time + IoTime(r),
         rec_dat |-> AggRecords(r, h.rec_dat)]

\* the rank index of a per-rank record lies inside the malloc'd vectors
InBounds(r) == r.rank \in RankIdx

\* seeded fault: the per-rank I/O time forgets the metadata time
AccumPerfNoMeta(p, r) ==
    IF r.rank = -1
    THEN [p EXCEPT !.total_bytes = @ + r.bytes,
                   !.shared_io_total_time_by_slowest = @ + r.slowest]
    ELSE IF InBounds(r)
    THEN [p EXCEPT !.total_bytes = @ + r.bytes,
                   !.rank_cumul_io_total_time[r.rank] = @ + r.rw,
                   !.rank_cumul_md_only_time[r.rank] = @ + r.meta,
                   !.rank_cumul_rw_only_time[r.rank] = @ + r.rw]
    ELSE [p EXCEPT !.total_bytes = @ + r.bytes]

\* posix_accum_perf / mpiio_accum_perf / stdio_accum_perf
AccumPerf(p, r) ==
    IF r.rank = -1
    THEN [p EXCEPT !.total_bytes = @ + r.bytes,
                   !.shared_io_total_time_by_slowest = @ + r.slowest]
    ELSE IF InBounds(r)
    THEN [p EXCEPT !.total_bytes = @ + r.bytes,
                   !.rank_cumul_io_total_time[r.rank] = @ + IoTime(r),
                   !.rank_cumul_md_only_time[r.rank] = @ + r.meta,
                   !.rank_cumul_rw_only_time[r.rank] = @ + r.rw]
    ELSE [p EXCEPT !.total_bytes = @ + r.bytes]

(***************************************************************************)
(* The file tally of *_calc_file: one pass over the hash, each entry       *)
(* counted in total, in one of read_only / write_only / read_write by its  *)
(* aggregated counters, and in shared and/or unique by its type bits.      *)
(***************************************************************************)
SetMax(S) == CHOOSE x \in S : \A y \in S : x >= y

Tally(H, S) ==
    LET bytes == [i \in S |-> H[i].rec_dat.bytes]
    IN  [count |-> Cardinality(S), size |-> SumFunction(bytes),
         max |-> SetMax({0} \cup Range(bytes))]

\* seeded fault: the shared tally tests SHARED only
CalcFileNoPartShared(H) ==
    LET D == DOMAIN H
        r(i) == H[i].rec_dat.reads
        w(i) == H[i].rec_dat.writes
    IN  [total      |-> Tally(H, D),
         read_only  |-> Tally(H, {i \in D : r(i) # 0 /\ w(i) = 0}),
         write_only |-> Tally(H, {i \in D : r(i) = 0 /\ w(i) # 0}),
         read_write |-> Tally(H, {i \in D : r(i) # 0 /\ w(i) # 0}),
         unique     |-> Tally(H, {i \in D : "UNIQUE" \in H[i].type}),
         shared     |-> Tally(H, {i \in D : "SHARED" \in H[i].type})]

CalcFile(H) ==
    LET D == DOMAIN H
        r(i) == H[i].rec_dat.reads
        w(i) == H[i].rec_dat.writes
    IN  [total      |-> Tally(H, D),
         read_only  |-> Tally(H, {i \in D : r(i) # 0 /\ w(i) = 0}),
         write_only |-> Tally(H, {i \in D : r(i) = 0 /\ w(i) # 0}),
         read_write |-> Tally(H, {i \in D : r(i) # 0 /\ w(i) # 0}),
         unique     |-> Tally(H, {i \in D : "UNIQUE" \in H[i].type}),
         shared     |-> Tally(H, {i \in D : H[i].type \cap
                                          {"SHARED", "PARTSHARED"} # {}})]

(***************************************************************************)
(* calc_perf: the scan over ranks keeps the first rank whose cumulative    *)
(* I/O time is strictly larger than the best so far; the aggregate         *)
(* bandwidth is a quotient (bytes, seconds), left at 0 when the time sum   *)
(* is zero.                                                                *)
(***************************************************************************)
\* seeded fault: `>=` in the scan, so the last of tied ranks wins
CalcPerfLastTie(p) ==
    LET io == p.rank_cumul_io_total_time
        scan[i \in 0 .. NProcs] ==
            IF i = 0 THEN [io |-> 0, md |-> 0, rw |-> 0, rank |-> 0]
            ELSE IF io[i - 1] >= scan[i - 1].io
                 THEN [io |-> io[i - 1],
                       md |-> p.rank_cumul_md_only_time[i - 1],
                       rw |-> p.rank_cumul_rw_only_time[i - 1],
                       rank |-> i - 1]
                 ELSE scan[i - 1]
        s == scan[NProcs]
        agg == s.io + p.shared_io_total_time_by_slowest
    IN  [slowest_rank_io_total_time |-> s.io,
         slowest_rank_meta_only_time |-> s.md,
         slowest_rank_rw_only_time |-> s.rw,
         slowest_rank_rank |-> s.rank,
         agg_time_by_slowest |-> agg,
         agg_perf_by_slowest |->
             IF agg # 0 THEN [bytes |-> p.total_bytes, secs |-> agg]
             ELSE [bytes |-> 0, secs |-> 1]]

CalcPerf(p) ==
    LET io == p.rank_cumul_io_total_time
        scan[i \in 0 .. NProcs] ==
            IF i = 0 THEN [io |-> 0, md |-> 0, rw |-> 0, rank |-> 0]
            ELSE IF io[i - 1] > scan[i - 1].io
                 THEN [io |-> io[i - 1],
                       md |-> p.rank_cumul_md_only_time[i - 1],
                       rw |-> p.rank_cumul_rw_only_time[i - 1],
                       rank |-> i - 1]
                 ELSE scan[i - 1]
        s == scan[NProcs]
        agg == s.io + p.shared_io_total_time_by_slowest
    IN  [slowest_rank_io_total_time |-> s.io,
         slowest_rank_meta_only_time |-> s.md,
         slowest_rank_rw_only_time |-> s.rw,
         slowest_rank_rank |-> s.rank,
         agg_time_by_slowest |-> agg,
         agg_perf_by_slowest |->
             IF agg # 0 THEN [bytes |-> p.total_bytes, secs |-> agg]
             ELSE [bytes |-> 0, secs |-> 1]]

-----------------------------------------------------------------------------
Kind == ModTable[mi]

Init ==
    /\ mi = 1
    /\ phase = "modstart"
    /\ nrec = 0
    /\ file_hash_table = [i \in {} |-> EmptyEntry]
    /\ total = EmptyEntry
    /\ pdata = ZeroPerf
    /\ corrupt = FALSE
    /\ folded = NoHistory

NextModule == mi' = mi + 1 /\ phase' = "modstart"

\* the header tests that make the loop `continue` before any output
Skipped(empty, partial) ==
    \/ empty /\ ~partial
    \/ /\ ~empty
       /\ \/ Kind \in {"UNKNOWN", "NOUTIL", "DXT"}
          \/ Kind \notin AggKinds /\ "BASE" \notin Mask

\* a module that is skipped from its header alone
SkipModule ==
    /\ phase = "modstart" /\ mi \in 1 .. Len(ModTable)
    /\ \E empty, partial \in BOOLEAN :
          \/ Skipped(empty, partial)
          \/ /\ ~Skipped(empty, partial)
             /\ partial /\ empty /\ "SHOW_INCOMPLETE" \in Mask
    /\ NextModule
    /\ UNCHANGED <<nrec, accums>>

\* a partial module without --show-incomplete: main returns -1
AbortIncomplete ==
    /\ phase = "modstart" /\ mi \in 1 .. Len(ModTable)
    /\ \E empty \in BOOLEAN : ~Skipped(empty, TRUE)
    /\ "SHOW_INCOMPLETE" \notin Mask
    /\ phase' = "failed"
    /\ UNCHANGED <<mi, nrec, accums>>

\* the module has data to be parsed: start its record loop
EnterModule ==
    /\ phase = "modstart" /\ mi \in 1 .. Len(ModTable)
    /\ \E partial \in BOOLEAN :
          /\ ~Skipped(FALSE, partial)
          /\ partial => "SHOW_INCOMPLETE" \in Mask
    /\ phase' = "records"
    /\ nrec' = 0
    /\ UNCHANGED <<mi, accums>>

\* fold one record into its hash entry, the total entry and pdata
Fold(r) ==
    LET h == IF r.id \in DOMAIN file_hash_table THEN file_hash_table[r.id]
             ELSE EmptyEntry
    IN  /\ file_hash_table' =
             [i \in DOMAIN file_hash_table \cup {r.id} |->
                 IF i = r.id THEN AccumFile(h, r) ELSE file_hash_table[i]]
        /\ total' = AccumFile(total, r)
        /\ pdata' = AccumPerf(pdata, r)
        /\ corrupt' = (corrupt \/ (r.rank # -1 /\ ~InBounds(r)))
        /\ folded' = [folded EXCEPT ![r.id] = Append(@, r)]

\* seeded fault: the read loop has no bound
ReadRecordUnbounded ==
    /\ phase = "records"
    /\ nrec' = nrec + 1
    /\ \E r \in Recs :
          IF Kind \in AggKinds THEN Fold(r) ELSE UNCHANGED accums
    /\ UNCHANGED <<mi, phase>>

\* log_get_record returned a record (ret = 1)
ReadRecord ==
    /\ phase = "records" /\ nrec < MaxRecords
    /\ nrec' = nrec + 1
    /\ \E r \in Recs :
          IF Kind \in AggKinds THEN Fold(r) ELSE UNCHANGED accums
    /\ UNCHANGED <<mi, phase>>

\* seeded fault: the hash table is not freed
ResetKeepHash ==
    /\ UNCHANGED file_hash_table
    /\ total' = EmptyEntry
    /\ pdata' = ZeroPerf
    /\ folded' = NoHistory
    /\ UNCHANGED corrupt

\* seeded fault: the saved per-rank vectors are not zeroed
ResetKeepVectors ==
    /\ file_hash_table' = [i \in {} |-> EmptyEntry]
    /\ total' = EmptyEntry
    /\ pdata' = [ZeroPerf EXCEPT
                   !.rank_cumul_io_total_time = pdata.rank_cumul_io_total_time,
                   !.rank_cumul_md_only_time = pdata.rank_cumul_md_only_time,
                   !.rank_cumul_rw_only_time = pdata.rank_cumul_rw_only_time]
    /\ folded' = NoHistory
    /\ UNCHANGED corrupt

(***************************************************************************)
(* The malloc of a new hash entry fails: `ret = -1; goto cleanup;`, and   *)
(* main returns -1 with the module half folded.                           *)
(***************************************************************************)
HashAllocFail ==
    /\ CanFailAlloc
    /\ phase = "records" /\ nrec < MaxRecords /\ Kind \in AggKinds
    /\ \E r \in Recs : r.id \notin DOMAIN file_hash_table
    /\ nrec' = nrec + 1
    /\ phase' = "failed"
    /\ UNCHANGED <<mi, accums>>

\* reset of the accumulators between modules, keeping pdata's vectors
Reset ==
    /\ file_hash_table' = [i \in {} |-> EmptyEntry]
    /\ total' = EmptyEntry
    /\ pdata' = ZeroPerf
    /\ folded' = NoHistory
    /\ UNCHANGED corrupt

(***************************************************************************)
(* End of stream (ret = 0).  A print-only module moves on.  An aggregated  *)
(* module prints its totals (total.rec_dat is dereferenced), its file      *)
(* tally and its performance, then resets and moves on.                    *)
(***************************************************************************)
EndOfRecords ==
    /\ phase = "records"
    /\ \/ /\ Kind \notin AggKinds
          /\ NextModule
          /\ UNCHANGED accums
       \/ /\ Kind \in AggKinds
          /\ "TOTAL" \in Mask /\ total.rec_dat = NULL
          /\ phase' = "crashed"
          /\ UNCHANGED <<mi, accums>>
       \/ /\ Kind \in AggKinds
          /\ "TOTAL" \in Mask => total.rec_dat # NULL
          /\ Reset
          /\ NextModule
    /\ UNCHANGED nrec

\* log_get_record failed (ret = -1): `continue` to the next module
DecodeError ==
    /\ CanFailDecode
    /\ phase = "records"
    /\ NextModule
    /\ UNCHANGED <<nrec, accums>>

\* the loop over the module table is over
Finish ==
    /\ phase = "modstart" /\ mi > Len(ModTable)
    /\ phase' = "done"
    /\ UNCHANGED <<mi, nrec, accums>>

\* main has returned
Terminated ==
    /\ phase \in {"done", "failed", "crashed"}
    /\ UNCHANGED vars

Next ==
    \/ SkipModule \/ AbortIncomplete \/ EnterModule
    \/ ReadRecord \/ HashAllocFail \/ EndOfRecords \/ DecodeError
    \/ Finish \/ Terminated

Spec == Init /\ [][Next]_vars

-----------------------------------------------------------------------------
(* Type correctness of the parser state. *)
TypeOK ==
    /\ mi \in 1 .. Len(ModTable) + 1
    /\ phase \in {"modstart", "records", "done", "failed", "crashed"}
    /\ nrec \in 0 .. MaxRecords
    /\ DOMAIN file_hash_table \subseteq Ids
    /\ \A i \in DOMAIN file_hash_table : file_hash_table[i] \in Entry
    /\ total \in Entry
    /\ pdata \in PerfState
    /\ corrupt \in BOOLEAN
    /\ folded \in [Ids -> Seq(Recs)]

-----------------------------------------------------------------------------
(***************************************************************************)
(* Helpers for the properties: the history of an id, where its last       *)
(* shared (rank -1) record is, and sums over ranks, files and records.     *)
(***************************************************************************)
IsShared(r) == r.rank = -1
LastShared(h) == SetMax({0} \cup {k \in 1 .. Len(h) : IsShared(h[k])})
SumRanks(v) == SumFunction(v)
SumFiles(f(_)) == SumFunction([i \in DOMAIN file_hash_table |-> f(i)])
SumHistory(P(_), f(_)) ==
    SumFunction([i \in Ids |->
        SumFunction([k \in {k \in 1 .. Len(folded[i]) : P(folded[i][k])} |->
                        f(folded[i][k])])])

(***************************************************************************)
(* The classification of a file by *_accum_file follows from the order of  *)
(* its records: SHARED iff a rank -1 record was folded; UNIQUE iff the     *)
(* first record is per-rank and no other per-rank record followed;         *)
(* PARTSHARED iff some per-rank record other than the first was folded.    *)
(* procs counts the records, or nprocs plus the per-rank records after the *)
(* last shared one.  An entry exists exactly for the ids with history.     *)
(***************************************************************************)
ClassificationFaithful ==
    /\ DOMAIN file_hash_table = {i \in Ids : folded[i] # <<>>}
    /\ \A i \in DOMAIN file_hash_table :
        LET h == folded[i]
            e == file_hash_table[i]
            ls == LastShared(h)
        IN  /\ ("SHARED" \in e.type) <=> ls # 0
            /\ ("UNIQUE" \in e.type) <=>
                  /\ ~IsShared(h[1])
                  /\ \A k \in 2 .. Len(h) : IsShared(h[k])
            /\ ("PARTSHARED" \in e.type) <=>
                  \E k \in 2 .. Len(h) : ~IsShared(h[k])
            /\ e.procs = IF ls = 0 THEN Len(h) ELSE NProcs + Len(h) - ls

(***************************************************************************)
(* A file's slowest_io_total_time is the authoritative slowest-rank time   *)
(* of its last shared record, raised by the per-rank records folded after  *)
(* it; with no shared record, the largest per-rank I/O time.               *)
(***************************************************************************)
SlowestTimeFaithful ==
    \A i \in DOMAIN file_hash_table :
        LET h == folded[i]
            ls == LastShared(h)
        IN  file_hash_table[i].slowest_io_total_time =
              SetMax({IF ls = 0 THEN 0 ELSE h[ls].slowest}
                     \cup {IoTime(h[k]) : k \in ls + 1 .. Len(h)})

(***************************************************************************)
(* Conservation between the per-file hash, the total entry and pdata as   *)
(* the code really accumulates them: cumulative time agrees between the   *)
(* hash and the total entry; the per-rank vectors hold exactly            *)
(* the time of the per-rank records; the shared time is the sum of the     *)
(* slowest-rank times of the shared records.  Holds while no malformed     *)
(* rank has been written out of bounds.                                    *)
(***************************************************************************)
PerfConservation ==
    ~corrupt =>
    LET io == pdata.rank_cumul_io_total_time
    IN  /\ total.cumul_io_total_time =
               SumFiles(LAMBDA i : file_hash_table[i].cumul_io_total_time)
        /\ SumRanks(io) = SumHistory(LAMBDA r : ~IsShared(r), IoTime)
        /\ SumRanks(io) = SumRanks(pdata.rank_cumul_md_only_time)
                          + SumRanks(pdata.rank_cumul_rw_only_time)
        /\ pdata.shared_io_total_time_by_slowest =
               SumHistory(IsShared, LAMBDA r : r.slowest)

(***************************************************************************)
(* calc_perf reports the largest per-rank cumulative I/O time, the lowest  *)
(* rank that reaches it (rank 0 when every rank is idle), that rank's      *)
(* metadata and read/write times, and a bandwidth quotient whose divisor   *)
(* is never zero.                                                          *)
(***************************************************************************)
CalcPerfFindsSlowest ==
    LET c == CalcPerf(pdata)
        io == pdata.rank_cumul_io_total_time
        top == SetMax({io[r] : r \in RankIdx})
    IN  /\ c.slowest_rank_io_total_time = top
        /\ c.slowest_rank_rank =
              IF top = 0 THEN 0
              ELSE CHOOSE r \in RankIdx : io[r] = top /\ \A q \in 0 .. r - 1 : io[q] < top
        /\ c.slowest_rank_meta_only_time = pdata.rank_cumul_md_only_time[c.slowest_rank_rank]
        /\ c.slowest_rank_rw_only_time = pdata.rank_cumul_rw_only_time[c.slowest_rank_rank]
        /\ c.agg_time_by_slowest = top + pdata.shared_io_total_time_by_slowest
        /\ c.agg_perf_by_slowest.secs # 0

(***************************************************************************)
(* The file tally of *_calc_file agrees with the performance block: the    *)
(* bytes tallied over all files equal pdata's total_bytes, and every file  *)
(* is counted as unique or as shared (its type is never empty).            *)
(***************************************************************************)
FileTallyConsistent ==
    LET t == CalcFile(file_hash_table)
    IN  /\ t.total.size = pdata.total_bytes
        /\ t.unique.count + t.shared.count >= t.total.count

-----------------------------------------------------------------------------
(* Spec 4.4 and 7: a record with rank outside [0, nprocs) is refused, never written out of bounds. *)
RankIndexValid == ~corrupt

(***************************************************************************)
(* Spec 3 and 7: every module's aggregation starts from empty state: when  *)
(* a record loop begins, the hash, the total entry and pdata are reset.    *)
(***************************************************************************)
ModuleIsolation ==
    (phase = "records" /\ nrec = 0) =>
        /\ DOMAIN file_hash_table = {}
        /\ total = EmptyEntry
        /\ pdata = ZeroPerf

(* Spec 7: failures are result values; the parser never dereferences NULL. *)
NoCrash == phase # "crashed"

=============================================================================
