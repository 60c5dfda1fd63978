----------------------------- MODULE DxtBuffers -----------------------------
(***************************************************************************)
(* The DXT trace buffer manager (src/darshan-runtime/lib/darshan-dxt.c).  *)
(*                                                                         *)
(* Two managers, DXT-POSIX and DXT-MPIIO, each keep a hash of file records *)
(* with a write and a read segment buffer.  Both draw on one global byte   *)
(* budget dxt_mem_remaining, touched only under dxt_runtime_mutex.  Each   *)
(* manager is driven by its own instrumentation module, which serialises   *)
(* the calls into it; calls into the two managers interleave.  A trace     *)
(* call has two critical sections: the one in *_track_new_file_record      *)
(* (first call on an id) and the one in check_{wr,rd}_trace_buf.  The     *)
(* steps between them touch only the manager's own state, so each action   *)
(* below runs up to and including one critical section.                   *)
(*                                                                         *)
(* Segments are abstracted to their number; sizes are in abstract bytes.   *)
(***************************************************************************)
EXTENDS Integers, FiniteSets, Functions

CONSTANTS
    Ids,          \* record ids traced by the application
    MemMax,       \* DXT_IO_TRACE_MEM_MAX
    RecSize,      \* sizeof(struct dxt_file_record)
    SegSize,      \* sizeof(segment_info)
    InitBuf,      \* IO_TRACE_BUF_SIZE, the first buffer size in segments
    MaxCalls,     \* bound on the trace calls made into each manager
    SizeWrap,     \* SIZE_MAX + 1: an int converted to size_t wraps by it
    AllocCanFail  \* whether malloc/realloc may return NULL

ASSUME IdsAssumption == Ids # {}
ASSUME MemMaxAssumption == MemMax \in Nat
ASSUME RecSizeAssumption == RecSize \in Nat \ {0}
ASSUME SegSizeAssumption == SegSize \in Nat \ {0}
ASSUME InitBufAssumption == InitBuf \in Nat \ {0}
ASSUME MaxCallsAssumption == MaxCalls \in Nat
ASSUME SizeWrapAssumption == SizeWrap \in Nat /\ SizeWrap > MemMax
ASSUME AllocCanFailAssumption == AllocCanFail \in BOOLEAN

Mods == {"POSIX", "MPIIO"}
Dirs == {"write", "read"}

VARIABLES
    dxt_mem_remaining,        \* the global budget, an int
    instrumentation_disabled, \* set by either shutdown
    runtime,                  \* dxt_{posix,mpiio}_runtime is non-NULL
    recs,                     \* per manager: id -> counts and buffer sizes
    pc,                       \* per manager: "idle" or "append" (in a call)
    arg,                      \* per manager: id and direction of the call
    calls,                    \* per manager: trace calls made so far
    buf_sz,                   \* per manager: serialized buffer size
    buf,                      \* per manager: the serialized records
    crashed,                  \* a NULL or dangling pointer was dereferenced
    freed                     \* bytes of the records freed at shutdown

vars == <<dxt_mem_remaining, instrumentation_disabled, runtime, recs, pc,
          arg, calls, buf_sz, buf, crashed, freed>>

FileRec == [count: [Dirs -> Nat], avail: [Dirs -> Nat]]
NewRec == [count |-> [d \in Dirs |-> 0], avail |-> [d \in Dirs |-> 0]]
NoRecs == [i \in {} |-> NewRec]

\* an int compared with or divided by a size_t is converted to size_t
ToSizeT(x) == IF x < 0 THEN x + SizeWrap ELSE x

\* bytes a live record holds: the record and both segment buffers
RecBytes(r) == RecSize + (r.avail["write"] + r.avail["read"]) * SegSize
HeldBy(m) == SumFunction([i \in DOMAIN recs[m] |-> RecBytes(recs[m][i])])

(***************************************************************************)
(* The increment check_{wr,rd}_trace_buf computes under the lock for a     *)
(* buffer of a segments: InitBuf for an empty buffer, else a doubling,     *)
(* clamped to the segments the remaining budget can hold.                  *)
(***************************************************************************)
GrowByUnclamped(a, rem) == IF a = 0 THEN InitBuf ELSE a

GrowBy(a, rem) ==
    LET want == IF a = 0 THEN InitBuf ELSE a
    IN  IF want * SegSize > ToSizeT(rem) THEN ToSizeT(rem) \div SegSize
        ELSE want

\* seeded fault: the layout of the comment, an ost_ids block per record
SerialSizeWithOstIds(r) ==
    2 * RecSize + (r.count["write"] + r.count["read"]) * SegSize

\* the serialized size of one record in dxt_*_shutdown
SerialSize(r) == RecSize + (r.count["write"] + r.count["read"]) * SegSize

Init ==
    /\ dxt_mem_remaining = MemMax
    /\ instrumentation_disabled = FALSE
    /\ runtime = [m \in Mods |-> FALSE]
    /\ recs = [m \in Mods |-> NoRecs]
    /\ pc = [m \in Mods |-> "idle"]
    /\ arg = [m \in Mods |-> [id |-> CHOOSE i \in Ids : TRUE, dir |-> "write"]]
    /\ calls = [m \in Mods |-> 0]
    /\ buf_sz = [m \in Mods |-> 0]
    /\ buf = [m \in Mods |-> {}]
    /\ crashed = FALSE
    /\ freed = 0

Outcomes == IF AllocCanFail THEN BOOLEAN ELSE {TRUE}

\* seeded fault: the bound on calls dropped
CanTraceUnbounded(m) == pc[m] = "idle" /\ ~crashed

\* manager m is not inside a call (and the bounded run has calls left)
CanTrace(m) == pc[m] = "idle" /\ calls[m] < MaxCalls /\ ~crashed

\* seeded fault: a buffer counted full only past its end
FullPastEnd(c, a) == c > a

\* `if (count >= available_buf)`: the buffer needs to grow
Full(c, a) == c >= a

\* seeded fault: the drop test dropped
NextCountNoDropTest(c, a) == c + 1

\* `if (count == available_buf) return;` then `count += 1`
NextCount(c, a) == IF c = a THEN c ELSE c + 1

(***************************************************************************)
(* dxt_{posix,mpiio}_track_new_file_record(id), all under the lock: refuse *)
(* when the budget cannot hold a record, fail when a malloc or            *)
(* darshan_add_record_ref fails, else debit a record and register it.     *)
(***************************************************************************)
TrackNewFileRecord(m, id, d) ==
    \/ \* the budget cannot hold a record: NULL
       /\ ToSizeT(dxt_mem_remaining) < RecSize
       /\ UNCHANGED <<dxt_mem_remaining, recs, pc, arg, crashed>>
    \/ \* a malloc or darshan_add_record_ref fails;
       \* the MPI-IO copy's bare `return;` after the latter hands
       \* the caller an undefined pointer, NULL or not
       /\ ToSizeT(dxt_mem_remaining) >= RecSize
       /\ FALSE \in Outcomes
       /\ \E dangling \in IF m = "MPIIO" THEN BOOLEAN ELSE {FALSE} :
             crashed' = dangling
       /\ UNCHANGED <<dxt_mem_remaining, recs, pc, arg>>
    \/ \* success: debit a record, go on to append
       /\ ToSizeT(dxt_mem_remaining) >= RecSize
       /\ dxt_mem_remaining' = dxt_mem_remaining - RecSize
       /\ recs' = [recs EXCEPT ![m] =
                     [i \in DOMAIN @ \cup {id} |->
                         IF i = id THEN NewRec ELSE @[i]]]
       /\ pc' = [pc EXCEPT ![m] = "append"]
       /\ arg' = [arg EXCEPT ![m] = [id |-> id, dir |-> d]]
       /\ UNCHANGED crashed

(***************************************************************************)
(* Entry of dxt_{posix,mpiio}_{write,read}(id) up to the lookup of the    *)
(* record, with *_runtime_initialize on the first call and                 *)
(* *_track_new_file_record when the id has no record yet.                 *)
(***************************************************************************)
TraceCall(m, id, d) ==
    /\ CanTrace(m)
    /\ calls' = [calls EXCEPT ![m] = @ + 1]
    /\ \/ \* instrumentation disabled: return
          /\ instrumentation_disabled
          /\ UNCHANGED <<dxt_mem_remaining, runtime, recs, pc, arg, crashed>>
       \/ \* runtime_initialize fails: return
          /\ ~instrumentation_disabled /\ ~runtime[m]
          /\ FALSE \in Outcomes
          /\ UNCHANGED <<dxt_mem_remaining, runtime, recs, pc, arg, crashed>>
       \/ /\ ~instrumentation_disabled
          /\ \E initOk \in Outcomes : runtime[m] \/ initOk
          /\ runtime' = [runtime EXCEPT ![m] = TRUE]
          /\ \/ \* lookup hit
                /\ id \in DOMAIN recs[m]
                /\ pc' = [pc EXCEPT ![m] = "append"]
                /\ arg' = [arg EXCEPT ![m] = [id |-> id, dir |-> d]]
                /\ UNCHANGED <<dxt_mem_remaining, recs, crashed>>
             \/ /\ id \notin DOMAIN recs[m]
                /\ TrackNewFileRecord(m, id, d)
    /\ UNCHANGED <<instrumentation_disabled, buf_sz, buf, freed>>

(***************************************************************************)
(* check_{wr,rd}_trace_buf and the append that follows it: grow a full     *)
(* buffer by a clamped increment debited under the lock (realloc may      *)
(* fail and leave a NULL buffer that the append then writes), then drop    *)
(* the segment if the buffer is still full, else store it.                 *)
(***************************************************************************)
TraceAppend(m) ==
    /\ pc[m] = "append"
    /\ LET id == arg[m].id
           d == arg[m].dir
           r == recs[m][id]
           c == r.count[d]
           a == r.avail[d]
           inc == IF Full(c, a) THEN GrowBy(a, dxt_mem_remaining) ELSE 0
           a2 == a + inc
       IN  /\ dxt_mem_remaining' = dxt_mem_remaining - inc * SegSize
           /\ recs' = [recs EXCEPT ![m][id] =
                         [count |-> [r.count EXCEPT ![d] = NextCount(c, a2)],
                          avail |-> [r.avail EXCEPT ![d] = a2]]]
           /\ \E reallocOk \in IF inc > 0 THEN Outcomes ELSE {TRUE} :
                 crashed' = ~reallocOk
    /\ pc' = [pc EXCEPT ![m] = "idle"]
    /\ UNCHANGED <<instrumentation_disabled, runtime, arg, calls, buf_sz,
                   buf, freed>>

(***************************************************************************)
(* dxt_{posix,mpiio}_shutdown, called by darshan-core once every traced    *)
(* thread has quiesced: serialize every record with a segment (into a     *)
(* buffer malloc'd and realloc'd without a NULL check, so a failure is    *)
(* written through), free the runtime (the budget is never credited      *)
(* back), disable instrumentation.                                        *)
(***************************************************************************)
Shutdown(m) ==
    /\ runtime[m] /\ ~crashed
    /\ \A n \in Mods : pc[n] = "idle"
    /\ LET R == recs[m]
           nonempty == {i \in DOMAIN R :
                          R[i].count["write"] + R[i].count["read"] # 0}
       IN  /\ buf' = [buf EXCEPT ![m] =
                        {[id |-> i, write_count |-> R[i].count["write"],
                          read_count |-> R[i].count["read"]] : i \in nonempty}]
           /\ buf_sz' = [buf_sz EXCEPT ![m] =
                           SumFunction([i \in nonempty |-> SerialSize(R[i])])]
           /\ \E serialOk \in IF nonempty # {} THEN Outcomes ELSE {TRUE} :
                 crashed' = ~serialOk
    /\ freed' = freed + HeldBy(m)
    /\ recs' = [recs EXCEPT ![m] = NoRecs]
    /\ runtime' = [runtime EXCEPT ![m] = FALSE]
    /\ instrumentation_disabled' = TRUE
    /\ UNCHANGED <<dxt_mem_remaining, pc, arg, calls>>

\* every call has been made and returned, and both managers are shut down
Quiesced ==
    /\ \A m \in Mods : pc[m] = "idle" /\ ~runtime[m] /\ calls[m] = MaxCalls
    /\ UNCHANGED vars

\* a crashed process takes no further step
Crashed == crashed /\ UNCHANGED vars

Next ==
    \/ \E m \in Mods, id \in Ids, d \in Dirs : TraceCall(m, id, d)
    \/ \E m \in Mods : TraceAppend(m) \/ Shutdown(m)
    \/ Quiesced
    \/ Crashed

Spec == Init /\ [][Next]_vars

-----------------------------------------------------------------------------
(* Type correctness of the manager state. *)
TypeOK ==
    /\ dxt_mem_remaining \in Int
    /\ instrumentation_disabled \in BOOLEAN
    /\ runtime \in [Mods -> BOOLEAN]
    /\ \A m \in Mods : DOMAIN recs[m] \subseteq Ids
                       /\ \A i \in DOMAIN recs[m] : recs[m][i] \in FileRec
    /\ pc \in [Mods -> {"idle", "append"}]
    /\ arg \in [Mods -> [id: Ids, dir: Dirs]]
    /\ calls \in [Mods -> 0 .. MaxCalls]
    /\ buf_sz \in [Mods -> Nat]
    /\ crashed \in BOOLEAN
    /\ freed \in Nat

(***************************************************************************)
(* The 4 MiB cap, as exact accounting: the budget never goes negative, and *)
(* what it lost is exactly what the live records hold plus what the        *)
(* shutdowns freed (and never credited back).  A debit without an          *)
(* allocation, or an allocation without a debit, breaks the equality.      *)
(***************************************************************************)
MemAccounting ==
    /\ dxt_mem_remaining >= 0
    /\ dxt_mem_remaining + HeldBy("POSIX") + HeldBy("MPIIO") + freed = MemMax

(* The append in dxt_*_{write,read} never stores a segment past the end of its buffer. *)
NoBufferOverrun ==
    \A m \in Mods : \A i \in DOMAIN recs[m] : \A d \in Dirs :
        recs[m][i].count[d] <= recs[m][i].avail[d]

(***************************************************************************)
(* What dxt_*_shutdown hands to darshan-core fits the budget: the two      *)
(* serialized buffers together with what is left of the budget never      *)
(* exceed DXT_IO_TRACE_MEM_MAX.                                           *)
(***************************************************************************)
SerializedWithinBudget ==
    buf_sz["POSIX"] + buf_sz["MPIIO"] + dxt_mem_remaining <= MemMax

(***************************************************************************)
(* Graceful degradation drops data only when memory is exhausted: a trace  *)
(* call on a new id is refused only if the budget cannot hold a record,   *)
(* and an append drops its segment only if the budget, after the clamped   *)
(* growth, cannot hold a single segment.                                   *)
(***************************************************************************)
Refused(m) ==
    /\ ~instrumentation_disabled /\ runtime'[m]
    /\ calls'[m] = calls[m] + 1 /\ pc'[m] = "idle"

Dropped(m) ==
    /\ pc[m] = "append" /\ pc'[m] = "idle"
    /\ recs'[m][arg[m].id].count[arg[m].dir] = recs[m][arg[m].id].count[arg[m].dir]

DropOnlyWhenExhausted ==
    [][\A m \in Mods :
         /\ Refused(m) => ToSizeT(dxt_mem_remaining) < RecSize
         /\ Dropped(m) => ToSizeT(dxt_mem_remaining') < SegSize]_vars

(* Spec 7: out of memory in the DXT runtime is recovered locally; the process never dereferences a failed allocation. *)
OomRecoveredLocally == ~crashed

-----------------------------------------------------------------------------
(***************************************************************************)
(* The managers implement the trace log of DxtTraceLog: the budget is      *)
(* dxt_mem_remaining, a file's log is the segment counts of its record,    *)
(* a manager is live while its runtime exists, and what shutdown hands off *)
(* is the serialized buffer.  Buffer sizes, the calls in flight and the    *)
(* bytes freed have no abstract counterpart.                               *)
(***************************************************************************)
TraceLog == INSTANCE DxtTraceLog WITH
    budget <- dxt_mem_remaining,
    traced <- [m \in Mods |-> [i \in DOMAIN recs[m] |-> recs[m][i].count]],
    live <- runtime,
    disabled <- instrumentation_disabled,
    out <- buf

(* The managers' steps are steps of the trace log: segments are recorded   *)
(* one at a time to a file the manager opened and only before shutdown,    *)
(* the budget never grows or goes negative, and shutdown hands off exactly *)
(* the records with a segment, with their counts.                          *)
ImplementsTraceLog == TraceLog!Spec
=============================================================================
