--------------------------- MODULE DxtBuffersProofs ---------------------------
(***************************************************************************)
(* Proofs about the DXT buffer manager, for every budget, record and       *)
(* segment size, initial buffer size and size_t width allowed by the       *)
(* assumptions of DxtBuffers.                                              *)
(*                                                                         *)
(* The overrun freedom of the append rests on two facts that have to be    *)
(* carried along: the budget never goes negative (else the int-to-size_t   *)
(* conversion in check_*_trace_buf would make the clamp useless), and a    *)
(* manager that is between its two critical sections appends to a record  *)
(* that exists.                                                            *)
(***************************************************************************)
EXTENDS DxtBuffers, TLAPS

\* the part of TypeOK the overrun argument needs (no serialized buffers)
StateTyped ==
    /\ instrumentation_disabled \in BOOLEAN
    /\ runtime \in [Mods -> BOOLEAN]
    /\ DOMAIN recs = Mods
    /\ \A m \in Mods : DOMAIN recs[m] \subseteq Ids
                       /\ \A i \in DOMAIN recs[m] : recs[m][i] \in FileRec
    /\ pc \in [Mods -> {"idle", "append"}]
    /\ arg \in [Mods -> [id: Ids, dir: Dirs]]
    /\ calls \in [Mods -> 0 .. MaxCalls]
    /\ crashed \in BOOLEAN

\* the budget is an int that stays within [0, DXT_IO_TRACE_MEM_MAX]
BudgetInRange == dxt_mem_remaining \in 0 .. MemMax

\* a manager inside a call appends to a record it has
AppendTarget ==
    \A m \in Mods : pc[m] = "append" => arg[m].id \in DOMAIN recs[m]

IInv == StateTyped /\ BudgetInRange /\ AppendTarget /\ NoBufferOverrun

-----------------------------------------------------------------------------
(***************************************************************************)
(* The clamp of check_*_trace_buf: with a non-negative budget the         *)
(* increment is a natural number of segments whose bytes the budget can   *)
(* pay for.                                                                *)
(***************************************************************************)
LEMMA GrowByFits ==
    ASSUME NEW a \in Nat, NEW rem \in 0 .. MemMax
    PROVE  /\ GrowBy(a, rem) \in Nat
           /\ GrowBy(a, rem) * SegSize <= rem
<1>1. ToSizeT(rem) = rem
  BY DEF ToSizeT
<1>. DEFINE want == IF a = 0 THEN InitBuf ELSE a
<1>2. want \in Nat
  BY InitBufAssumption
<1>3. CASE want * SegSize > rem
  <2>1. rem \div SegSize \in Nat /\ rem % SegSize \in 0 .. SegSize - 1
    BY SegSizeAssumption, MemMaxAssumption
  <2>2. rem = SegSize * (rem \div SegSize) + (rem % SegSize)
    BY SegSizeAssumption, MemMaxAssumption, Z3T(30)
  <2>3. (rem \div SegSize) * SegSize <= rem
    BY <2>1, <2>2, SegSizeAssumption
  <2>. QED
    BY <1>1, <1>3, <2>1, <2>3 DEF GrowBy
<1>4. CASE want * SegSize <= rem
  BY <1>2, <1>4, MemMaxAssumption, SegSizeAssumption DEF GrowBy, ToSizeT
<1>. QED
  BY <1>3, <1>4, <1>2, SegSizeAssumption

(* The store after the drop test never moves the count past the buffer. *)
LEMMA NextCountBound ==
    ASSUME NEW c \in Nat, NEW b \in Nat, c <= b
    PROVE  NextCount(c, b) \in Nat /\ NextCount(c, b) <= b
BY DEF NextCount

(* A growth of zero segments debits nothing. *)
LEMMA ZeroGrowthFree ==
    ASSUME NEW i \in Nat, i = 0
    PROVE  i * SegSize = 0
BY SegSizeAssumption

(* A count that equals a buffer grown past it means no growth at all. *)
LEMMA NoRoomGrown ==
    ASSUME NEW c \in Nat, NEW a \in Nat, NEW i \in Nat, c <= a, c = a + i
    PROVE  i = 0 /\ c >= a
OBVIOUS

(* Taking nothing away leaves a number as it was. *)
LEMMA MinusZero ==
    ASSUME NEW x \in Nat, NEW z, z = 0
    PROVE  x - z = x
OBVIOUS

(* A grown buffer still holds the count it held. *)
LEMMA GrownHolds ==
    ASSUME NEW c \in Nat, NEW a \in Nat, NEW i \in Nat, c <= a
    PROVE  a + i \in Nat /\ c <= a + i
OBVIOUS

(* A store that leaves the count where it was met a buffer already full. *)
LEMMA NextCountFixed ==
    ASSUME NEW c \in Nat, NEW b \in Nat, NextCount(c, b) = c
    PROVE  c = b
BY DEF NextCount

-----------------------------------------------------------------------------
(* The start-up state of the runtime satisfies the inductive invariant. *)
LEMMA InitIInv == Init => IInv
<1>. SUFFICES ASSUME Init PROVE IInv
  OBVIOUS
<1>2. (CHOOSE i \in Ids : TRUE) \in Ids
  BY IdsAssumption
<1>3. StateTyped
  <2>1. /\ instrumentation_disabled \in BOOLEAN
        /\ runtime \in [Mods -> BOOLEAN]
        /\ pc \in [Mods -> {"idle", "append"}]
        /\ crashed \in BOOLEAN
    BY DEF Init
  <2>2. calls \in [Mods -> 0 .. MaxCalls]
    BY MaxCallsAssumption DEF Init
  <2>3. arg \in [Mods -> [id: Ids, dir: Dirs]]
    BY <1>2 DEF Init, Dirs
  <2>4. DOMAIN recs = Mods
        /\ \A m \in Mods : DOMAIN recs[m] \subseteq Ids
                         /\ \A i \in DOMAIN recs[m] : recs[m][i] \in FileRec
    BY DEF Init, NoRecs
  <2>. QED
    BY <2>1, <2>2, <2>3, <2>4 DEF StateTyped
<1>. QED
  BY <1>3, MemMaxAssumption
  DEF Init, IInv, BudgetInRange, AppendTarget, NoBufferOverrun, NoRecs

(***************************************************************************)
(* A trace call up to its first critical section: either nothing the      *)
(* invariant speaks of changes, or the call goes on to append to a record *)
(* it found or has just created (after debiting RecSize, which the budget *)
(* can pay for since it is non-negative and hence not wrapped).           *)
(***************************************************************************)
LEMMA TraceCallIInv ==
    ASSUME IInv, NEW m \in Mods, NEW id \in Ids, NEW d \in Dirs,
           TraceCall(m, id, d)
    PROVE  IInv'
<1>. USE DEF IInv, StateTyped, BudgetInRange, AppendTarget, NoBufferOverrun
<1>1. /\ instrumentation_disabled' \in BOOLEAN
      /\ runtime' \in [Mods -> BOOLEAN]
      /\ calls' \in [Mods -> 0 .. MaxCalls]
      /\ crashed' \in BOOLEAN
  <2>1. calls' \in [Mods -> 0 .. MaxCalls]
    BY MaxCallsAssumption DEF TraceCall, CanTrace
  <2>2. runtime' \in {runtime, [runtime EXCEPT ![m] = TRUE]}
    BY DEF TraceCall, TrackNewFileRecord
  <2>3. crashed' \in BOOLEAN
    BY DEF TraceCall, TrackNewFileRecord
  <2>. QED
    BY <2>1, <2>2, <2>3 DEF TraceCall, TrackNewFileRecord
<1>2. ToSizeT(dxt_mem_remaining) = dxt_mem_remaining
  BY MemMaxAssumption DEF ToSizeT
<1>3. CASE UNCHANGED <<dxt_mem_remaining, recs, pc, arg>>
  BY <1>1, <1>3
<1>4. CASE /\ id \in DOMAIN recs[m]
           /\ pc' = [pc EXCEPT ![m] = "append"]
           /\ arg' = [arg EXCEPT ![m] = [id |-> id, dir |-> d]]
           /\ UNCHANGED <<dxt_mem_remaining, recs>>
  BY <1>1, <1>4
<1>5. CASE /\ ToSizeT(dxt_mem_remaining) >= RecSize
           /\ dxt_mem_remaining' = dxt_mem_remaining - RecSize
           /\ recs' = [recs EXCEPT ![m] =
                         [i \in DOMAIN @ \cup {id} |->
                             IF i = id THEN NewRec ELSE @[i]]]
           /\ pc' = [pc EXCEPT ![m] = "append"]
           /\ arg' = [arg EXCEPT ![m] = [id |-> id, dir |-> d]]
  <2>1. NewRec \in FileRec /\ \A e \in Dirs : NewRec.count[e] <= NewRec.avail[e]
    BY DEF NewRec, FileRec
  <2>2. dxt_mem_remaining' \in 0 .. MemMax
    BY <1>2, <1>5, RecSizeAssumption, MemMaxAssumption
  <2>3. /\ DOMAIN recs' = Mods
        /\ DOMAIN recs'[m] = DOMAIN recs[m] \cup {id}
        /\ \A n \in Mods \ {m} : recs'[n] = recs[n]
        /\ recs'[m][id] = NewRec
        /\ \A i \in DOMAIN recs[m] \ {id} : recs'[m][i] = recs[m][i]
    BY <1>5
  <2>. QED
    BY <1>1, <1>5, <2>1, <2>2, <2>3
<1>. QED
  BY <1>3, <1>4, <1>5 DEF TraceCall, TrackNewFileRecord

(***************************************************************************)
(* The append of a trace call (check_*_trace_buf and the store): a full   *)
(* buffer (count = available, by the invariant) grows by the clamped      *)
(* increment, which the budget pays for; the count then moves only if     *)
(* the grown buffer has room.                                             *)
(***************************************************************************)
(* Debiting what the budget can pay keeps it within [0, MemMax]. *)
LEMMA DebitInRange ==
    ASSUME NEW b \in 0 .. MemMax, NEW x \in Nat, x <= b
    PROVE  b - x \in 0 .. MemMax
BY MemMaxAssumption

LEMMA TraceAppendIInv ==
    ASSUME IInv, NEW m \in Mods, TraceAppend(m)
    PROVE  IInv'
<1>. USE DEF IInv, StateTyped, BudgetInRange, AppendTarget, NoBufferOverrun
<1>. DEFINE id == arg[m].id
            d == arg[m].dir
            r == recs[m][id]
            c == r.count[d]
            a == r.avail[d]
            inc == IF Full(c, a) THEN GrowBy(a, dxt_mem_remaining) ELSE 0
            a2 == a + inc
<1>1. id \in DOMAIN recs[m] /\ d \in Dirs /\ r \in FileRec
  BY DEF TraceAppend
<1>2. c \in Nat /\ a \in Nat /\ c <= a
  BY <1>1 DEF FileRec
<1>3. inc \in Nat /\ inc * SegSize <= dxt_mem_remaining
  BY <1>2, GrowByFits, SegSizeAssumption
<1>4. /\ dxt_mem_remaining' = dxt_mem_remaining - inc * SegSize
      /\ recs' = [recs EXCEPT ![m][id] =
                    [count |-> [r.count EXCEPT ![d] = NextCount(c, a2)],
                     avail |-> [r.avail EXCEPT ![d] = a2]]]
      /\ pc' = [pc EXCEPT ![m] = "idle"]
      /\ UNCHANGED <<instrumentation_disabled, runtime, arg, calls>>
      /\ crashed' \in BOOLEAN
  BY DEF TraceAppend
<1>5. dxt_mem_remaining' \in 0 .. MemMax
  <2>1. inc * SegSize \in Nat
    BY <1>3, SegSizeAssumption
  <2>2. dxt_mem_remaining - inc * SegSize \in 0 .. MemMax
    BY <1>3, <2>1, DebitInRange
  <2>. QED
    BY <1>4, <2>2
<1>6. a2 \in Nat /\ NextCount(c, a2) \in Nat /\ NextCount(c, a2) <= a2
  <2>1. a2 \in Nat /\ c <= a2
    BY <1>2, <1>3, GrownHolds
  <2>. QED
    BY <1>2, <2>1, NextCountBound
<1>. DEFINE r2 == [count |-> [r.count EXCEPT ![d] = NextCount(c, a2)],
                   avail |-> [r.avail EXCEPT ![d] = a2]]
<1>7. r2 \in FileRec /\ \A e \in Dirs : r2.count[e] <= r2.avail[e]
  BY <1>1, <1>6 DEF FileRec
<1>8. /\ DOMAIN recs' = Mods
      /\ \A n \in Mods : DOMAIN recs'[n] = DOMAIN recs[n]
      /\ recs'[m][id] = r2
      /\ \A n \in Mods : \A i \in DOMAIN recs[n] :
            (n # m \/ i # id) => recs'[n][i] = recs[n][i]
  BY <1>1, <1>4
<1>. QED
  BY <1>4, <1>5, <1>7, <1>8

(* Shutdown frees a manager's records while every manager is idle. *)
LEMMA ShutdownIInv ==
    ASSUME IInv, NEW m \in Mods, Shutdown(m)
    PROVE  IInv'
<1>. USE DEF IInv, StateTyped, BudgetInRange, AppendTarget, NoBufferOverrun
<1>1. /\ recs' = [recs EXCEPT ![m] = NoRecs]
      /\ runtime' = [runtime EXCEPT ![m] = FALSE]
      /\ instrumentation_disabled' = TRUE
      /\ UNCHANGED <<dxt_mem_remaining, pc, arg, calls>>
      /\ crashed' \in BOOLEAN
      /\ \A n \in Mods : pc[n] = "idle"
  BY DEF Shutdown
<1>2. DOMAIN NoRecs = {}
  BY DEF NoRecs
<1>. QED
  BY <1>1, <1>2

(* Every step of the two managers preserves the inductive invariant. *)
LEMMA NextIInv == IInv /\ [Next]_vars => IInv'
<1>. SUFFICES ASSUME IInv, [Next]_vars PROVE IInv'
  OBVIOUS
<1>1. CASE \E m \in Mods, id \in Ids, d \in Dirs : TraceCall(m, id, d)
  BY <1>1, TraceCallIInv
<1>2. CASE \E m \in Mods : TraceAppend(m)
  BY <1>2, TraceAppendIInv
<1>3. CASE \E m \in Mods : Shutdown(m)
  BY <1>3, ShutdownIInv
<1>4. CASE Quiesced \/ Crashed \/ UNCHANGED vars
  BY <1>4 DEF Quiesced, Crashed, vars, IInv, StateTyped, BudgetInRange,
              AppendTarget, NoBufferOverrun
<1>. QED
  BY <1>1, <1>2, <1>3, <1>4 DEF Next

(***************************************************************************)
(* The append in dxt_*_{write,read} never stores a segment past the end   *)
(* of its buffer (NoBufferOverrun, checked by dxt_oom), for every budget, *)
(* record size, segment size and initial buffer size.                      *)
(***************************************************************************)
THEOREM NoOverrun == Spec => []NoBufferOverrun
<1>1. Spec => []IInv
  BY InitIInv, NextIInv, PTL DEF Spec
<1>. QED
  BY <1>1, PTL DEF IInv

(* The global budget dxt_mem_remaining never goes negative nor above DXT_IO_TRACE_MEM_MAX. *)
THEOREM BudgetNeverNegative == Spec => []BudgetInRange
<1>1. Spec => []IInv
  BY InitIInv, NextIInv, PTL DEF Spec
<1>. QED
  BY <1>1, PTL DEF IInv

-----------------------------------------------------------------------------
(***************************************************************************)
(* The drop and the refusal of DropOnlyWhenExhausted.  A clamped increment *)
(* of zero segments means the budget cannot pay for one segment.           *)
(***************************************************************************)
LEMMA GrowByZero ==
    ASSUME NEW a \in Nat, NEW rem \in 0 .. MemMax, GrowBy(a, rem) = 0
    PROVE  rem < SegSize
<1>1. ToSizeT(rem) = rem
  BY DEF ToSizeT
<1>. DEFINE want == IF a = 0 THEN InitBuf ELSE a
<1>2. want \in Nat \ {0}
  BY InitBufAssumption
<1>3. want * SegSize > rem /\ rem \div SegSize = 0
  BY <1>1, <1>2 DEF GrowBy
<1>4. rem = SegSize * (rem \div SegSize) + (rem % SegSize)
      /\ rem % SegSize \in 0 .. SegSize - 1
  BY SegSizeAssumption, MemMaxAssumption, Z3T(30)
<1>. QED
  BY <1>3, <1>4, SegSizeAssumption

(* A manager that leaves its append without storing the segment has run   *)
(* check_*_trace_buf on a full buffer whose clamped growth was zero.      *)
LEMMA DropStep ==
    ASSUME IInv, [Next]_vars, NEW m \in Mods, Dropped(m)
    PROVE  ToSizeT(dxt_mem_remaining') < SegSize
<1>0. /\ pc \in [Mods -> {"idle", "append"}]
      /\ dxt_mem_remaining \in 0 .. MemMax
      /\ DOMAIN recs = Mods
  BY DEF IInv, StateTyped, BudgetInRange
<1>1. pc[m] = "append" /\ pc'[m] = "idle"
  BY DEF Dropped
<1>2. ASSUME NEW n \in Mods, NEW id \in Ids, NEW d \in Dirs, TraceCall(n, id, d)
      PROVE  FALSE
  <2>1. n # m
    BY <1>1, <1>2 DEF TraceCall, CanTrace
  <2>2. pc' = pc \/ pc' = [pc EXCEPT ![n] = "append"]
    BY <1>2 DEF TraceCall, TrackNewFileRecord
  <2>. QED
    BY <1>0, <1>1, <2>1, <2>2
<1>3. ASSUME NEW n \in Mods, Shutdown(n) \/ (TraceAppend(n) /\ n # m)
      PROVE  FALSE
  BY <1>0, <1>1, <1>3 DEF Shutdown, TraceAppend
<1>4. ~(Quiesced \/ Crashed \/ UNCHANGED vars)
  BY <1>1 DEF Quiesced, Crashed, vars
<1>5. TraceAppend(m)
  BY <1>2, <1>3, <1>4 DEF Next
<1>. DEFINE id == arg[m].id
            d == arg[m].dir
            r == recs[m][id]
            c == r.count[d]
            a == r.avail[d]
            inc == IF Full(c, a) THEN GrowBy(a, dxt_mem_remaining) ELSE 0
            a2 == a + inc
<1>6. id \in DOMAIN recs[m] /\ d \in Dirs /\ r \in FileRec
  BY <1>1 DEF IInv, StateTyped, AppendTarget
<1>7. c \in Nat /\ a \in Nat /\ c <= a
  <2>1. c \in Nat /\ a \in Nat
    BY <1>6 DEF FileRec
  <2>. QED
    BY <1>6, <2>1 DEF IInv, NoBufferOverrun
<1>8. inc \in Nat
  BY <1>0, <1>7, GrowByFits
<1>. DEFINE r2 == [count |-> [r.count EXCEPT ![d] = NextCount(c, a2)],
                   avail |-> [r.avail EXCEPT ![d] = a2]]
<1>9. /\ dxt_mem_remaining' = dxt_mem_remaining - inc * SegSize
      /\ recs' = [recs EXCEPT ![m][id] = r2]
  BY <1>5 DEF TraceAppend
<1>10. recs'[m][id].count[d] = NextCount(c, a2)
  <2>1. recs'[m][id] = r2
    BY <1>0, <1>6, <1>9
  <2>2. d \in DOMAIN r.count
    BY <1>6 DEF FileRec
  <2>3. r2.count[d] = NextCount(c, a2)
    BY <2>2, Zenon
  <2>. QED
    BY <2>1, <2>3, Zenon
<1>11. NextCount(c, a2) = c
  BY <1>10 DEF Dropped
<1>12. c = a2
  <2>1. a2 \in Nat /\ c \in Nat
    BY <1>7, <1>8, GrownHolds
  <2>. QED
    BY <1>11, <2>1, NextCountFixed
<1>13. inc = 0 /\ Full(c, a)
  <2>1. inc = 0 /\ c >= a
    BY <1>7, <1>8, <1>12, NoRoomGrown
  <2>. QED
    BY <2>1 DEF Full
<1>14. GrowBy(a, dxt_mem_remaining) = 0
  BY <1>13
<1>15. dxt_mem_remaining < SegSize /\ dxt_mem_remaining \in Nat
  BY <1>0, <1>7, <1>14, GrowByZero
<1>16. dxt_mem_remaining' = dxt_mem_remaining
  <2>1. inc * SegSize = 0
    BY <1>8, <1>13, ZeroGrowthFree
  <2>. QED
    BY <1>9, <1>15, <2>1, MinusZero, Zenon
<1>. QED
  BY <1>15, <1>16 DEF ToSizeT

(* When no allocation fails, a trace call returns without appending while *)
(* the manager's runtime exists only from the refusal of                   *)
(* *_track_new_file_record, whose test is that the budget cannot hold a   *)
(* record.                                                                 *)
LEMMA RefuseStep ==
    ASSUME IInv, ~AllocCanFail, [Next]_vars, NEW m \in Mods, Refused(m)
    PROVE  ToSizeT(dxt_mem_remaining) < RecSize
<1>. USE DEF IInv, StateTyped
<1>1. /\ ~instrumentation_disabled /\ pc'[m] = "idle"
      /\ calls'[m] = calls[m] + 1 /\ calls[m] \in Nat
  BY DEF Refused
<1>2. FALSE \notin Outcomes /\ Outcomes = {TRUE}
  BY DEF Outcomes
<1>3. ASSUME NEW n \in Mods, NEW id \in Ids, NEW d \in Dirs, TraceCall(n, id, d)
      PROVE  ToSizeT(dxt_mem_remaining) < RecSize
  <2>1. n = m
    BY <1>1, <1>3 DEF TraceCall
  <2>2. CASE id \in DOMAIN recs[m]
    BY <1>1, <1>2, <1>3, <2>1, <2>2 DEF TraceCall
  <2>3. CASE id \notin DOMAIN recs[m]
    BY <1>1, <1>2, <1>3, <2>1, <2>3 DEF TraceCall, TrackNewFileRecord
  <2>. QED
    BY <2>2, <2>3
<1>4. ASSUME NEW n \in Mods, TraceAppend(n) \/ Shutdown(n)
      PROVE  FALSE
  <2>1. calls' = calls
    BY <1>4 DEF TraceAppend, Shutdown
  <2>. QED
    BY <1>1, <2>1
<1>5. ~(Quiesced \/ Crashed \/ UNCHANGED vars)
  BY <1>1 DEF Quiesced, Crashed, vars
<1>. QED
  BY <1>3, <1>4, <1>5 DEF Next

(***************************************************************************)
(* Graceful degradation drops data only when memory is exhausted          *)
(* (DropOnlyWhenExhausted, checked by dxt_budget): with no allocation     *)
(* failure, a call on a new id is refused only when the budget cannot     *)
(* hold a record, and an append drops its segment only when the budget,   *)
(* after the clamped growth, cannot hold one segment; for every budget,   *)
(* record and segment size.                                                *)
(***************************************************************************)
THEOREM DropsOnlyWhenExhausted ==
    ASSUME ~AllocCanFail
    PROVE  Spec => DropOnlyWhenExhausted
<1>1. Spec => []IInv
  BY InitIInv, NextIInv, PTL DEF Spec
<1>2. IInv /\ [Next]_vars =>
        [\A m \in Mods :
            /\ Refused(m) => ToSizeT(dxt_mem_remaining) < RecSize
            /\ Dropped(m) => ToSizeT(dxt_mem_remaining') < SegSize]_vars
  BY DropStep, RefuseStep
<1>. QED
  BY <1>1, <1>2, PTL DEF Spec, DropOnlyWhenExhausted
=============================================================================
