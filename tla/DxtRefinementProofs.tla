------------------------- MODULE DxtRefinementProofs -------------------------
(***************************************************************************)
(* Proof that the DXT buffer managers implement the trace log of           *)
(* DxtTraceLog under the mapping TraceLog of DxtBuffers, for every budget, *)
(* record and segment size allowed by the assumptions of DxtBuffers.      *)
(*                                                                         *)
(* A trace call maps to Start (the runtime comes up, nothing recorded) or  *)
(* to Open (a record is debited and created); the append maps to Record    *)
(* when it stores the segment and to a stutter when it drops it (the     *)
(* clamped growth was then zero); shutdown maps to Shutdown.  Besides the  *)
(* overrun invariant, the argument needs that a manager between its two    *)
(* critical sections has a runtime and runs with instrumentation enabled: *)
(* the abstract Record happens only in a live manager and before shutdown. *)
(***************************************************************************)
EXTENDS DxtBuffersProofs

\* the image of the records under the mapping: per manager, id -> counts
T == [m \in Mods |-> [i \in DOMAIN recs[m] |-> recs[m][i].count]]

\* a manager inside a call is live and instrumentation is still on
AppendLive ==
    \A m \in Mods : pc[m] = "append" => runtime[m] /\ ~instrumentation_disabled

RInv == IInv /\ AppendLive

-----------------------------------------------------------------------------
(***************************************************************************)
(* The image of the records under the mapping, for any records R over a   *)
(* set of managers M: unchanged counts give an unchanged image, and one    *)
(* count raised by one raises that entry of the image.                    *)
(***************************************************************************)
Image(R, M) == [n \in M |-> [i \in DOMAIN R[n] |-> R[n][i].count]]

(* Records whose counts are unchanged have the same image. *)
LEMMA ImageUnchanged ==
    ASSUME NEW R, NEW R2, NEW M,
           \A n \in M : DOMAIN R2[n] = DOMAIN R[n],
           \A n \in M : \A i \in DOMAIN R[n] : R2[n][i].count = R[n][i].count
    PROVE  Image(R2, M) = Image(R, M)
BY DEF Image

\* one count of a per-manager count map raised by one
Bump(F, m, id, d) == [F EXCEPT ![m][id][d] = @ + 1]

\* R2 is R with the count of direction d of record id of manager m raised
IncrementHyp(R, R2, M, m, id, d) ==
    /\ m \in M /\ id \in DOMAIN R[m] /\ d \in Dirs
    /\ R[m][id].count \in [Dirs -> Nat]
    /\ \A n \in M : DOMAIN R2[n] = DOMAIN R[n]
    /\ \A n \in M : \A i \in DOMAIN R[n] :
          (n # m \/ i # id) => R2[n][i].count = R[n][i].count
    /\ R2[m][id].count = [R[m][id].count EXCEPT ![d] = R[m][id].count[d] + 1]

(* A count raised by one in the records is raised by one in the image. *)
LEMMA ImageIncrement ==
    ASSUME NEW R, NEW R2, NEW M, NEW m, NEW id, NEW d,
           IncrementHyp(R, R2, M, m, id, d)
    PROVE  Image(R2, M) = Bump(Image(R, M), m, id, d)
<1>. USE DEF IncrementHyp
<1>. DEFINE U == [Image(R, M) EXCEPT ![m][id][d] = @ + 1]
<1>. SUFFICES Image(R2, M) = U
  BY DEF Bump
<1>1. DOMAIN U = M /\ DOMAIN Image(R2, M) = M
  BY DEF Image
<1>2. \A n \in M \ {m} : Image(R2, M)[n] = U[n]
  BY DEF Image
<1>3. Image(R2, M)[m] = U[m]
  <2>1. U[m] = [Image(R, M)[m] EXCEPT ![id] =
                  [R[m][id].count EXCEPT ![d] = R[m][id].count[d] + 1]]
    BY DEF Image
  <2>. QED
    BY <2>1 DEF Image
<1>. QED
  BY <1>1, <1>2, <1>3 DEF Image

-----------------------------------------------------------------------------
(* The start-up state satisfies AppendLive: no manager is inside a call. *)
LEMMA InitRInv == Init => RInv
BY InitIInv DEF Init, RInv, AppendLive

(* Every step preserves AppendLive along with the overrun invariant. *)
LEMMA NextRInv == RInv /\ [Next]_vars => RInv'
<1>. SUFFICES ASSUME RInv, [Next]_vars PROVE RInv'
  OBVIOUS
<1>1. IInv'
  BY NextIInv DEF RInv
<1>. USE DEF RInv, AppendLive
<1>2. CASE \E m \in Mods, id \in Ids, d \in Dirs : TraceCall(m, id, d)
  <2>1. PICK m \in Mods, id \in Ids, d \in Dirs : TraceCall(m, id, d)
    BY <1>2
  <2>2. /\ runtime' \in {runtime, [runtime EXCEPT ![m] = TRUE]}
        /\ instrumentation_disabled' = instrumentation_disabled
    BY <2>1 DEF TraceCall, TrackNewFileRecord
  <2>3. pc' = pc \/ (/\ pc' = [pc EXCEPT ![m] = "append"]
                     /\ runtime' = [runtime EXCEPT ![m] = TRUE]
                     /\ ~instrumentation_disabled)
    BY <2>1 DEF TraceCall, TrackNewFileRecord
  <2>. QED
    BY <1>1, <2>2, <2>3 DEF IInv, StateTyped
<1>3. CASE \E m \in Mods : TraceAppend(m)
  <2>1. PICK m \in Mods : TraceAppend(m)
    BY <1>3
  <2>2. /\ pc' = [pc EXCEPT ![m] = "idle"]
        /\ UNCHANGED <<instrumentation_disabled, runtime>>
    BY <2>1 DEF TraceAppend
  <2>3. \A n \in Mods : pc'[n] = "append" => n # m /\ pc[n] = "append"
    BY <2>2 DEF IInv, StateTyped
  <2>. QED
    BY <1>1, <2>2, <2>3
<1>4. CASE \E m \in Mods : Shutdown(m)
  BY <1>1, <1>4 DEF Shutdown
<1>5. CASE Quiesced \/ Crashed \/ UNCHANGED vars
  BY <1>1, <1>5 DEF Quiesced, Crashed, vars
<1>. QED
  BY <1>2, <1>3, <1>4, <1>5 DEF Next

-----------------------------------------------------------------------------
(* The start-up state of the managers is the empty trace log. *)
LEMMA InitMaps == Init => TraceLog!Init
<1>. SUFFICES ASSUME Init PROVE TraceLog!Init
  OBVIOUS
<1>1. T = [m \in Mods |-> TraceLog!NoFiles]
  BY DEF Init, T, NoRecs, TraceLog!NoFiles
<1>. QED
  BY <1>1, MemMaxAssumption DEF Init, T, TraceLog!Init, Mods, TraceLog!Mods
(***************************************************************************)
(* A trace call is a stutter of the log (instrumentation disabled, or the  *)
(* runtime could not be set up), a Start (the runtime is up and the id    *)
(* was found, refused or its allocation failed) or an Open (a record was   *)
(* debited and created).                                                   *)
(***************************************************************************)
LEMMA TraceCallMaps ==
    ASSUME RInv, NEW m \in Mods, NEW id \in Ids, NEW d \in Dirs,
           TraceCall(m, id, d)
    PROVE  [TraceLog!Next]_TraceLog!avars
<1>. USE DEF RInv, IInv, StateTyped, BudgetInRange
<1>1. UNCHANGED <<instrumentation_disabled, buf>>
  BY DEF TraceCall
<1>2. CASE UNCHANGED <<dxt_mem_remaining, runtime, recs>>
  BY <1>1, <1>2 DEF TraceLog!avars
<1>3. CASE /\ ~instrumentation_disabled
           /\ runtime' = [runtime EXCEPT ![m] = TRUE]
           /\ UNCHANGED <<dxt_mem_remaining, recs>>
  <2>1. TraceLog!Start(m)
    BY <1>1, <1>3 DEF TraceLog!Start
  <2>. QED
    BY <2>1 DEF TraceLog!Next, TraceLog!Mods, Mods
<1>4. CASE /\ ~instrumentation_disabled
           /\ runtime' = [runtime EXCEPT ![m] = TRUE]
           /\ id \notin DOMAIN recs[m]
           /\ ToSizeT(dxt_mem_remaining) >= RecSize
           /\ dxt_mem_remaining' = dxt_mem_remaining - RecSize
           /\ recs' = [recs EXCEPT ![m] =
                         [i \in DOMAIN @ \cup {id} |->
                             IF i = id THEN NewRec ELSE @[i]]]
  <2>1. dxt_mem_remaining' \in 0 .. dxt_mem_remaining
    BY <1>4, RecSizeAssumption, MemMaxAssumption DEF ToSizeT
  <2>2. /\ DOMAIN recs' = Mods
        /\ DOMAIN recs'[m] = DOMAIN recs[m] \cup {id}
        /\ recs'[m][id].count = [e \in Dirs |-> 0]
        /\ \A i \in DOMAIN recs[m] \ {id} : recs'[m][i] = recs[m][i]
        /\ \A n \in Mods \ {m} : recs'[n] = recs[n]
    BY <1>4 DEF NewRec
  <2>3. T'[m] = [i \in DOMAIN T[m] \cup {id} |->
                   IF i = id THEN [e \in Dirs |-> 0] ELSE T[m][i]]
    BY <2>2 DEF T
  <2>4. T' = [T EXCEPT ![m] = [i \in DOMAIN @ \cup {id} |->
                                 IF i = id THEN [e \in Dirs |-> 0] ELSE @[i]]]
    BY <2>2, <2>3 DEF T
  <2>5. id \notin DOMAIN T[m]
    BY <1>4 DEF T
  <2>6. TraceLog!Open(m, id)
    BY <1>1, <1>4, <2>1, <2>4, <2>5 DEF TraceLog!Open, T, TraceLog!Dirs, Dirs
  <2>. QED
    BY <2>6 DEF TraceLog!Next, TraceLog!Mods, Mods
<1>. QED
  BY <1>2, <1>3, <1>4 DEF TraceCall, TrackNewFileRecord
(***************************************************************************)
(* The append stores the segment (a Record of the log, whose budget debit  *)
(* the clamp keeps within the budget) or drops it; a drop happens only    *)
(* when the clamped growth was zero, so nothing mapped changes.           *)
(***************************************************************************)
LEMMA TraceAppendMaps ==
    ASSUME RInv, NEW m \in Mods, TraceAppend(m)
    PROVE  [TraceLog!Next]_TraceLog!avars
<1>1. PICK id \in Ids : id = arg[m].id
  BY DEF RInv, IInv, StateTyped
<1>2. PICK d \in Dirs : d = arg[m].dir
  BY DEF RInv, IInv, StateTyped
<1>3. /\ DOMAIN recs = Mods /\ id \in DOMAIN recs[m]
      /\ recs[m][id] \in FileRec
      /\ recs[m][id].count[d] <= recs[m][id].avail[d]
      /\ runtime[m] /\ ~instrumentation_disabled
      /\ dxt_mem_remaining \in 0 .. MemMax
  BY <1>1, <1>2 DEF TraceAppend, RInv, IInv, StateTyped, AppendTarget,
                    AppendLive, BudgetInRange, NoBufferOverrun
<1>4. PICK cnt \in [Dirs -> Nat] : cnt = recs[m][id].count
  BY <1>3 DEF FileRec
<1>5. PICK av \in [Dirs -> Nat] : av = recs[m][id].avail
  BY <1>3 DEF FileRec
<1>16. /\ GrowBy(av[d], dxt_mem_remaining) \in Nat
       /\ GrowBy(av[d], dxt_mem_remaining) * SegSize <= dxt_mem_remaining
  BY <1>2, <1>3, <1>5, GrowByFits
<1>6. PICK inc \in Nat :
        /\ inc = IF Full(cnt[d], av[d]) THEN GrowBy(av[d], dxt_mem_remaining)
                                         ELSE 0
        /\ inc * SegSize <= dxt_mem_remaining
  BY <1>3, <1>16, SegSizeAssumption
<1>7. /\ dxt_mem_remaining' = dxt_mem_remaining - inc * SegSize
      /\ recs' = [recs EXCEPT ![m][id] =
                    [count |-> [cnt EXCEPT ![d] = NextCount(cnt[d], av[d] + inc)],
                     avail |-> [av EXCEPT ![d] = av[d] + inc]]]
      /\ UNCHANGED <<instrumentation_disabled, runtime, buf>>
  BY <1>1, <1>2, <1>4, <1>5, <1>6 DEF TraceAppend
<1>8. /\ \A n \in Mods : DOMAIN recs'[n] = DOMAIN recs[n]
      /\ recs'[m][id].count = [cnt EXCEPT ![d] = NextCount(cnt[d], av[d] + inc)]
      /\ \A n \in Mods : \A i \in DOMAIN recs[n] :
            (n # m \/ i # id) => recs'[n][i] = recs[n][i]
  BY <1>3, <1>7
<1>9. T = Image(recs, Mods) /\ T' = Image(recs', Mods)
  BY DEF T, Image
<1>10. CASE cnt[d] = av[d] + inc
  <2>1. inc = 0 /\ NextCount(cnt[d], av[d] + inc) = cnt[d]
    BY <1>3, <1>4, <1>5, <1>10 DEF NextCount
  <2>2. recs'[m][id].count = cnt
    BY <1>2, <1>4, <1>8, <2>1
  <2>3. \A n \in Mods : \A i \in DOMAIN recs[n] :
           recs'[n][i].count = recs[n][i].count
    BY <1>3, <1>4, <1>8, <2>2
  <2>4. Image(recs', Mods) = Image(recs, Mods)
    BY <1>8, <2>3, ImageUnchanged
  <2>5. dxt_mem_remaining' = dxt_mem_remaining
    BY <1>3, <1>7, <2>1, SegSizeAssumption
  <2>. QED
    BY <1>7, <1>9, <2>4, <2>5 DEF TraceLog!avars, T
<1>11. CASE cnt[d] # av[d] + inc
  <2>1. recs'[m][id].count = [recs[m][id].count EXCEPT ![d] =
                                 recs[m][id].count[d] + 1]
    BY <1>4, <1>8, <1>11 DEF NextCount
  <2>2. dxt_mem_remaining' \in 0 .. dxt_mem_remaining
    BY <1>3, <1>6, <1>7, SegSizeAssumption
  <2>3. \A n \in Mods : \A i \in DOMAIN recs[n] :
           (n # m \/ i # id) => recs'[n][i].count = recs[n][i].count
    BY <1>8
  <2>4. Image(recs', Mods) = Bump(Image(recs, Mods), m, id, d)
    <3>1. IncrementHyp(recs, recs', Mods, m, id, d)
      BY <1>2, <1>3, <1>4, <1>8, <2>1, <2>3 DEF IncrementHyp
    <3>. QED
      BY <3>1, ImageIncrement
  <2>5. T' = [T EXCEPT ![m][id][d] = @ + 1]
    BY <1>9, <2>4 DEF Bump
  <2>6. id \in DOMAIN T[m]
    BY <1>3 DEF T
  <2>7. TraceLog!Record(m, id, d)
    BY <1>3, <1>7, <2>2, <2>5, <2>6 DEF TraceLog!Record, T
  <2>. QED
    BY <1>1, <1>2, <2>7 DEF TraceLog!Next, TraceLog!Mods, Mods,
                            TraceLog!Dirs, Dirs
<1>. QED
  BY <1>10, <1>11
\* the handoff of the log, for a map F from id to counts
HandedOff(F) ==
    {[id |-> i, write_count |-> F[i]["write"], read_count |-> F[i]["read"]] :
        i \in {j \in DOMAIN F : F[j]["write"] + F[j]["read"] # 0}}

(***************************************************************************)
(* Shutdown hands off exactly the records with a segment, with their      *)
(* counts, drops the manager's records and disables instrumentation; the  *)
(* budget is not credited back, as in the log.                            *)
(***************************************************************************)
LEMMA ShutdownMaps ==
    ASSUME RInv, NEW m \in Mods, Shutdown(m)
    PROVE  [TraceLog!Next]_TraceLog!avars
<1>1. /\ DOMAIN recs = Mods /\ runtime \in [Mods -> BOOLEAN] /\ runtime[m]
  BY DEF Shutdown, RInv, IInv, StateTyped
<1>2. /\ recs' = [recs EXCEPT ![m] = NoRecs]
      /\ runtime' = [runtime EXCEPT ![m] = FALSE]
      /\ instrumentation_disabled' = TRUE
      /\ dxt_mem_remaining' = dxt_mem_remaining
  BY DEF Shutdown
<1>3. T[m] = [i \in DOMAIN recs[m] |-> recs[m][i].count]
  BY DEF T
<1>4. buf' = [buf EXCEPT ![m] = HandedOff(T[m])]
  <2>1. buf' = [buf EXCEPT ![m] =
                  HandedOff([i \in DOMAIN recs[m] |-> recs[m][i].count])]
    BY DEF Shutdown, HandedOff
  <2>. QED
    BY <1>3, <2>1
<1>5. T' = [T EXCEPT ![m] = TraceLog!NoFiles]
  <2>1. DOMAIN recs' = Mods /\ recs'[m] = NoRecs
        /\ \A n \in Mods \ {m} : recs'[n] = recs[n]
    BY <1>1, <1>2
  <2>2. T'[m] = TraceLog!NoFiles
    BY <2>1 DEF T, NoRecs, TraceLog!NoFiles
  <2>. QED
    BY <2>1, <2>2 DEF T
<1>6. TraceLog!Shutdown(m)
  BY <1>1, <1>2, <1>4, <1>5 DEF TraceLog!Shutdown, HandedOff, T
<1>. QED
  BY <1>6 DEF TraceLog!Next, TraceLog!Mods, Mods

(* Quiescence and a crash change nothing. *)
LEMMA StutterMaps ==
    ASSUME Quiesced \/ Crashed \/ UNCHANGED vars
    PROVE  UNCHANGED TraceLog!avars
BY DEF Quiesced, Crashed, vars, TraceLog!avars, T

(* Every step of the managers is a step of the log or leaves it alone. *)
LEMMA NextMaps == RInv /\ [Next]_vars => [TraceLog!Next]_TraceLog!avars
<1>. SUFFICES ASSUME RInv, [Next]_vars PROVE [TraceLog!Next]_TraceLog!avars
  OBVIOUS
<1>1. CASE \E m \in Mods, id \in Ids, d \in Dirs : TraceCall(m, id, d)
  BY <1>1, TraceCallMaps
<1>2. CASE \E m \in Mods : TraceAppend(m)
  BY <1>2, TraceAppendMaps
<1>3. CASE \E m \in Mods : Shutdown(m)
  BY <1>3, ShutdownMaps
<1>4. CASE Quiesced \/ Crashed \/ UNCHANGED vars
  BY <1>4, StutterMaps
<1>. QED
  BY <1>1, <1>2, <1>3, <1>4 DEF Next

(***************************************************************************)
(* ImplementsTraceLog: for every budget, record size, segment size and    *)
(* first buffer size, the DXT managers of darshan-dxt.c (trace calls,     *)
(* buffer growth with its clamp, drops, and shutdown) implement the trace *)
(* log of DxtTraceLog under the mapping TraceLog.                         *)
(***************************************************************************)
THEOREM Refinement == Spec => ImplementsTraceLog
<1>1. Init => RInv /\ TraceLog!Init
  BY InitRInv, InitMaps
<1>2. RInv /\ [Next]_vars => RInv' /\ [TraceLog!Next]_TraceLog!avars
  BY NextRInv, NextMaps
<1>. QED
  BY <1>1, <1>2, PTL DEF Spec, TraceLog!Spec, ImplementsTraceLog
=============================================================================
