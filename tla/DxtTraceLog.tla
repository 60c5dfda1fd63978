----------------------------- MODULE DxtTraceLog -----------------------------
(***************************************************************************)
(* What the DXT trace managers promise, without buffers: each manager      *)
(* keeps a log of how many write and read segments it recorded per file,   *)
(* out of one memory budget.  The log only grows, one segment at a time    *)
(* and only for a file it has opened; the budget only shrinks and never   *)
(* goes below zero; nothing is recorded once instrumentation is disabled;  *)
(* shutdown hands off every file with a segment, with its counts, and      *)
(* disables instrumentation.                                               *)
(***************************************************************************)
EXTENDS Naturals

CONSTANTS Ids, MemMax

Mods == {"POSIX", "MPIIO"}
Dirs == {"write", "read"}
Counts == [Dirs -> Nat]
Handoff == [id: Ids, write_count: Nat, read_count: Nat]

VARIABLES
    budget,    \* memory left for tracing
    traced,    \* per manager: file -> segments recorded per direction
    live,      \* per manager: its runtime exists
    disabled,  \* instrumentation is off for good
    out        \* per manager: the records handed off at shutdown

avars == <<budget, traced, live, disabled, out>>

NoFiles == [i \in {} |-> [d \in Dirs |-> 0]]

Init ==
    /\ budget = MemMax
    /\ traced = [m \in Mods |-> NoFiles]
    /\ live = [m \in Mods |-> FALSE]
    /\ disabled = FALSE
    /\ out = [m \in Mods |-> {}]

\* the manager's runtime comes up (a call that records nothing)
Start(m) ==
    /\ ~disabled
    /\ live' = [live EXCEPT ![m] = TRUE]
    /\ UNCHANGED <<budget, traced, disabled, out>>

\* a file gets an empty log, paid for out of the budget
Open(m, id) ==
    /\ ~disabled
    /\ id \notin DOMAIN traced[m]
    /\ budget' \in 0 .. budget
    /\ traced' = [traced EXCEPT ![m] =
                    [i \in DOMAIN @ \cup {id} |->
                        IF i = id THEN [d \in Dirs |-> 0] ELSE @[i]]]
    /\ live' = [live EXCEPT ![m] = TRUE]
    /\ UNCHANGED <<disabled, out>>

\* one segment of an open file is recorded, the budget may shrink
Record(m, id, d) ==
    /\ ~disabled /\ live[m]
    /\ id \in DOMAIN traced[m]
    /\ budget' \in 0 .. budget
    /\ traced' = [traced EXCEPT ![m][id][d] = @ + 1]
    /\ UNCHANGED <<live, disabled, out>>

\* the log is handed off and dropped; instrumentation is disabled
Shutdown(m) ==
    /\ live[m]
    /\ out' = [out EXCEPT ![m] =
                 {[id |-> i, write_count |-> traced[m][i]["write"],
                   read_count |-> traced[m][i]["read"]] :
                    i \in {j \in DOMAIN traced[m] :
                             traced[m][j]["write"] + traced[m][j]["read"] # 0}}]
    /\ traced' = [traced EXCEPT ![m] = NoFiles]
    /\ live' = [live EXCEPT ![m] = FALSE]
    /\ disabled' = TRUE
    /\ UNCHANGED budget

Next ==
    \E m \in Mods :
        \/ Start(m)
        \/ \E id \in Ids : Open(m, id)
        \/ \E id \in Ids, d \in Dirs : Record(m, id, d)
        \/ Shutdown(m)

Spec == Init /\ [][Next]_avars
=============================================================================
