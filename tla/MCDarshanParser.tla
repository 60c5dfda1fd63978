--------------------------- MODULE MCDarshanParser ---------------------------
(***************************************************************************)
(* Model-checking instances of DarshanParser: two record ids, two ranks    *)
(* and small times.  Per-rank records carry no slowest-rank time; shared   *)
(* (rank -1) records carry one below or above the per-rank I/O times      *)
(* (1 or 3, against 1 or 2), as a runtime reduction may produce.            *)
(***************************************************************************)
EXTENDS DarshanParser, TLC

CONSTANTS f1, f2

MCIds == {f1, f2}

\* the operation counters of a record: read-only or write-only access
Access == {[reads |-> 1, writes |-> 0], [reads |-> 0, writes |-> 1]}

RecsOver(ranks) ==
  {x \in
    {[id |-> i, rank |-> k, meta |-> m, rw |-> 1,
      slowest |-> s, reads |-> a.reads, writes |-> a.writes, bytes |-> 1] :
        i \in MCIds, k \in ranks, m \in {0, 1}, a \in Access,
        s \in {0, 1, 3}} :
    (x.rank = -1) = (x.slowest # 0)}

\* records of a well-formed log: ranks -1 .. nprocs - 1
MCRecs == RecsOver(-1 .. NProcs - 1)

\* well-formed records whose shared slowest-rank time is always 3
MCRecsCoarse == {x \in MCRecs : x.slowest \in {0, 3}}

\* records of a malformed log: one rank equal to nprocs
MCRecsMalformed == RecsOver(-1 .. NProcs)

\* a log with a single POSIX module
MCOneModule == <<"POSIX">>

\* a log with two aggregated modules, a print-only one and a DXT one
MCModules == <<"POSIX", "MPIIO", "OTHER", "DXT">>

MCSymmetry == Permutations(MCIds)

=============================================================================
