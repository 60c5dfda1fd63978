CONSTANTS
    NProcs = 2
    f1 = f1
    f2 = f2
    Ids <- MCIds
    NULL = NULL
    Recs <- MCRecsMalformed
    ModTable <- MCOneModule
    Mask = {"BASE", "PERF"}
    MaxRecords = 1
    CanFailDecode = FALSE
    CanFailAlloc = FALSE
SPECIFICATION Spec
INVARIANT RankIndexValid
