CONSTANTS
    NProcs = 2
    f1 = f1
    f2 = f2
    Ids <- MCIds
    NULL = NULL
    Recs <- MCRecs
    ModTable <- MCOneModule
    Mask = {"BASE", "TOTAL"}
    MaxRecords = 1
    CanFailDecode = FALSE
    CanFailAlloc = FALSE
SPECIFICATION Spec
INVARIANT NoCrash
