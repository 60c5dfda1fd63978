CONSTANTS
    NProcs = 2
    f1 = f1
    f2 = f2
    Ids <- MCIds
    NULL = NULL
    Recs <- MCRecs
    ModTable <- MCModules
    Mask = {"BASE", "PERF"}
    MaxRecords = 1
    CanFailDecode = TRUE
    CanFailAlloc = FALSE
SPECIFICATION Spec
INVARIANT ModuleIsolation
