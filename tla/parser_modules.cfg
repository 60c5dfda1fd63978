CONSTANTS
    NProcs = 2
    f1 = f1
    f2 = f2
    Ids <- MCIds
    NULL = NULL
    Recs <- MCRecsCoarse
    ModTable <- MCModules
    Mask = {"BASE", "TOTAL", "FILE", "PERF", "SHOW_INCOMPLETE"}
    MaxRecords = 2
    CanFailDecode = TRUE
    CanFailAlloc = TRUE
SPECIFICATION Spec
SYMMETRY MCSymmetry
INVARIANTS
    ClassificationFaithful
    PerfConservation
