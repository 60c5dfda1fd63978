CONSTANTS
    NProcs = 2
    f1 = f1
    f2 = f2
    Ids <- MCIds
    Recs <- MCRecs
    ModTable <- MCOneModule
    Mask = {"BASE", "FILE", "PERF"}
    MaxRecords = 4
    CanFailDecode = FALSE
    CanFailAlloc = FALSE
    NULL = NULL
SPECIFICATION Spec
SYMMETRY MCSymmetry
INVARIANTS
    TypeOK
    ClassificationFaithful
    SlowestTimeFaithful
    PerfConservation
    CalcPerfFindsSlowest
    FileTallyConsistent
