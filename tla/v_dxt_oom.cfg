CONSTANTS
    f1 = f1
    f2 = f2
    Ids <- MCIds
    MemMax = 16
    RecSize = 3
    SegSize = 2
    InitBuf = 2
    MaxCalls = 5
    SizeWrap = 64
    AllocCanFail = TRUE
SPECIFICATION Spec
INVARIANT OomRecoveredLocally
