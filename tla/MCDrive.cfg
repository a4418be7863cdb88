SPECIFICATION Spec
CONSTANTS
    Root = r
    Handles = {r, f1, f2}
    NULL = NULL
    FREED = FREED
    LfnExtras = {0}
    Geoms <- BothGeoms
    Bps = 2
    DirentSize = 1
    SizeMod = 16
    RealSizes = {5}
    VirtSizes = {0,3,15}
    Labels = {FALSE}
    Serials = {1}
    AllocMayFail = FALSE
    AppMayFree = FALSE
    MaxLock = 1
    MaxCnt = 2
    MaxFileCnt = 2
SYMMETRY Interchangeable
VIEW Observable
INVARIANTS TypeOK CleanIsCurrent TreeConsistent TilesDataArea LookupSound
