SPECIFICATION Spec
CONSTANTS
    Root = r
    Handles = {r, f1, f2}
    NULL = NULL
    FREED = FREED
    LfnExtras = {0, 1}
    Geoms <- OnlyFat16
    Bps = 2
    DirentSize = 1
    SizeMod = 16
    RealSizes = {5}
    VirtSizes = {3}
    Labels = {TRUE, FALSE}
    Serials = {1, 2}
    AllocMayFail = TRUE
    AppMayFree = TRUE
    MaxLock = 2
    MaxCnt = 2
    MaxFileCnt = 2
SYMMETRY Interchangeable
VIEW Observable
CHECK_DEADLOCK FALSE
INVARIANTS LockedIsClean LookupSound CleanIsCurrent
PROPERTIES FrozenWhileLocked ImplementsDriveLock
