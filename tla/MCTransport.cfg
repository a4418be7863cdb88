SPECIFICATION Spec
CONSTANTS
    Transports = {t1, t2, t3}
    Views <- SomeViews
    MaxLock = 4
INVARIANTS TypeOK LockAccounting RunningSeesLayout ConnectionMatchesFlag
PROPERTIES ServedLayoutIsStable FreeStopsAll
CHECK_DEADLOCK FALSE
