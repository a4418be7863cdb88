CONSTANTS
    Clients = {c1, c2}
    HEAD = head
    Views <- TheViews
    Posix = FALSE
    MaxLock = 2
    MaxDrift = 1
SPECIFICATION Spec
INVARIANTS TypeOK CallsAloneAreSafe ServedUnderLock
PROPERTY StopReturns
CHECK_DEADLOCK FALSE
