CONSTANTS
    Clients = {c1, c2}
    HEAD = head
    Views <- TheViews
    Posix = TRUE
    MaxLock = 2
    MaxDrift = 1
SPECIFICATION Spec
INVARIANT ServingHasSocket
CHECK_DEADLOCK FALSE
