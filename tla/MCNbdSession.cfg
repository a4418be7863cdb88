CONSTANTS
    Requests <- TheRequests
    Bytes = 4
    OffMod = 16
    BuffLen = 2
    Drivers = {"server", "client", "client nonblock"}
    MaxAsked = 3
SPECIFICATION Spec
INVARIANT TypeOK
PROPERTIES ImplementsService AnswersArrive SessionEnds
CHECK_DEADLOCK FALSE
