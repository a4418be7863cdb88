SPECIFICATION Spec
CONSTANTS
    Tables <- SomeTables
    Windows <- AllWindows
    Bps = 8
    NibBase = 4
INVARIANTS Fat12TableRight
