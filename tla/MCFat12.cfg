SPECIFICATION Spec
CONSTANTS
    Tables <- SomeTables
    Windows <- FirstWindows
    Bps = 8
    NibBase = 4
INVARIANTS TypeOK Fat12LinksRight
