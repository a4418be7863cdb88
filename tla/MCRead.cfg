SPECIFICATION Spec
CONSTANTS
    Drives <- NoneEmpty
    Lengths <- SomeLengths
    BackupSector = 2
INVARIANTS TypeOK ReadIsImage BufferInStep
PROPERTIES ReadReturns
