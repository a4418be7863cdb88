SPECIFICATION Spec
CONSTANTS
    Drives <- WithEmpty
    Lengths <- SomeLengths
    BackupSector = 2
INVARIANTS ReadStaysInRanges
