SPECIFICATION Spec
CONSTANTS
    NULL = NULL
    AUTO = AUTO
    EINVAL = EINVAL
    Sizes <- BoundarySizes
    FsFlags <- AllFsFlags
    FlagSets <- SomeFlags
    SectorSizes = {512, 4096, 1536}
    ClusterSizes = {AUTO, 1, 16, 128, 3}
    RootCounts = {AUTO, 16}
INVARIANTS TypeOK RegionsTile FatCoversData StructuresAligned HostAgrees SameAgain
