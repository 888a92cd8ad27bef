SPECIFICATION Spec
CONSTANTS
    None = None
    Bases = 2
    Bits = {0, 1}
    MaxTick = 3
    MaxRecords = 3
    Lookback = 1
    MaxWidth = 4
    Names = {1, 2}
    Indices = {0, 1, 2}
    MaxCalls = 3
    FsdbTrees <- MCFsdbTrees
    FsdbRecords <- MCFsdbRecords
    FstTrees <- MCFstTrees
    FstBodies <- MCFstBodies
    ShmDirectories <- MCShmDirectories
    ShmTrees <- MCShmTrees
    Waves <- MCWaves
    Trees <- MCTrees
    Texts <- MCTexts
INVARIANTS
    ImportsExact
    ReadsExact
    PointsExact
    LockDiscipline
    RoutesExact
    HandlesExact
    NamesExact
CHECK_DEADLOCK FALSE
