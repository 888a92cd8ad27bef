SPECIFICATION FairSpec
CONSTANTS
    None = None
    Ids = {1, 2, 3}
    Kind <- KindOf
    PointTypes = {1}
    MaxOccurrences = 2
    Readers = {r1, r2}
    Databases <- MCDatabases
    Reads <- MCReads
    Points <- MCPoints
    LastTick = 2
    FirstBatch = 1
    LaterBatch = 2
    Faults = {"session"}
INVARIANTS
    SessionInv
    SampleExact
    CleanEnds
PROPERTIES
    KeepsPromise
    ReadReturns
