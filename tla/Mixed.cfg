SPECIFICATION Spec
CONSTANTS
    Missing = Missing
    None = None
    Computed = Computed
    BitBases = {"A"}
    OpaqueBases = {"R"}
    EventBases = {"E"}
    NumSlots = 4
    SlotBase <- MixedBase
    From <- MixedFrom
    BaseWidth <- MixedWidth
    Slices = {2}
    Selected = {1, 2, 3, 4}
    Symbols = {"0", "1", "x"}
    MaxTick = 3
    MaxCount = 2
    MaxRecords = 2
    Ticks = {0, 1, 2}
    Values <- MixedValues
    Counts = {0, 1, 2}
    Histories <- MCHistories
    Kinds = {"vcd", "ghw", "fst", "wlf"}
    Windows <- SomeWindows
    Batches <- SomeBatches
    DriverSets <- SomeDrivers
    PointTicks = {1, 2}
INVARIANTS
    TypeOK
    CachesFaithful
    AnswersExact
    InOrder
