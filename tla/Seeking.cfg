SPECIFICATION Spec
CONSTANTS
    Missing = Missing
    None = None
    Computed = Computed
    BitBases = {"A", "B"}
    OpaqueBases = {}
    EventBases = {}
    NumSlots = 2
    SlotBase <- WholeBase
    From <- WholeFrom
    BaseWidth <- ConcatWidth
    Slices = {}
    Selected = {1, 2}
    Symbols = {"0", "1", "x"}
    MaxTick = 3
    MaxCount = 1
    MaxRecords = 3
    Ticks = {0, 1, 3}
    Values <- WholeValues
    Counts = {}
    Histories <- MCHistories
    Kinds = {"vcd", "fsdb", "shm", "wlf", "wdb"}
    Windows <- SomeWindows
    Batches <- SomeBatches
    DriverSets <- FirstDriver
    PointTicks = {0, 1, 2, 3}
INVARIANTS
    CachesFaithful
    AnswersExact
