SPECIFICATION Spec
CONSTANTS
    Missing = Missing
    None = None
    Computed = Computed
    BitBases = {"A", "B"}
    OpaqueBases = {}
    EventBases = {}
    NumSlots = 4
    SlotBase <- ConcatBase
    From <- ConcatFrom
    BaseWidth <- ConcatWidth
    Slices = {}
    Selected = {3, 4}
    Symbols = {"0", "1", "x"}
    MaxTick = 3
    MaxCount = 1
    MaxRecords = 3
    Ticks = {0, 1, 2}
    Values <- ConcatValues
    Counts = {}
    Histories <- MCHistories
    Kinds = {"vcd", "wdb"}
    Windows <- SomeWindows
    Batches <- SomeBatches
    DriverSets <- ComputedDriver
    PointTicks = {1, 2}
INVARIANTS
    EngineInv
    AnswersExact
