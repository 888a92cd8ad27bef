SPECIFICATION Spec
CONSTANTS
    Missing = Missing
    None = None
    Computed = Computed
    BitBases = {"A"}
    OpaqueBases = {}
    EventBases = {}
    NumSlots = 3
    SlotBase <- RepeatBase
    From <- RepeatFrom
    BaseWidth <- MixedWidth
    Slices = {}
    Selected = {2, 3}
    Symbols = {"0", "1", "x"}
    MaxTick = 3
    MaxCount = 1
    MaxRecords = 3
    Ticks = {0, 1, 2}
    Values <- MixedValues
    Counts = {}
    Histories <- MCHistories
    Kinds = {"wdb"}
    Windows <- SomeWindows
    Batches <- SomeBatches
    DriverSets <- RepeatDriver
    PointTicks = {1, 2}
INVARIANTS
    StatesSound
