SPECIFICATION FairSpec
CONSTANTS
    None = None
    Signals = {"A", "B"}
    Declared <- DeclaredBits
    MaxTick = 3
    Bodies <- StreamBodies
    MaxTokens = 0
    Selections <- OnlyA
    Ends = {3}
    MaxChunks = 3
    QueuedBatches = 2
    BatchLen = 2
    Faults = {"spawn", "io", "short", "panic"}
INVARIANTS
    ReadsSerially
    MemoryBounded
PROPERTIES
    ReadReturns
