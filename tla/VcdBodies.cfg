SPECIFICATION Spec
CONSTANTS
    None = None
    Signals = {"A", "E", "R"}
    Declared <- DeclaredAll
    MaxTick = 3
    Bodies <- AllBodies
    MaxTokens = 5
    Selections <- AandE
    Ends = {1, 2}
    MaxChunks = 3
    QueuedBatches = 1
    BatchLen = 2
    Faults = {}
INVARIANTS
    OpenAgrees
    PrefixExact
    PositionsExact
CHECK_DEADLOCK FALSE
