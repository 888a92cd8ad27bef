SPECIFICATION FairSpec
CONSTANTS
    None = None
    Readers = {r1, r2}
    Paths = {p1, p2}
    Recordings = {"long", "short"}
    ResolutionOf <- TwoResolutions
    History <- TwoHistories
    Windows <- Ranges
    Stamps = {0}
    FirstBatch = 1
    FullBatch = 2
    Faults = FALSE
    Overlap = FALSE
    MaxRewrites = 0
INVARIANTS
    WorkerInv
    InOrderOnce
PROPERTIES
    TraversalEnds
