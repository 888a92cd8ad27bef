SPECIFICATION Spec
CONSTANTS
    None = None
    Readers = {r1, r2}
    Paths = {p1}
    Recordings = {"a", "b", "z"}
    ResolutionOf <- ThreeResolutions
    History <- ShortHistories
    Windows <- All
    Stamps = {0, 1, 2}
    FirstBatch = 1
    FullBatch = 1
    Faults = TRUE
    Overlap = TRUE
    MaxRewrites = 2
INVARIANTS
    IdentityTrue
    IdleClean
    ExactlyOnce
PROPERTY
    OpenFresh
