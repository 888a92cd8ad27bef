SPECIFICATION Spec
CONSTANTS
    None = None
    Threads = {t1, t2}
    Paths = {p1, p2}
    Recordings = {"a", "b"}
    Stamps = {0, 1}
    Faults = TRUE
    MaxRewrites = 1
INVARIANTS
    IdentityTrue
    OpenFresh
    IdleClean
