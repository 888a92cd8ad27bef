SPECIFICATION GhwSpec
CONSTANTS
    Active <- MCActive
    Recipes <- MCRecipes
    Literals = 2
    RanksPerGroup = 2
    IndexLimit = 54
    Window = 5
    None = None
    Openers = {o1, o2}
    Files = {1, 2}
    Bodies <- MCBodies
    Cuts <- MCCuts
    Selections <- MCSelections
    Ends = {1, 3}
    CacheLimit = 60
    MaxOpens = 3
INVARIANTS
    OpenTrue
    ReportsExact
SYMMETRY Threads
CHECK_DEADLOCK FALSE
