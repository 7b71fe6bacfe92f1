SPECIFICATION Spec
CHECK_DEADLOCK FALSE
CONSTANTS
    FreeTableLimit = 5
    PageSize = 2
    PTSize = 2
    HeapBase = 4
    HeapSize = 6
    Owner = o
    Others = {c1}
    Pages = {1, 2, 3, 4, 5}
    Foreign = {100}
    MaxBufs = 2
    MaxMappings = 3
    Loads <- MCLoads
    Requests <- MCRequests
    Wraps <- MCWraps
    LeakingFaults <- MCLeakingFaults
INVARIANTS
    
    BuffersExact
    StaleIsCovered
    NothingLeftBehind
