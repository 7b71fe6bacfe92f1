SPECIFICATION Spec
CONSTANTS
    Procs = {"p", "q"}
    Threads = {1, 2, 3}
    ProcOf <- MCProcOf
    Areas = {1, 2, 3}
    Handles = {1, 2}
    Frames = {1, 2, 3}
    IOFrames = {10}
    Loads <- MCLoads
INVARIANTS
    RecordsExact
    FramesExact
    MapsWhatWasAsked
    
CHECK_DEADLOCK FALSE
