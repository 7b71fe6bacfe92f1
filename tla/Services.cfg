SPECIFICATION Spec
CONSTANTS
    p1 = p1
    p2 = p2
    f1 = f1
    f2 = f2
    s1 = s1
    Procs = {p1, p2}
    Files = {f1, f2}
    Syncs = {s1}
    None = None
    EventMax = 2
    RefMax = 2
    OutMax = 2
    Loads <- MCLoads
INVARIANTS
    
    PBExact
    
PROPERTIES
    StopsEnd
    
CHECK_DEADLOCK FALSE
