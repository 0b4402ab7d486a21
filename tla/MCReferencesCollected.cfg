\* Ark; the program counts up references whose object is gone.
SPECIFICATION Spec
CONSTANTS
    Engines = {"ark"}
    Objects = {o1, o2}
    MaxRefs = 3
    MaxCount = 2
    MaxData = 2
    MaxDepth = 2
    None = None
    UsesCollected = TRUE
INVARIANTS
    ReachableIsLive
CHECK_DEADLOCK FALSE
