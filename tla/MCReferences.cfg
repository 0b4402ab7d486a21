\* Three back ends, two objects, three references, finalizers two deep.
SPECIFICATION Spec
CONSTANTS
    Engines = {"ark", "quickjs", "jerryscript"}
    Objects = {o1, o2}
    MaxRefs = 3
    MaxCount = 2
    MaxData = 2
    MaxDepth = 2
    None = None
    UsesCollected = FALSE
SYMMETRY ObjectSymmetry
INVARIANTS
    ReachableIsLive
    PinsBalance
    FinalizerAccounts
    ListSound
CHECK_DEADLOCK FALSE
