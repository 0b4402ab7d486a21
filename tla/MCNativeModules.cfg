SPECIFICATION Spec
CONSTANTS
    t1 = t1
    t2 = t2
    Threads = {t1, t2}
    BackEnds = {"Ark", "V8", "QuickJS", "JerryScript"}
    Names <- MCNames
    Lower <- MCLower
    Libraries <- MCLibraries
    MaxRequires = 2
    MaxOutside = 1
INVARIANTS
    ModuleIsAsked
    CodeIsRight
    CrashHasCause
PROPERTIES
    RequireReturns
CHECK_DEADLOCK FALSE
