\* One synchronous and one asynchronous key may be registered again while
\* their own hook runs.
SPECIFICATION FairSpec
CONSTANTS
    SyncHooks = {s1, s2}
    AsyncHooks = {a1, a2}
    s1 = s1
    s2 = s2
    a1 = a1
    a2 = a2
    NoHook = NoHook
    ReusedKeys = {s2, a2}
    MaxAdds = 5
INVARIANTS
    WaitingMatchesStarted
    NoHookLost
PROPERTIES
    RunsInTurn
    CleanupTerminates
CHECK_DEADLOCK FALSE
