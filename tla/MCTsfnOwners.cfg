\* Every thread uses the function under a reference of its own; one caller may
\* block; uv_async_send works, as it does in libuv.
SPECIFICATION FairSpec
CONSTANTS
    t1 = t1
    t2 = t2
    t3 = t3
    Threads = {t1, t2}
    Holders = {t1, t2}
    Guests = {}
    Blockers = {t1}
    MaxQueueSize = 1
    AsyncSendMayFail = FALSE
    MaxCalls = 3
INVARIANTS
    WorkIsSignalled
    ReferencesKeepOpen
    NoNotificationMissed
PROPERTIES
    ContractHolds
    LoopCompletes
CHECK_DEADLOCK FALSE
