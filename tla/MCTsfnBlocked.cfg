\* Two callers block at the same time, room for two data.
SPECIFICATION FairSpec
CONSTANTS
    t1 = t1
    t2 = t2
    t3 = t3
    Threads = {t1, t2, t3}
    Holders = {t1, t2, t3}
    Guests = {}
    Blockers = {t2, t3}
    MaxQueueSize = 2
    AsyncSendMayFail = FALSE
    MaxCalls = 2
PROPERTIES
    BlockedSenderResumes
CHECK_DEADLOCK FALSE
