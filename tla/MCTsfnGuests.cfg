\* Three threads, one of them without a reference; room for one datum (and one
\* more); uv_async_send may fail.
SPECIFICATION Spec
CONSTANTS
    t1 = t1
    t2 = t2
    t3 = t3
    Threads = {t1, t2, t3}
    Holders = {t1, t2}
    Guests = {t3}
    Blockers = {t1, t2}
    MaxQueueSize = 1
    AsyncSendMayFail = TRUE
    MaxCalls = 2
SYMMETRY OwnersSymmetry
INVARIANTS
    TypeOK
    QueueBound
    ExactlyOnceInOrder
    GracefulCloseDeliversAll
CHECK_DEADLOCK FALSE
