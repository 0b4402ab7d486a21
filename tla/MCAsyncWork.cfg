\* More work than pool threads; each work can be queued again.
SPECIFICATION WorkFairSpec
CONSTANTS
    w1 = w1
    w2 = w2
    w3 = w3
    p1 = p1
    p2 = p2
    Works = {w1, w2, w3}
    PoolThreads = {p1, p2}
    NoWork = NoWork
    MaxQueues = 2
INVARIANTS
    ToldOnceWhatHappened
    DeletedUntouched
PROPERTIES
    QueuedIsCompleted
CHECK_DEADLOCK FALSE
