\* Two threads and the worker itself send two messages each.
SPECIFICATION ChannelFairSpec
CONSTANTS
    t1 = t1
    t2 = t2
    Senders = {t1, t2}
    Worker = Worker
    MaxSends = 2
INVARIANTS
    InOrderOnce
    MessageIsAnnounced
PROPERTIES
    MessageIsExecuted
CHECK_DEADLOCK FALSE
