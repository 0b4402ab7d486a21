\* The monitor is started and cancelled up to three times.
SPECIFICATION FairSpec
CONSTANTS
    MaxSessions = 3
INVARIANTS
    TypeOK
    HandshakeBalance
PROPERTIES
    LoopIsServed
    CancelReturns
CHECK_DEADLOCK FALSE
