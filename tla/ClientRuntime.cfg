SPECIFICATION FairSpec
CONSTANTS
    SendFaults = 2
    RecvFaults = 1
    RestartFaults = 1
    HandlerFaults = 1
    Starts = 1
INVARIANTS TypeOK ViewAgrees LockHeldByReconnect
PROPERTIES NoRegisterAfterClose HbReconnectEnds
CHECK_DEADLOCK FALSE
