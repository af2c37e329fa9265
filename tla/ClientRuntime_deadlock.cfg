SPECIFICATION FairSpec
CONSTANTS
    SendFaults = 0
    RecvFaults = 1
    RestartFaults = 0
    HandlerFaults = 0
    Starts = 0
PROPERTIES ReconnectEnds
CHECK_DEADLOCK FALSE
