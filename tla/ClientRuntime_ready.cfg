SPECIFICATION Spec
CONSTANTS
    SendFaults = 0
    RecvFaults = 0
    RestartFaults = 0
    HandlerFaults = 0
    Starts = 0
INVARIANTS ReadyIsKept
CHECK_DEADLOCK FALSE
