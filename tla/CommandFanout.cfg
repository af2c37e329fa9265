SPECIFICATION FairSpec
CONSTANTS
    p1 = p1
    p2 = p2
    Peers = {p1, p2}
    arm = arm
    Commands = {arm}
    AckCommands = {arm}
    AckTimeout = 2
INVARIANTS TypeOK OkMeansApplied CleanAfterSuccess GroupComplete
PROPERTIES ImplementsContract EveryCommandReturns PendingDrains
CHECK_DEADLOCK FALSE
