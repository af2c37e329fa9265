SPECIFICATION ClockSpec
CONSTANTS
    c1 = c1
    c2 = c2
    Peers = {c1, c2}
    Offset <- MCOffset
    Leads = {0, 2}
    MaxTime = 4
    MaxSyncs = 1
    NoTime = NoTime
INVARIANTS OffsetWithinHalfRtt NeverEarly SkewBounded
CHECK_DEADLOCK FALSE
