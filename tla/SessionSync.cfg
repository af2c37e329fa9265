SPECIFICATION FairSpec
CONSTANTS
    c1 = c1
    c2 = c2
    t1 = t1
    t2 = t2
    NoTrial = NoTrial
    Clients = {c1, c2}
    Trials = {t1, t2}
    MaxChanges = 2
    MaxReconnects = 1
INVARIANTS TypeOK CaughtUp
PROPERTIES AllAreTold
CHECK_DEADLOCK FALSE
