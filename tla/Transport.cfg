SPECIFICATION FairSpec
CONSTANTS
    c1 = c1
    Clients = {c1}
    Wires <- MCWires
    MaxStarts = 3
    MaxSent = 3
INVARIANTS TypeOK
PROPERTIES ImplementsContract Heard
CHECK_DEADLOCK FALSE
