SPECIFICATION Spec
CONSTANTS
    p1 = p1
    p2 = p2
    Peers = {p1, p2}
    MaxRounds = 3
    MaxRepeats = 2
    MaxSilent = 1
    DedupSize = 2
SYMMETRY Symmetry
INVARIANTS TypeOK ResultsAreOfRound AcksAreTimed
PROPERTIES RunsOnce
CHECK_DEADLOCK FALSE
