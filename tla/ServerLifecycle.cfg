SPECIFICATION FairSpec
CONSTANTS
    p1 = p1
    p2 = p2
    Peers = {p1, p2}
    Trial = Trial
    None = None
    NoSummary = NoSummary
INVARIANTS TypeOK SummaryAgreesWithLog CommandsAreLogged EndsClean
PROPERTIES CommandEnds
CHECK_DEADLOCK FALSE
