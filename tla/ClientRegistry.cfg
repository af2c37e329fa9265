SPECIFICATION FairSpec
CONSTANTS
    c1 = c1
    c2 = c2
    stim = stim
    resp = resp
    Clients = {c1, c2}
    Roles = {stim, resp}
    Required = {stim, resp}
    Reported = {"READY", "DEGRADED", "REJECTED"}
    HalfTimeout = 2
    ScanEvery = 2
    BarrierTimeout = 1
INVARIANTS HealthyIsFresh SilentIsDropped
PROPERTIES NoFalseDisconnect BarrierPassesLive BarrierReturns
