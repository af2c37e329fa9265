SPECIFICATION FairSpec
CONSTANTS
    c1 = c1
    d1 = d1
    Clients = {c1}
    Doctors = {d1}
    ClientSetups <- MCClientSetups
    ServerConfigs <- MCServerConfigs
    DoctorConfigs <- MCDoctorConfigs
    Installed <- MCInstalled
    MaxInFlight = 2
    Terminals = 1
INVARIANTS TypeOK TermsAgree ReadyIsOfThisRun ReportIsTrue
PROPERTIES DoctorReturns
CHECK_DEADLOCK FALSE
