SPECIFICATION FairSpec
CONSTANTS
    IPs = {a, b}
    Profiles = {p}
    MaxBootstrapsGlobal = 1
    MaxBootstrapsPerIP = 2
    MaxSessionsGlobal = 2
    MaxSessionsPerIP = 1
    MaxSessionsPerProfile = 2
    MaxStreamsGlobal = 2
    MaxStreamsPerProfile = 2
    MaxBackendDialsInFlight = 1
    MaxDialsPerProfile = 1
    MaxPendingGlobal = 3
    ControlReserve = 1
    ClosedTokenLimit = 1
    MaxBootstraps = 3
    MaxSessions = 2
    MaxStreams = 2
    MaxCharge = 1
INVARIANTS TypeOK CountsExact BootstrapNamesItsSession ShutdownComplete
PROPERTIES ShutdownEnds
CHECK_DEADLOCK FALSE
