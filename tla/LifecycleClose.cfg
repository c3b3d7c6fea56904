SPECIFICATION LifecycleSpec
CONSTANTS
    s1 = s1
    s2 = s2
    SIGTERM = SIGTERM
    SIGINT = SIGINT
    Sockets = {s1, s2}
    Signals = {SIGTERM, SIGINT}
    MaxAttempts = 3
    MaxRequests = 1
    MaxTrouble = 2
CHECK_DEADLOCK FALSE
INVARIANT ShutdownReleases
