SPECIFICATION FairKeySpec
CONSTANTS
    c1 = c1
    c2 = c2
    d1 = d1
    d2 = d2
    NoDigest = NoDigest
    Attempt <- Attempts
    Digest <- Digests
    Window = 2
    MaxRun = 1
    MaxTime = 7
    MaxTries = 4
    MaxFaults = 2
INVARIANTS
    ReplayIsTheRequestsOwn
    RetryReachesItsResult
PROPERTIES
    RunsOncePerWindow
    HeldKeyComesBack
CHECK_DEADLOCK FALSE
