SPECIFICATION FairApprovalsSpec
CONSTANTS
    k1 = k1
    k2 = k2
    k3 = k3
    k4 = k4
    t1 = t1
    x1 = x1
    x2 = x2
    id1 = id1
    p1 = p1
    b1 = b1
    s1 = s1
    s2 = s2
    c1 = c1
    c2 = c2
    Server = Server
    Human = Human
    NoBundle = NoBundle
    Nothing = Nothing
    Kind <- Kinds
    NeverExpires <- JustK2
    PinnedKind = {}
    SameTxKind = {}
    PinnedWrite = {}
    Target <- Targets
    Change <- OneChange
    Identity <- OneIdentity
    Personal = {}
    Passport <- Passports
    Bundle <- OneBundle
    Request <- LiveRequests
    Stager <- Stagers
    Caller = {}
    TTL = 1
    RedemptionTTL = 1
    MaxSkew = 1
    MaxApprovals = 2
    MaxErased = 0
    MaxTime = 5
    MaxVersion = 1
PROPERTIES
    PendingIsEventuallySettled
    DecidedWithinItsWindow
CHECK_DEADLOCK FALSE
