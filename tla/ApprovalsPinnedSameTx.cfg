SPECIFICATION ApprovalsSpec
CONSTANTS
    k1 = k1
    k2 = k2
    k3 = k3
    k4 = k4
    t1 = t1
    x1 = x1
    x2 = x2
    id1 = id1
    p1 = p1
    b1 = b1
    s1 = s1
    s2 = s2
    c1 = c1
    c2 = c2
    Server = Server
    Human = Human
    NoBundle = NoBundle
    Nothing = Nothing
    Kind <- OneKind
    NeverExpires = {}
    PinnedKind <- OneKind
    SameTxKind <- OneKind
    PinnedWrite = {}
    Target <- Targets
    Change <- OneChange
    Identity <- OneIdentity
    Personal = {}
    Passport = {}
    Bundle = {}
    Request <- PinnedSameTxRequests
    Stager <- OneStager
    Caller <- OneCaller
    TTL = 1
    RedemptionTTL = 1
    MaxSkew = 0
    MaxApprovals = 1
    MaxErased = 0
    MaxTime = 4
    MaxVersion = 3
INVARIANTS
    AppliedAtTheApprovedVersion
CHECK_DEADLOCK FALSE
