SPECIFICATION ApprovalsSpec
CONSTANTS
    k1 = k1
    k2 = k2
    k3 = k3
    k4 = k4
    t1 = t1
    x1 = x1
    x2 = x2
    id1 = id1
    p1 = p1
    b1 = b1
    s1 = s1
    s2 = s2
    c1 = c1
    c2 = c2
    Server = Server
    Human = Human
    NoBundle = NoBundle
    Nothing = Nothing
    Kind <- FourKinds
    NeverExpires = {}
    PinnedKind <- ThreeKinds
    SameTxKind <- JustK2
    PinnedWrite <- JustK1
    Target <- Targets
    Change <- Changes
    Identity <- SameIdentities
    Personal = {}
    Passport <- Passports
    Bundle = {}
    Request <- RedeemRequests
    Stager <- OneStager
    Caller <- Callers
    TTL = 1
    RedemptionTTL = 1
    MaxSkew = 0
    MaxApprovals = 2
    MaxErased = 0
    MaxTime = 3
    MaxVersion = 3
INVARIANTS
    SingleUse
    OnlyTheApprovedCall
    OnlyUncheckedWritesDrift
PROPERTIES
    ImplementsAuthority
    KeepsTheCards
SYMMETRY CallerSymmetry
CHECK_DEADLOCK FALSE
