SPECIFICATION FairOutboundSpec
CONSTANTS
    d1 = d1
    w1 = w1
    w2 = w2
    NoDelivery = NoDelivery
    NoWorker = NoWorker
    Delivery <- OneDelivery
    Worker <- Workers
    MaxAttempts = 3
    MaxSlips = 2
    MaxStale = 1
    MaxMisses = 1
INVARIANTS
    OneCopy
    RowAccountsForCopies
    WithdrawnStopsTheNextAttempt
    OpenHasItsJob
PROPERTIES
    ClosedIsFinal
    EveryDeliveryEnds
CHECK_DEADLOCK FALSE
