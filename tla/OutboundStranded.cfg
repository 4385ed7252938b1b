SPECIFICATION OutboundSpec
CONSTANTS
    d1 = d1
    w1 = w1
    w2 = w2
    NoDelivery = NoDelivery
    NoWorker = NoWorker
    Delivery <- OneDelivery
    Worker <- Workers
    MaxAttempts = 3
    MaxSlips = 0
    MaxStale = 0
    MaxMisses = 1
INVARIANTS
    PendingHasARunner
CHECK_DEADLOCK FALSE
