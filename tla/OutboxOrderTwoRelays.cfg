SPECIFICATION RelaySpec
CONSTANTS
    w1 = w1
    w2 = w2
    e1 = e1
    e2 = e2
    r1 = r1
    r2 = r2
    NoWriter = NoWriter
    Writer <- Writers
    Entity <- Entities
    Relay <- TwoRelays
    BatchSize = 2
    MaxLen = 3
    MaxRows = 3
    MaxCrashes = 1
    MaxOutages = 1
INVARIANTS
    PerEntityCommitOrder
CHECK_DEADLOCK FALSE
