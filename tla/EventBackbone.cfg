SPECIFICATION BackboneSpec
CONSTANTS
    w1 = w1
    e1 = e1
    r1 = r1
    r2 = r2
    c1 = c1
    c2 = c2
    NoWriter = NoWriter
    Writer <- Writers
    Entity <- Entities
    Relay <- Relays
    Consumer <- OneConsumer
    BatchSize = 2
    MaxLen = 8
    MaxRows = 2
    MaxCrashes = 1
    MaxOutages = 1
    ReadCount = 2
    MinIdle = 2
    HandlerTime = 1
    MaxFaults = 1
    MaxExpiries = 0
PROPERTIES
    DeliversEveryCommittedEvent
CHECK_DEADLOCK FALSE
