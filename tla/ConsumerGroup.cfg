SPECIFICATION GroupSpec
CONSTANTS
    c1 = c1
    c2 = c2
    ev1 = ev1
    ev2 = ev2
    bad = bad
    Consumer <- Consumers
    Event <- EventsAndBad
    Undecodable <- Bad
    ReadCount = 2
    MinIdle = 2
    HandlerTime = 1
    MaxEntries = 3
    MaxFaults = 1
    MaxExpiries = 1
INVARIANTS
    AckedMeansEffectRan
    OverlapNeedsALongPage
    RerunsAreAccounted
PROPERTIES
    ArrivedEventuallyTakesEffect
