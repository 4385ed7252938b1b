SPECIFICATION FairRunnerSpec
CONSTANTS
    j1 = j1
    j2 = j2
    w1 = w1
    w2 = w2
    x1 = x1
    x2 = x2
    Job <- Jobs
    Worker <- Workers
    Call <- SharedCall
    ClaimBatch = 2
    MaxApprovals = 1
    MaxFaults = 1
INVARIANTS
    OneLoopPerRun
PROPERTIES
    ParkedStayOwed
    InFlightComesToRest
    UndeliveredDecisionWakes
