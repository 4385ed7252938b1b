SPECIFICATION FairRunnerSpec
CONSTANTS
    j1 = j1
    j2 = j2
    w1 = w1
    w2 = w2
    x1 = x1
    x2 = x2
    Job <- OneJob
    Worker <- Workers
    Call <- OneCall
    ClaimBatch = 2
    MaxApprovals = 0
    MaxFaults = 1
PROPERTIES
    ClaimedJobIsAccountedFor
