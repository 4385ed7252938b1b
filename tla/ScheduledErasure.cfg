SPECIFICATION ScheduleSpec
CONSTANTS
    a1 = a1
    a2 = a2
    r1 = r1
    r2 = r2
    Alarm <- Alarms
    Rep <- Reps
    MaxAttempts = 2
    Grace = 2
    RecoveryGrace = 1
    RetryDelay = 1
    MaxTime = 4
    MaxVersion = 3
    MaxFaults = 2
INVARIANTS
    ErasureIsHonoured
CHECK_DEADLOCK FALSE
