SPECIFICATION FairSpec
CONSTANTS
    Plans = {p1}
    NoPlan = NoPlan
    Workers = {w1}
    MaxAttempts = 3
    MaxCrashes = 0
    MaxStalls = 0
PROPERTY StalledChecksEnd
CHECK_DEADLOCK FALSE
