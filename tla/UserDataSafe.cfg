SPECIFICATION FairDataSpec
CONSTANTS
    p1 = p1
    p2 = p2
    u1 = u1
    u2 = u2
    s1 = s1
    s2 = s2
    Long = Long
    Short = Short
    Blank = Blank
    Processes <- MCProcesses
    Users <- MCUsers
    Sources <- MCSources
    Owner <- MCOwner
    Results <- MCResults
    Chunks <- MCChunks
    Reads <- MCReads
    Idle = Idle
    Legacy <- MCLegacy
    Ended = Ended
    User = u1
    ArtifactType = "drive"
    SafeToDelete = TRUE
    PermissionId = FALSE
    MaxAttempts = 2
    MaxPerUser = 1
    MaxGlobal = 2
    Budgets <- MCBudgets
INVARIANTS
    DataTypeOK
    IndexIsOneResult
    AdmissionHolds
    ActsOnce
    IsOnRecord
PROPERTIES
    WorkSettles
CHECK_DEADLOCK FALSE
