SPECIFICATION Spec
CONSTANTS
    Steps = {1, 2}
    Tools = {"send_gmail"}
    Contract <- SendAfterRead
    NeedsApproval = TRUE
    Gated = {2}
    Idempotent = {}
    Deps <- Independent
    ReadAttempts = 2
    BatchLimit = 2
    Workers = {w1}
    Resumers = {u1}
    Nobody = Nobody
    MaxCrashes = 0
    MaxStalls = 0
    MaxResumes = 0
PROPERTY CancelledNeverRuns
CHECK_DEADLOCK FALSE
