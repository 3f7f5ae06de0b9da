SPECIFICATION Spec
CONSTANTS
    Steps = {1}
    Tools = {"create_google_sheet", "write_google_sheet"}
    Contract <- CreateAndWrite
    NeedsApproval = FALSE
    Gated = {}
    Idempotent = {}
    Deps <- Alone
    ReadAttempts = 2
    BatchLimit = 2
    Workers = {w1}
    Resumers = {u1}
    Nobody = Nobody
    MaxCrashes = 0
    MaxStalls = 0
    MaxResumes = 1
INVARIANT ContractFulfilled
CHECK_DEADLOCK FALSE
