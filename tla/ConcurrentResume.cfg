SPECIFICATION Spec
CONSTANTS
    Steps = {1, 2}
    Tools = {"send_gmail"}
    Contract <- SendAfterRead
    NeedsApproval = FALSE
    Gated = {}
    Idempotent = {}
    Deps <- ReadThenWrite
    ReadAttempts = 2
    BatchLimit = 2
    Workers = {w1, w2}
    Resumers = {u1, u2}
    Nobody = Nobody
    MaxCrashes = 0
    MaxStalls = 0
    MaxResumes = 2
INVARIANT NoRepeatedWrite
CHECK_DEADLOCK FALSE
