SPECIFICATION Spec
CONSTANTS
    Steps = {1, 2}
    Tools = {"send_gmail"}
    Contract <- SendAfterRead
    NeedsApproval = TRUE
    Gated = {2}
    Idempotent = {}
    Deps <- Independent
    ReadAttempts = 2
    BatchLimit = 1
    Workers = {w1, w2}
    Resumers = {u1, u2}
    Nobody = Nobody
    MaxCrashes = 0
    MaxStalls = 1
    MaxResumes = 2
SYMMETRY Symmetry
PROPERTIES
    ImplementsLedger
INVARIANTS
    TypeOK
    RetryBudget
    ApprovalGate
CHECK_DEADLOCK FALSE
