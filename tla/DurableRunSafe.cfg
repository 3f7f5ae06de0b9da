SPECIFICATION FairSpec
CONSTANTS
    Steps = {1, 2, 3}
    Tools = {"share_drive_file", "send_gmail"}
    Contract <- SendAndShare
    NeedsApproval = TRUE
    Gated = {2, 3}
    Idempotent = {"share_drive_file"}
    Deps <- MailAndShare
    ReadAttempts = 3
    BatchLimit = 2
    Workers = {w1, w2}
    Resumers = {u1}
    Nobody = Nobody
    MaxCrashes = 1
    MaxStalls = 0
    MaxResumes = 2
INVARIANTS
    SingleExecutor
    NoRepeatedWrite
    CompletedWritesWereAccepted
    CompletedMeansComplete
    EndedMeansQuiet
    DependencyOrder
PROPERTIES
    CompletedStepsStay
    RunSettles
CHECK_DEADLOCK FALSE
