SPECIFICATION Spec
CONSTANTS
    Steps = {1}
    Tools = {"resolve_chat_destination", "send_chat_message"}
    Contract <- ResolveAndSend
    NeedsApproval = FALSE
    Gated = {}
    Idempotent = {"resolve_chat_destination"}
    Deps <- Alone
    ReadAttempts = 2
    BatchLimit = 2
    Workers = {w1}
    Resumers = {u1}
    Nobody = Nobody
    MaxCrashes = 1
    MaxStalls = 0
    MaxResumes = 2
INVARIANT NoRepeatedWrite
CHECK_DEADLOCK FALSE
