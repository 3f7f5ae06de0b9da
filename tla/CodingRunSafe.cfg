SPECIFICATION FairSpec
CONSTANTS
    Plans = {p1, p2}
    NoPlan = NoPlan
    Workers = {w1, w2}
    MaxAttempts = 3
    MaxCrashes = 2
    MaxStalls = 1
INVARIANTS
    TypeOK
    PublishedWithConsent
    CandidateIsTheBranch
    AttemptBudget
PROPERTIES
    CompletedIsFinal
    ImplementsPublication
    WorkAdvances
CHECK_DEADLOCK FALSE
