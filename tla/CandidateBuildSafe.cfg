SPECIFICATION Spec
CONSTANTS
    Runners = {r1}
    Embedded = {e1}
    MaxRounds <- MCMaxRounds
    RoleLimit <- MCRoleLimit
    FinalRounds = 1
    HardFileRound = 1
    Reserve = 1
    Budget = 4
    Costs = {1}
    MaxFaults = 1
    MaxIncidents = 1
    MaxStarts <- MCMaxStarts
INVARIANTS
    TypeOK
    DraftWasReviewed
    RecordedSpend
    InvestigatingHasAWorker
    RetryHasAuthority
PROPERTIES
    FinishedStaysFinished
CHECK_DEADLOCK FALSE
