SPECIFICATION Spec
CONSTANTS
    Proposals = {p1, p2}
    Runs = {r1}
    Bundles = {k1}
    None = None
    MaxBuilds = 2
    MaxCanaries = 2
    MaxPulls = 2
SYMMETRY Symmetry
INVARIANTS
    TypeOK
    CanariesWereValidated
    ActiveIsDeployed
    OneCodeCanary
    MainIsGoverned
    NeverStartedRunsReturn
    OnePullRequest
PROPERTIES
    KnowledgeIsReleased
    ClosedStaysClosed
CHECK_DEADLOCK FALSE
