SPECIFICATION Spec
CONSTANTS
    Admins = {a1, a2}
    NoAdmin = NoAdmin
    MaxId = 2
    MaxUploads = 3
    Capacity = 2
    MaxStops = 1
    MaxKills = 1
    MaxDbErrors = 0
    EarlyRestart = TRUE
SYMMETRY AdminSymmetry
PROPERTY RefinesLifecycle
INVARIANTS
    TypeOK
    RunnableHasSources
    ProposalsAreOwn
    LeaseIffExtracting
    PublishedAtMostOnce
    ExpiredHasNoSources
    AttemptsAreBounded
CHECK_DEADLOCK FALSE
