SPECIFICATION Spec
CONSTANTS
    Browsers = {b1, b2}
    Emails = {"admin", "other"}
    DEFAULT_ADMIN_EMAIL = "admin"
    Modes <- Deployments
    MAX_USERS = 2
    RecoveryOverlaps = FALSE
    MaxAccounts = 2
    MaxTokens <- TokenBounds
    MaxVersion = 2
    MaxStops = 1
SYMMETRY BrowserSymmetry
INVARIANTS
    TypeOK
    OneLiveToken
    UnusedTokenIsCurrent
    VerifiedEmailWasProved
    SessionIsCurrent
PROPERTY StartsWithAdmin
CHECK_DEADLOCK FALSE
