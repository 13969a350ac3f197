SPECIFICATION Spec
CONSTANTS
    Browsers = {b1, b2}
    Emails = {"admin", "other"}
    DEFAULT_ADMIN_EMAIL = "admin"
    Modes <- Unverified
    MAX_USERS = 2
    RecoveryOverlaps = FALSE
    MaxAccounts = 3
    MaxTokens <- TokenBounds
    MaxVersion = 2
    MaxStops = 1
PROPERTY StartsWithAdmin
CHECK_DEADLOCK FALSE
