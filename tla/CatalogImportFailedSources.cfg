SPECIFICATION FairSpec
CONSTANTS
    Admins = {a1}
    NoAdmin = NoAdmin
    MaxId = 1
    MaxUploads = 1
    Capacity = 1
    MaxStops = 1
    MaxKills = 0
    MaxDbErrors = 0
    EarlyRestart = FALSE
PROPERTY FailedWithoutSourcesExpires
CHECK_DEADLOCK FALSE
