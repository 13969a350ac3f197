SPECIFICATION FairSpec
CONSTANTS
    Admins = {a1}
    NoAdmin = NoAdmin
    MaxId = 2
    MaxUploads = 2
    Capacity = 2
    MaxStops = 1
    MaxKills = 1
    MaxDbErrors = 1
    EarlyRestart = FALSE
PROPERTIES
    EveryUploadSettles
    LeftoversGo
CHECK_DEADLOCK FALSE
