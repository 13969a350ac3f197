SPECIFICATION FairSpec
CONSTANTS
    Requests = {r1}
    Nobody = Nobody
    MaxId = 1
    MaxBottles = 2
    MaxForms = 1
    MaxStops = 1
    PriceIndex = TRUE
INVARIANTS
    TypeOK
    LockHasHolder
    StrandedByLockOnly
PROPERTIES
    FirstEntryStands
    HandVerifiedStands
    EnteredDateStands
    EveryBottleSettles
CHECK_DEADLOCK FALSE
