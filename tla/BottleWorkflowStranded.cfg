SPECIFICATION Spec
CONSTANTS
    Requests = {}
    Nobody = Nobody
    MaxId = 2
    MaxBottles = 2
    MaxForms = 0
    MaxStops = 0
    PriceIndex = TRUE
INVARIANT InProgressHasTask
CHECK_DEADLOCK FALSE
