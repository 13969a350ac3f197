SPECIFICATION Spec
CONSTANTS
    Keys <- MCKeys
    Similar <- MCSimilar
    Offers <- MCOffers
    Amounts = {1, 2}
    Requests = {r1}
    Positions = {1, 2}
    MaxRows = 2
    Bounds <- MCBounds
INVARIANT TypeOK
PROPERTIES
    ServedFromCatalog
    ApplyKeepsNewest
CHECK_DEADLOCK FALSE
