SPECIFICATION Spec
CONSTANTS
    Environments <- MCEnvironments
    Databases <- MCDatabases
    HEAD_REVISION = 2
    Drawn <- MCDrawn
    MaxSaves = 2
    MaxStops = 3
    MaxEdits = 1
INVARIANTS
    TypeOK
    InheritedStaysInherited
    AcceptedSettingsStart
    ServesAtHead
    OnlyKillStrands
PROPERTY SaveTakesEffect
CHECK_DEADLOCK FALSE
