SPECIFICATION Spec
CONSTANTS
    Requests = {r1, r2}
    MaxId = 1
    MaxFiles = 4
    MaxDeletes = 1
    MaxStops = 1
INVARIANTS
    TypeOK
    PhotosAreThere
    AvatarIsThere
    FilesAreNamed
CHECK_DEADLOCK FALSE
