SPECIFICATION Spec
CONSTANTS
    Emails = {e1, e2, e3}
    IPs = {i1, i2}
    limit = 2
    window = 2
    global_limit = 3
    max_keys = 3
    MaxNow = 3
    MaxAllowed = 4
    MaxRefused = 2
INVARIANTS
    WindowsHold
    CountsAreExact
    KeysAreBounded
PROPERTY IsSlidingWindow
CHECK_DEADLOCK FALSE
