\* One identity, windows of two seconds of four ticks, three windows.
SPECIFICATION Spec
CONSTANTS
    i1 = i1
    Identities <- OneIdentity
    Limit = 2
    Window = 2
    Ticks = 4
    MaxTime = 24
    MaxRequests = 4
INVARIANTS
    TypeOK
    AtMostLimitPerWindow
    RefusalIsEarned
CHECK_DEADLOCK FALSE
