SPECIFICATION Spec
CONSTANTS
    c1 = c1
    c2 = c2
    s1 = s1
    s2 = s2
    NoOne = NoOne
    Callers = {c1, c2}
    Stores = {s1}
    StoreOf <- Shared
    MaxLogs = 3
    MaxCrashes = 1
INVARIANTS
    TypeOK
    NoLostRecord
    AlwaysReadable
    IdsTrackPositions
PROPERTIES
    Implements
    LockIsReleased
