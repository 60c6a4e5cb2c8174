SPECIFICATION Spec
CONSTANTS
    c1 = c1
    c2 = c2
    s1 = s1
    s2 = s2
    NoOne = NoOne
    Callers = {c1, c2}
    Stores = {s1, s2}
    StoreOf <- Separate
    MaxLogs = 1
    MaxCrashes = 0
INVARIANT NoLostRecord
