SPECIFICATION Spec
CONSTANTS
    Threads = {t1, t2}
    NoThread = NoThread
    Paths = {configuredPath}
    configuredPath = configuredPath
    DefaultPath = default
    None = None
    Malformed = Malformed
    Requests <- MCRequests
    Policy <- MCPolicy
    Bounds <- MCBounds
    t1 = t1
    t2 = t2
INVARIANTS
    AuditTellsWhatRan
    RerunIsExplained
    ProcessIsRestored
PROPERTY EveryCallEnds
